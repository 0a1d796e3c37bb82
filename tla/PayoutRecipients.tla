-------------------------- MODULE PayoutRecipients --------------------------
(***************************************************************************)
(* Where EscrowFlowRegistry sends a payout.  Three sources can redirect a  *)
(* leg (freelancer or client) of a milestone: the party's own consent, for *)
(* one milestone or project-wide, given by a call or by a signed message;  *)
(* and, while a dispute is active, an alternative the arbitrators propose, *)
(* which the party itself must execute once a delay has passed.            *)
(***************************************************************************)
EXTENDS Addresses

CONSTANTS
  MaxProjects,                   \* bound: projects ever created
  MAX_MILESTONES,
  ALTERNATIVE_RECIPIENT_DELAY,
  MaxSignedConsents              \* bound: consents the parties ever sign

ASSUME MaxProjectsAssumption == MaxProjects \in Nat
ASSUME MilestonesAssumption == MAX_MILESTONES \in Nat \ {0}
ASSUME AlternativeDelayAssumption == ALTERNATIVE_RECIPIENT_DELAY \in Nat

Projects == 1..MaxProjects
Legs == {"freelancer", "client"}
MilestoneIndexes == 0..(MAX_MILESTONES - 1)

(* _PROJECT_WIDE_RECIPIENT_SCOPE, an index no milestone has *)
ProjectWide == MAX_MILESTONES
Scopes == MilestoneIndexes \cup {ProjectWide}

VARIABLES
  now,                  \* block.timestamp
  partyAuthorized,      \* [project][scope][leg]: the party's own choice
  authorizationNonce,   \* [project][scope][leg]: signed consents consumed
  signedConsents,       \* messages the parties have signed, off-chain
  alternative,          \* [project][milestone][leg]: executed alternative
  pendingAlternative    \* [project][milestone][leg]: proposed, not executed

recipientVars == <<partyAuthorized, authorizationNonce, signedConsents,
                   alternative, pendingAlternative>>
alternativeVars == <<alternative, pendingAlternative>>
consentVars == <<partyAuthorized, authorizationNonce, signedConsents>>

NoPending == [recipient |-> NoAddress, executableAfter |-> 0]

RecipientsInit ==
  /\ partyAuthorized =
       [p \in Projects |-> [s \in Scopes |-> [l \in Legs |-> NoAddress]]]
  /\ authorizationNonce =
       [p \in Projects |-> [s \in Scopes |-> [l \in Legs |-> 0]]]
  /\ signedConsents = {}
  /\ alternative =
       [p \in Projects |-> [i \in MilestoneIndexes |-> [l \in Legs |-> NoAddress]]]
  /\ pendingAlternative =
       [p \in Projects |-> [i \in MilestoneIndexes |-> [l \in Legs |-> NoPending]]]

-----------------------------------------------------------------------------
(* Who is paid.                                                            *)

FirstSet(a, b) == IF a # NoAddress THEN a ELSE b

(* Mutant: a proposed alternative is paid before the party executes it. *)
LegRecipient_PaysProposals(p, i, leg, party) ==
  FirstSet(partyAuthorized[p][i][leg],
    FirstSet(pendingAlternative[p][i][leg].recipient, party))

(* Mutant: what the party itself authorized is not looked at. *)
LegRecipient_NoConsent(p, i, leg, party) == FirstSet(alternative[p][i][leg], party)

(* _freelancerRecipient, _clientRecipient *)
LegRecipient(p, i, leg, party) ==
  FirstSet(partyAuthorized[p][i][leg],
    FirstSet(partyAuthorized[p][ProjectWide][leg],
      FirstSet(alternative[p][i][leg], party)))

(* Mutant: the other leg's choice is read. *)
ProjectRecipient_WrongLeg(p, party) ==
  FirstSet(partyAuthorized[p][ProjectWide]["freelancer"], party)

(* _projectClientRecipient *)
ProjectRecipient(p, party) ==
  FirstSet(partyAuthorized[p][ProjectWide]["client"], party)

(* A proposed alternative that still may not be executed. *)
ChangePending(p, i, leg) ==
  /\ pendingAlternative[p][i][leg].recipient # NoAddress
  /\ now < pendingAlternative[p][i][leg].executableAfter

(* _requireNoBlockingAlternativeRecipientChange *)
NoBlockingChange(p, i, r) ==
  /\ (r.kind \in {"ReleaseToFreelancer", "Split"} \/ r.freelancerAmount > 0)
       => ~ChangePending(p, i, "freelancer")
  /\ (r.kind \in {"RefundToClient", "Split"} \/ r.clientAmount > 0)
       => ~ChangePending(p, i, "client")

-----------------------------------------------------------------------------
(* State changes.                                                          *)

(* Mutant: proposals outlive the dispute. *)
ClearAlternatives_KeepsProposals(p, i) ==
  /\ alternative' = [alternative EXCEPT ![p][i] = [l \in Legs |-> NoAddress]]
  /\ UNCHANGED pendingAlternative

(* _clearAlternativeRecipients *)
ClearAlternatives(p, i) ==
  /\ alternative' = [alternative EXCEPT ![p][i] = [l \in Legs |-> NoAddress]]
  /\ pendingAlternative' =
       [pendingAlternative EXCEPT ![p][i] = [l \in Legs |-> NoPending]]

(* cancelProject clears the milestones of a set in its loop. *)
ClearAlternativesOf(p, S) ==
  /\ alternative' = [alternative EXCEPT ![p] =
       [i \in MilestoneIndexes |->
          IF i \in S THEN [l \in Legs |-> NoAddress] ELSE @[i]]]
  /\ pendingAlternative' = [pendingAlternative EXCEPT ![p] =
       [i \in MilestoneIndexes |->
          IF i \in S THEN [l \in Legs |-> NoPending] ELSE @[i]]]

(* Mutant: a proposal that replaces another one inherits its delay. *)
ProposeAlternative_KeepsDelay(p, i, leg, new) ==
  LET old == pendingAlternative[p][i][leg] IN
  /\ pendingAlternative' = [pendingAlternative EXCEPT ![p][i][leg] =
       IF new = NoAddress THEN NoPending
       ELSE [recipient |-> new,
             executableAfter |-> IF old.recipient # NoAddress THEN old.executableAfter
                                 ELSE now + ALTERNATIVE_RECIPIENT_DELAY]]
  /\ alternative' = IF new = NoAddress THEN [alternative EXCEPT ![p][i][leg] = NoAddress]
                    ELSE alternative

(* What a confirmed setAlternativeRecipient does: the zero address clears   *)
(* the leg, any other opens a delayed proposal.                             *)
ProposeAlternative(p, i, leg, new) ==
  \/ /\ new = NoAddress
     /\ alternative' = [alternative EXCEPT ![p][i][leg] = NoAddress]
     /\ pendingAlternative' = [pendingAlternative EXCEPT ![p][i][leg] = NoPending]
  \/ /\ new # NoAddress
     /\ pendingAlternative' = [pendingAlternative EXCEPT ![p][i][leg] =
          [recipient |-> new,
           executableAfter |-> now + ALTERNATIVE_RECIPIENT_DELAY]]
     /\ UNCHANGED alternative

(* executeAlternativeRecipient, past its project checks *)
ExecuteAlternative(p, i, leg) ==
  LET pending == pendingAlternative[p][i][leg] IN
  /\ pending.recipient # NoAddress
  /\ now >= pending.executableAfter
  /\ alternative' = [alternative EXCEPT ![p][i][leg] = pending.recipient]
  /\ pendingAlternative' = [pendingAlternative EXCEPT ![p][i][leg] = NoPending]

(* _setPartyAuthorizedRecipient *)
AuthorizeRecipient(p, scope, leg, new) ==
  /\ new # Registry
  /\ partyAuthorized' = [partyAuthorized EXCEPT ![p][scope][leg] = new]

(* The party signs a consent off-chain, for any nonce and deadline. *)
SignConsent(party, p, scope, leg, new, nonce, deadline) ==
  LET consent == [signer |-> party, project |-> p, scope |-> scope, leg |-> leg,
                  recipient |-> new, nonce |-> nonce, deadline |-> deadline]
  IN /\ consent \notin signedConsents
     /\ signedConsents' = signedConsents \cup {consent}

(* Mutant: the nonce of a consent is not compared. *)
UseConsent_AnyNonce(consent) ==
  LET p == consent.project  s == consent.scope  l == consent.leg IN
  /\ consent \in signedConsents
  /\ now <= consent.deadline
  /\ authorizationNonce' = [authorizationNonce EXCEPT ![p][s][l] = @ + 1]
  /\ AuthorizeRecipient(p, s, l, consent.recipient)

(* setPartyAuthorizedRecipientBySig, past its project checks: anyone may    *)
(* relay a consent, which is used up by its nonce.                          *)
UseConsent(consent) ==
  LET p == consent.project  s == consent.scope  l == consent.leg IN
  /\ consent \in signedConsents
  /\ now <= consent.deadline
  /\ consent.nonce = authorizationNonce[p][s][l]
  /\ authorizationNonce' = [authorizationNonce EXCEPT ![p][s][l] = @ + 1]
  /\ AuthorizeRecipient(p, s, l, consent.recipient)

-----------------------------------------------------------------------------

PendingType == [recipient : Addresses, executableAfter : Nat]
ConsentType ==
  [signer : Accounts, project : Projects, scope : Scopes, leg : Legs,
   recipient : Addresses, nonce : Nat, deadline : Nat]

(* Type invariant of the recipients. *)
RecipientsTypeOK ==
  /\ now \in Nat
  /\ partyAuthorized \in [Projects -> [Scopes -> [Legs -> Addresses]]]
  /\ authorizationNonce \in [Projects -> [Scopes -> [Legs -> Nat]]]
  /\ signedConsents \subseteq ConsentType
  /\ alternative \in [Projects -> [MilestoneIndexes -> [Legs -> Addresses]]]
  /\ pendingAlternative \in [Projects -> [MilestoneIndexes -> [Legs -> PendingType]]]

=============================================================================
