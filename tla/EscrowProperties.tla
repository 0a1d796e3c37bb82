-------------------------- MODULE EscrowProperties --------------------------
(***************************************************************************)
(* What EscrowFlowRegistry promises: invariants of its books, its disputes *)
(* and its timelocks, and what no transaction may do.                      *)
(***************************************************************************)
EXTENDS EscrowRegistry

ProjectType ==
  [client : Accounts \cup {NoAddress}, freelancer : Addresses,
   token : Tokens \cup {NoAddress},
   fundedAmount : Nat, releasedAmount : Nat, refundedAmount : Nat,
   reservedAmount : Nat, activeDisputeCount : Nat, settledMilestoneCount : Nat,
   status : ProjectStatuses, plan : PlanType]
MilestoneType == [status : MilestoneStatuses, reviewEnteredAt : Nat]
DisputeType == [active : BOOLEAN, raisedAt : Nat, evidence : BOOLEAN]
EmergencyActionType ==
  [project : Projects, milestone : MilestoneIndexes, nonce : Nat,
   resolution : Resolutions]

Subjects == ResolveSubjects \cup AlternativeSubjects

AdminTypeOK ==
  /\ paused \in BOOLEAN
  /\ tokenReviewAttested \subseteq Tokens /\ allowedTokens \subseteq Tokens

ProjectsTypeOK ==
  /\ projectCount \in 0..MaxProjects
  /\ project \in [Projects -> ProjectType]
  /\ milestone \in [Projects -> [MilestoneIndexes -> MilestoneType]]
  /\ dispute \in [Projects -> [MilestoneIndexes -> DisputeType]]

NoncesTypeOK ==
  /\ actionNonce \in [Projects -> [MilestoneIndexes -> Nat]]
  /\ emergencyNonce \in [Projects -> [MilestoneIndexes -> Nat]]
  /\ emergencyReadyAt \subseteq EmergencyActionType \X Nat

TokensTypeOK ==
  /\ tokenOutstanding \in [Tokens -> Nat]
  /\ balance \in [Tokens -> [Holders -> Nat]]
  /\ blocked \in [Tokens -> SUBSET Accounts]

(* Type invariant of the registry. *)
TypeOK ==
  /\ RecipientsTypeOK /\ MultisigTypeOK(Subjects)
  /\ AdminTypeOK /\ ProjectsTypeOK /\ NoncesTypeOK /\ TokensTypeOK

-----------------------------------------------------------------------------
(* Invariants.                                                             *)

Created == 1..projectCount
Open(p) == project[p].status \in {"Active", "Disputed"}
Delivered(p, i) == milestone[p][i].status \in {"Submitted", "Approved"}
InFlight(p, i) == Delivered(p, i) \/ dispute[p][i].active
Disputed(p) == {i \in Milestones(p) : dispute[p][i].active}

(* Every way to settle, dispute or submit a milestone requires the earlier  *)
(* ones settled.  So the settled milestones of a project are its first      *)
(* settledMilestoneCount, and only the next one can be delivered or         *)
(* disputed: two payouts of one project never compete for its funds.        *)
OneMilestoneInFlight ==
  \A p \in Created : \A i \in Milestones(p) :
    /\ Settled(p, i) <=> i < project[p].settledMilestoneCount
    /\ InFlight(p, i) => i = project[p].settledMilestoneCount

(* "reservedAmount equals active disputed milestone allocations": the       *)
(* reservation, the dispute counter and the project status, written in six  *)
(* functions, always agree with the disputes that are open.                 *)
ReservationsMatchDisputes ==
  \A p \in Created :
    /\ project[p].reservedAmount = SumOfAmounts(p, Disputed(p))
    /\ project[p].activeDisputeCount = Cardinality(Disputed(p))
    /\ project[p].status = "Disputed" <=> Disputed(p) # {}

(* Work that is delivered or disputed stays covered by funds of its own     *)
(* project, whatever happens after the check in submitMilestone or          *)
(* raiseDispute: no release, timeout or resolution can run short later.     *)
DeliveredWorkStaysFunded ==
  \A p \in Created : \A i \in Milestones(p) :
    /\ InFlight(p, i) => Amount(p, i) <= AvailableLiquidity(p)
    /\ InFlight(p, i) /\ ~dispute[p][i].active => Amount(p, i) <= FreeLiquidity(p)

(* The accounting follows the milestones: what an open project has paid     *)
(* out is the price of the milestones it has settled, never more than it    *)
(* received; a completed project was funded and paid in full, and a         *)
(* cancelled one has returned everything it ever held.                      *)
BooksFollowMilestones ==
  \A p \in Created :
    LET proj == project[p]
        paid == proj.releasedAmount + proj.refundedAmount
    IN
    /\ paid <= proj.fundedAmount /\ proj.fundedAmount <= TotalAmount(p)
    /\ Open(p) => /\ paid = proj.plan.runningTotal[proj.settledMilestoneCount]
                  /\ proj.settledMilestoneCount < proj.plan.milestoneCount
    /\ ~Open(p) => /\ paid = proj.fundedAmount
                   /\ proj.settledMilestoneCount = proj.plan.milestoneCount
    /\ proj.status = "Completed" => paid = TotalAmount(p)

(* "_tokenOutstanding equals aggregate unsettled escrow liability", and the *)
(* registry holds at least that much of each token, whatever is swept, sent *)
(* by mistake or settled: no project is paid from the funds of another.     *)
TokensCoverLiabilities ==
  \A t \in Tokens :
    /\ tokenOutstanding[t] =
         MapThenSumSet(AvailableLiquidity, {p \in Created : project[p].token = t})
    /\ balance[t][Registry] >= tokenOutstanding[t]

(* A milestone is disputed at most once, and an emergency proposal that can *)
(* still be executed was made while that dispute was open: settling the     *)
(* dispute in any of four ways kills the proposals made for it.             *)
ProposalsDieWithTheirDispute ==
  \A p \in Created : \A i \in Milestones(p) :
    /\ emergencyNonce[p][i] > 0 =>
         emergencyNonce[p][i] = 1 /\ Settled(p, i) /\ ~dispute[p][i].active
    /\ \A e \in emergencyReadyAt :
         e[1] = EmergencyAction(p, i, e[1].resolution) =>
           /\ dispute[p][i].active
           /\ e[2] >= dispute[p][i].raisedAt + EMERGENCY_RESOLUTION_DELAY

(* The arbitrators' alternative recipients live only as long as the dispute *)
(* they were proposed in, and none of them becomes executable before the    *)
(* delay has passed in that dispute.                                        *)
AlternativesLiveInTheirDispute ==
  \A p \in Projects, i \in MilestoneIndexes, l \in Legs :
    /\ alternative[p][i][l] # NoAddress => dispute[p][i].active
    /\ pendingAlternative[p][i][l].recipient # NoAddress =>
         /\ dispute[p][i].active
         /\ pendingAlternative[p][i][l].executableAfter
              >= dispute[p][i].raisedAt + ALTERNATIVE_RECIPIENT_DELAY

(* A signed consent is used at most once and only for the party that signed *)
(* it: every authorization nonce that has passed was signed by the party of *)
(* that leg, whoever relayed it and in whatever order.                      *)
EveryNonceWasSigned ==
  \A p \in Projects, s \in Scopes, l \in Legs :
    \A n \in 0..(authorizationNonce[p][s][l] - 1) :
      \E c \in signedConsents :
        /\ c.project = p /\ c.scope = s /\ c.leg = l /\ c.nonce = n
        /\ c.signer = PartyOf(p, l)

(* An action the arbitrators have executed is spent: its nonce has passed,  *)
(* so it never stands in the way of a later decision on the milestone, and  *)
(* a decision on a dispute leaves the milestone settled.                    *)
ExecutedActionsAreSpent ==
  \A id \in executedActions :
    LET s == id.subject IN
    /\ s.nonce < actionNonce[s.project][s.milestone]
    /\ s.domain = "RESOLVE_DISPUTE" => Settled(s.project, s.milestone)

(* An approval serves once, for what it was given: what the arbitrators     *)
(* executed is spent, a recipient they propose lives only in the dispute it *)
(* was proposed in, and a consent is used once, by the party that signed.   *)
ApprovalsServeOnce ==
  ExecutedActionsAreSpent /\ AlternativesLiveInTheirDispute /\ EveryNonceWasSigned

-----------------------------------------------------------------------------
(* Action properties.                                                      *)

(* Delivered work is refunded to the client only by a decision on an open   *)
(* dispute, of the arbitrators or of the admin after the timelock: neither  *)
(* cancellation nor a timeout takes it back.                                *)
DeliveredWorkIsNotTakenBack ==
  [][\A p \in Created : \A i \in Milestones(p) :
       Delivered(p, i) /\ milestone'[p][i].status = "Refunded" =>
         /\ dispute[p][i].active
         /\ \/ executedActions' # executedActions
            \/ \E e \in emergencyReadyAt \ emergencyReadyAt' :
                 e[1].project = p /\ e[1].milestone = i /\ now >= e[2]]_vars

(* While the registry is paused no money enters, no work or dispute is      *)
(* opened, no vote counts, and money leaves only by the admin's emergency   *)
(* paths: a timelocked proposal, or the cancellation of an undisputed       *)
(* project without delivered work.                                          *)
PauseLeavesOnlyEmergencyPaths ==
  [][paused /\ paused' =>
       /\ votes' = votes /\ projectCount' = projectCount
       /\ \A p \in Created :
            /\ project'[p].fundedAmount = project[p].fundedAmount
            /\ \A i \in Milestones(p) :
                 /\ Delivered(p, i)' => milestone'[p][i] = milestone[p][i]
                 /\ dispute'[p][i].active => dispute[p][i].active
            /\ project'[p] # project[p] =>
                 \/ \E e \in emergencyReadyAt \ emergencyReadyAt' :
                      e[1].project = p /\ now >= e[2]
                 \/ /\ project'[p].status = "Cancelled"
                    /\ \A i \in Milestones(p) : ~InFlight(p, i)]_vars

ChoicesOf(p, leg) ==
  {PartyOf(p, leg)} \cup {partyAuthorized[p][s][leg] : s \in Scopes}
                   \cup {alternative[p][i][leg] : i \in MilestoneIndexes}

(* Whoever receives a payout is the party the money is due to, or an        *)
(* address that party itself authorized or executed before: what is         *)
(* released follows the freelancer's choices, what is refunded the          *)
(* client's, and an alternative the arbitrators proposed is never paid      *)
(* while the party has not executed it.                                     *)
PaysConsentedRecipients ==
  \A p \in Created :
    LET t == project[p].token
        gains == {a \in Accounts : balance'[t][a] > balance[t][a]}
        released == project'[p].releasedAmount > project[p].releasedAmount
        refunded == project'[p].refundedAmount > project[p].refundedAmount
    IN released \/ refunded =>
         gains \subseteq (IF released THEN ChoicesOf(p, "freelancer") ELSE {})
                    \cup (IF refunded THEN ChoicesOf(p, "client") ELSE {})

(* Every step pays nobody but whom the money is due to, or whom that party  *)
(* chose.                                                                   *)
OnlyConsentedRecipientsArePaid == [][PaysConsentedRecipients]_vars

(* Every vote of the registry is a vote the multisig allows, on a dispute   *)
(* that is open at that moment; nothing else touches the vote sets.         *)
VotesThroughMultisig ==
  [\/ RoleStep
   \/ \E v \in votes' :
        LET s == v[1].subject IN
        /\ ArbitratorVote(v[2], s)
        /\ dispute[s.project][s.milestone].active]_multisigVars

(* No step of the registry goes around the multisig.                        *)
VotesAreMultisigSteps == [][VotesThroughMultisig]_vars

-----------------------------------------------------------------------------
(* What a party can bring about.  The only exit of the registry that needs  *)
(* neither the other party nor an arbitrator nor an admin is the client's,  *)
(* from a dispute on work that was never delivered.  A payout the token     *)
(* refuses needs the party it goes to: it must name another recipient.      *)

ClientTakesBack(p, i) == ResolveStaleDisputeByTimeout(project[p].client, p, i)
ClientPays(p, i) == ReleaseMilestone(project[p].client, p, i)
PartyNames(p, scope, leg, new) ==
  /\ Exists(p) /\ partyAuthorized[p][scope][leg] # new
  /\ SetPartyAuthorizedRecipient(PartyOf(p, leg), p, scope, leg, new)

(* The dispute times out within the bound on time. *)
MayTimeOut(p, i) ==
  dispute[p][i].active /\ dispute[p][i].raisedAt + DISPUTE_TIMEOUT <= MaxTime

=============================================================================
