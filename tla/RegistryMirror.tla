--------------------------- MODULE RegistryMirror ---------------------------
(***************************************************************************)
(* The rows event sync keeps of the contract's payout recipients and of    *)
(* the admin's emergency proposals.  Every transaction of the registry is  *)
(* composed with what event sync makes of the events it emits, in their    *)
(* order: a state is what the database says once it is synced.  How late   *)
(* and how often events arrive is the subject of EventSync.                *)
(*                                                                         *)
(* A redirection for the whole project cannot be stored, its milestone     *)
(* index being 2^256-1: such transactions are left to EventSync as well.   *)
(*                                                                         *)
(* A proposal's row names its action by the hash; its kind column, which   *)
(* is 0 whatever was proposed (asBigInt of a uint8), is left out.          *)
(***************************************************************************)
EXTENDS EscrowRegistry, Sequences

CONSTANTS
  MayConsent,           \* whether the parties redirect their payouts themselves
  MaxProposalRows       \* bound: rows of proposals per milestone

MirrorAssumption == MayConsent \in BOOLEAN /\ MaxProposalRows \in Nat

VARIABLES
  recipientRow,         \* alternativeRecipientState: [project][milestone][leg]
  proposalRows          \* emergencyResolutionProposal: [project][milestone], oldest first

mirrorVars == <<recipientRow, proposalRows>>

NoAction == [nonce |-> "none"]
NoRow == [pending |-> NoAddress, executableAfter |-> 0,
          active |-> NoAddress, party |-> NoAddress]
ClearedLegs == [l \in Legs |-> NoRow]

MirrorInit ==
  /\ Init
  /\ recipientRow = [p \in Projects |-> [i \in MilestoneIndexes |-> ClearedLegs]]
  /\ proposalRows = [p \in Projects |-> [i \in MilestoneIndexes |-> <<>>]]

-----------------------------------------------------------------------------
(* One operator per event: the rows after it.                              *)

(* AlternativeRecipientSet: the row is written whole.  executableAfter is 0 *)
(* when a party chose, and when the arbitrators cleared the leg.           *)
SetRow(recipient, executableAfter) ==
  IF recipient = NoAddress THEN NoRow
  ELSE IF executableAfter = 0 THEN [NoRow EXCEPT !.party = recipient]
  ELSE [NoRow EXCEPT !.pending = recipient, !.executableAfter = executableAfter]

AlternativeRecipientSet(p, i, leg, recipient, executableAfter) ==
  recipientRow' =
    [recipientRow EXCEPT ![p][i][leg] = SetRow(recipient, executableAfter)]

(* Mutant: the proposal is not taken off the row. *)
AlternativeRecipientExecuted_KeepsPending(p, i, leg, recipient) ==
  recipientRow' = [recipientRow EXCEPT ![p][i][leg].active = recipient]

AlternativeRecipientExecuted(p, i, leg, recipient) ==
  recipientRow' = [recipientRow EXCEPT ![p][i][leg] =
    [@ EXCEPT !.pending = NoAddress, !.executableAfter = 0, !.active = recipient]]

(* Mutant: the rows outlive the dispute. *)
ClearedByResolution_Nothing(p, i) == UNCHANGED recipientRow

(* DisputeResolved and EmergencyDisputeResolved, for both legs *)
ClearedByResolution(p, i) ==
  recipientRow' = [recipientRow EXCEPT ![p][i] = ClearedLegs]

(* ProjectCancelled and ProjectEmergencyCancelled *)
ClearedByCancellation(p) ==
  recipientRow' =
    [recipientRow EXCEPT ![p] = [i \in MilestoneIndexes |-> ClearedLegs]]

Restatus(rows, Chosen(_), status) ==
  [k \in DOMAIN rows |->
     IF rows[k].status = "proposed" /\ Chosen(rows[k])
     THEN [rows[k] EXCEPT !.status = status] ELSE rows[k]]

ProposalRow(action, readyAt, status) ==
  [action |-> action, readyAt |-> readyAt, status |-> status]

(* Mutant: proposals outlive the nonce they are bound to. *)
NonceAdvanced_Nothing(rows) == Append(rows, ProposalRow(NoAction, 0, "invalidated"))

Proposed(rows, action, readyAt) == Append(rows, ProposalRow(action, readyAt, "proposed"))
Cancelled(rows, action) ==
  Append(Restatus(rows, LAMBDA r : r.action = action, "cancelled"),
         ProposalRow(action, 0, "cancelled"))
NonceAdvanced(rows) ==
  Append(Restatus(rows, LAMBDA r : TRUE, "invalidated"),
         ProposalRow(NoAction, 0, "invalidated"))
EmergencyResolved(rows) ==
  Append(Restatus(rows, LAMBDA r : TRUE, "executed"),
         ProposalRow(NoAction, 0, "executed"))

-----------------------------------------------------------------------------
(* The registry's transactions, with their events.                         *)

Unmirrored ==
  /\ \/ AdminStep \/ EnvironmentStep
     \/ \E parties \in Parties, t \in Tokens, plan \in Plans :
          CreateProject(parties[1], parties[2], t, plan)
     \/ \E c \in Accounts, p \in Projects, amount \in FundingAmounts :
          FundProject(c, p, amount)
     \/ \E c \in Accounts, p \in Projects, i \in MilestoneIndexes :
          \/ SubmitMilestone(c, p, i) \/ ApproveMilestone(c, p, i)
          \/ ReleaseMilestone(c, p, i) \/ RaiseDispute(c, p, i)
          \/ AppendDisputeEvidence(c, p, i)
          \/ \E r \in Resolutions : VoteOnDispute(c, p, i, r)
     \/ \E c \in Accounts, p \in Projects, choice \in RecipientChoices,
           nonce \in 0..MaxSignedConsents, deadline \in 1..MaxTime :
          /\ MayConsent /\ choice[1] # ProjectWide
          /\ SignRecipientConsent(c, p, choice[1], choice[2], choice[3], nonce, deadline)
  /\ UNCHANGED mirrorVars

(* Settling a dispute advances the nonce first, then reports the decision. *)
MirroredResolution(c, p, i) ==
  \/ /\ \/ \E r \in Resolutions : ResolveDispute(c, p, i, r)
        \/ ResolveStaleDisputeByTimeout(c, p, i)
     /\ ClearedByResolution(p, i)
     /\ proposalRows' = [proposalRows EXCEPT ![p][i] = NonceAdvanced(@)]
  \/ \E r \in Resolutions :
       /\ EmergencyResolveDispute(c, p, i, r)
       /\ ClearedByResolution(p, i)
       /\ proposalRows' =
            [proposalRows EXCEPT ![p][i] = EmergencyResolved(NonceAdvanced(@))]

MirroredProposal(c, p, i, r) ==
  /\ Len(proposalRows[p][i]) < MaxProposalRows
  /\ \/ /\ ProposeEmergencyResolveDispute(c, p, i, r)
        /\ proposalRows' = [proposalRows EXCEPT ![p][i] =
             Proposed(@, EmergencyAction(p, i, r), now + EMERGENCY_RESOLUTION_DELAY)]
     \/ /\ CancelEmergencyResolveDispute(c, p, i, r)
        /\ proposalRows' =
             [proposalRows EXCEPT ![p][i] = Cancelled(@, EmergencyAction(p, i, r))]
  /\ UNCHANGED recipientRow

MirroredCancellation(c, p) ==
  \/ /\ CancelProject(c, p)
     /\ ClearedByCancellation(p)
     /\ proposalRows' = [proposalRows EXCEPT ![p] = [i \in MilestoneIndexes |->
          IF i \in StaleDisputes(p) THEN NonceAdvanced(@[i]) ELSE @[i]]]
  \/ /\ EmergencyAdminCancel(c, p)
     /\ ClearedByCancellation(p)
     /\ UNCHANGED proposalRows

(* The arbitrators' decision, or a vote short of it that emits nothing *)
MirroredAlternative(c, p, i, leg, new) ==
  /\ SetAlternativeRecipient(c, p, i, leg, new)
  /\ IF QuorumWith(c, AlternativeSubject(p, i, leg, new))
       THEN AlternativeRecipientSet(p, i, leg, new,
              IF new = NoAddress THEN 0 ELSE now + ALTERNATIVE_RECIPIENT_DELAY)
       ELSE UNCHANGED recipientRow
  /\ UNCHANGED proposalRows

MirroredExecution(c, p, i, leg) ==
  /\ ExecuteAlternativeRecipient(c, p, i, leg)
  /\ AlternativeRecipientExecuted(p, i, leg, pendingAlternative[p][i][leg].recipient)
  /\ UNCHANGED proposalRows

MirroredConsent(c, p, i, leg, new) ==
  /\ MayConsent
  /\ \/ SetPartyAuthorizedRecipient(c, p, i, leg, new)
     \/ \E consent \in signedConsents :
          /\ <<consent.project, consent.scope, consent.leg, consent.recipient>>
               = <<p, i, leg, new>>
          /\ SetPartyAuthorizedRecipientBySig(consent)
  /\ AlternativeRecipientSet(p, i, leg, new, 0)
  /\ UNCHANGED proposalRows

MirrorNext ==
  \/ Unmirrored
  \/ \E c \in Accounts, p \in Projects :
       \/ MirroredCancellation(c, p)
       \/ \E i \in MilestoneIndexes :
            \/ MirroredResolution(c, p, i)
            \/ \E r \in Resolutions : MirroredProposal(c, p, i, r)
            \/ \E leg \in Legs : MirroredExecution(c, p, i, leg)
       \/ \E choice \in RecipientChoices :
            /\ choice[1] # ProjectWide
            /\ \/ MirroredAlternative(c, p, choice[1], choice[2], choice[3])
               \/ MirroredConsent(c, p, choice[1], choice[2], choice[3])

MirrorSpec == MirrorInit /\ [][MirrorNext]_<<vars, mirrorVars>>

-----------------------------------------------------------------------------
(* What pages show of the rows.                                            *)

(* isFreelancer of the query is coerced from a string; none is false. *)
AskedLeg(leg) == "freelancer"

(* alternative-recipient-state, asked by the panel of a leg *)
ShownRecipients(p, i, leg) == recipientRow[p][i][AskedLeg(leg)]

(* "Indexed proposal" of the admin's page: the row updated last *)
ShownProposal(p, i) ==
  IF proposalRows[p][i] = <<>> THEN "none"
  ELSE proposalRows[p][i][Len(proposalRows[p][i])].status

-----------------------------------------------------------------------------
(* Properties.                                                             *)

LiveProposals(p, i) ==
  {<<e[1], e[2]>> : e \in {e \in emergencyReadyAt :
     /\ e[1].project = p /\ e[1].milestone = i
     /\ e[1].nonce = emergencyNonce[p][i]}}

ProposedRows(p, i) ==
  {<<r.action, r.readyAt>> : r \in
     {proposalRows[p][i][k] : k \in
        {k \in DOMAIN proposalRows[p][i] : proposalRows[p][i][k].status = "proposed"}}}

(* Types; and a row never says of a leg more than one of pending and        *)
(* chosen by its party.                                                    *)
MirrorTypeOK ==
  /\ recipientRow \in [Projects -> [MilestoneIndexes -> [Legs ->
       [pending : Addresses, executableAfter : Nat,
        active : Addresses, party : Addresses]]]]
  /\ \A p \in Projects, i \in MilestoneIndexes, l \in Legs :
       LET row == recipientRow[p][i][l] IN
       /\ (row.pending = NoAddress) = (row.executableAfter = 0)
       /\ row.party # NoAddress => row.pending = NoAddress
  /\ \A p \in Projects, i \in MilestoneIndexes :
       Len(proposalRows[p][i]) <= MaxProposalRows + 2

(* The rows that say "proposed" are the proposals the contract would still  *)
(* let the admin execute or cancel, with the time from which it would.     *)
ProposedMirrors ==
  \A p \in Projects, i \in MilestoneIndexes : ProposedRows(p, i) = LiveProposals(p, i)

(* Whatever a row names, as proposed, as executed or as the party's choice, *)
(* the contract holds in that place at that moment.                        *)
NothingInvented ==
  \A p \in Projects, i \in MilestoneIndexes, l \in Legs :
    LET row == recipientRow[p][i][l] IN
    /\ row.pending # NoAddress =>
         pendingAlternative[p][i][l] =
           [recipient |-> row.pending, executableAfter |-> row.executableAfter]
    /\ row.active # NoAddress => row.active = alternative[p][i][l]
    /\ row.party # NoAddress => row.party = partyAuthorized[p][i][l]

(* "Close record on matching AlternativeRecipientExecuted", or when the     *)
(* dispute is resolved: until then a proposal is on the row.               *)
PendingShown ==
  \A p \in Projects, i \in MilestoneIndexes, l \in Legs :
    recipientRow[p][i][l].pending = pendingAlternative[p][i][l].recipient

(* "Pending recipient is not active until executed": meanwhile the row      *)
(* names the recipient that is still paid.                                 *)
ActiveShown ==
  \A p \in Projects, i \in MilestoneIndexes, l \in Legs :
    recipientRow[p][i][l].active = alternative[p][i][l]

(* The panel of a leg shows the row of that leg. *)
LegShown ==
  \A p \in Projects, i \in MilestoneIndexes, l \in Legs :
    ShownRecipients(p, i, l) = recipientRow[p][i][l]

(* A proposal the admin executes is recorded as executed. *)
ExecutedIsExecuted ==
  [][\A c \in Accounts, p \in Projects, i \in MilestoneIndexes, r \in Resolutions :
       EmergencyResolveDispute(c, p, i, r) =>
         \E k \in DOMAIN proposalRows'[p][i] :
           /\ proposalRows'[p][i][k].action = EmergencyAction(p, i, r)
           /\ proposalRows'[p][i][k].status = "executed"]_<<vars, mirrorVars>>

(* While a proposal is live, the page's "Indexed proposal" says so. *)
LiveProposalShown ==
  \A p \in Projects, i \in MilestoneIndexes :
    LiveProposals(p, i) # {} => ShownProposal(p, i) = "proposed"
=============================================================================
