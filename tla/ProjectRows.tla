---------------------------- MODULE ProjectRows ----------------------------
(***************************************************************************)
(* The database rows of one project: its status, and of each milestone the *)
(* status, the submissions and the disputes.  Two writers change them: the *)
(* services, on behalf of a page that has talked to the chain, and event   *)
(* sync, one chain event after the other.  Every operator here is what one *)
(* database transaction of theirs does to the rows.                        *)
(***************************************************************************)
EXTENDS Naturals, Sequences, FiniteSets

CONSTANTS
  MilestoneCount,
  Cost            \* Cost[k]: what the first k milestones cost

ASSUME RowsAssumption ==
  /\ MilestoneCount \in Nat \ {0}
  /\ Cost \in [0..MilestoneCount -> Nat] /\ Cost[0] = 0
  /\ \A i \in 0..(MilestoneCount - 1) : Cost[i] < Cost[i + 1]

Milestones == 0..(MilestoneCount - 1)
TotalValue == Cost[MilestoneCount]

(* The statuses the code writes. *)
ProjectRowStatus == {"AWAITING_ESCROW", "ACTIVE", "DISPUTED", "COMPLETED", "CANCELLED"}
MilestoneRowStatus ==
  {"PLANNED", "FUNDED", "SUBMITTED", "APPROVED", "DISPUTED", "RELEASED", "VOIDED"}
SubmissionStatus == {"SUBMITTED", "ACCEPTED", "REJECTED"}
DisputeStatus ==
  {"OPEN", "RESOLVED_FREELANCER_FAVOR", "RESOLVED_CLIENT_FAVOR", "RESOLVED_SPLIT"}
ResolutionKind == {"ReleaseToFreelancer", "RefundToClient", "Split"}

NewRows ==
  [status      |-> "AWAITING_ESCROW",
   milestone   |-> [i \in Milestones |-> "PLANNED"],
   submissions |-> [i \in Milestones |-> <<>>],
   disputes    |-> [i \in Milestones |-> <<>>]]

Settled == {"RELEASED", "VOIDED"}
OpenDisputes(rows, i) ==
  {d \in DOMAIN rows.disputes[i] : rows.disputes[i][d].status = "OPEN"}
NoOpenDispute(rows) == \A i \in Milestones : OpenDisputes(rows, i) = {}
AllIn(rows, statuses) == \A i \in Milestones : rows.milestone[i] \in statuses

-----------------------------------------------------------------------------
(* Shared by services and event sync.                                      *)

(* Mutant: a milestone is compared with its own price only.                *)
FundedMilestones_NotCumulative(milestone, amount) ==
  [i \in Milestones |->
     IF milestone[i] = "PLANNED" /\ amount >= Cost[i + 1] - Cost[i] THEN "FUNDED"
     ELSE milestone[i]]

(* Mutant: whatever the deposits cover is funded, settled or not.           *)
FundedMilestones_AnyStatus(milestone, amount) ==
  [i \in Milestones |-> IF amount >= Cost[i + 1] THEN "FUNDED" ELSE milestone[i]]

(* What is paid for in full is funded. *)
FundedMilestones(milestone, amount) ==
  [i \in Milestones |->
     IF milestone[i] = "PLANNED" /\ amount >= Cost[i + 1] THEN "FUNDED"
     ELSE milestone[i]]

FundingStatus(amount) ==
  IF amount >= TotalValue THEN "ACTIVE" ELSE "AWAITING_ESCROW"

ResolvedStatus(kind) ==
  CASE kind = "ReleaseToFreelancer" -> "RESOLVED_FREELANCER_FAVOR"
    [] kind = "RefundToClient"      -> "RESOLVED_CLIENT_FAVOR"
    [] OTHER                        -> "RESOLVED_SPLIT"

SettledAs(kind) == IF kind = "RefundToClient" THEN "VOIDED" ELSE "RELEASED"

(* The project's status once a dispute is settled. *)
StatusAfterDispute(rows) ==
  IF ~NoOpenDispute(rows) THEN "DISPUTED"
  ELSE IF AllIn(rows, Settled) THEN "COMPLETED" ELSE "ACTIVE"

-----------------------------------------------------------------------------
(* Event sync: what applying one event does.                               *)

SyncFunded(rows, amount) ==
  [rows EXCEPT
    !.status = IF @ \in {"COMPLETED", "CANCELLED", "DISPUTED"} THEN @
               ELSE FundingStatus(amount),
    !.milestone = FundedMilestones(@, amount)]

(* Mutant: the service's row of this delivery is not looked for.            *)
SyncSubmitted_AlwaysNew(rows, i, uri) ==
  [rows EXCEPT
    !.status = "ACTIVE",
    !.milestone[i] = "SUBMITTED",
    !.submissions[i] = Append(@, [uri |-> uri, status |-> "SUBMITTED"])]

SyncSubmitted(rows, i, uri) ==
  LET known == \E k \in DOMAIN rows.submissions[i] :
                 rows.submissions[i][k].uri = uri IN
  [rows EXCEPT
    !.status = "ACTIVE",
    !.milestone[i] = "SUBMITTED",
    !.submissions[i] =
       IF known THEN @ ELSE Append(@, [uri |-> uri, status |-> "SUBMITTED"])]

(* Mutant: approval is taken for payment.                                   *)
SyncApproved_Pays(rows, i) == [rows EXCEPT !.milestone[i] = "RELEASED"]

SyncApproved(rows, i) ==
  [rows EXCEPT
    !.milestone[i] = "APPROVED",
    !.submissions[i] =
       IF @ = <<>> THEN @ ELSE [@ EXCEPT ![Len(@)].status = "ACCEPTED"]]

SyncReleased(rows, i) ==
  LET paid == [rows EXCEPT !.milestone[i] = "RELEASED"] IN
  [paid EXCEPT !.status = IF AllIn(paid, Settled) THEN "COMPLETED" ELSE "ACTIVE"]

(* Mutant: an open dispute is not looked for.                               *)
SyncDisputeRaised_AlwaysNew(rows, i) ==
  [rows EXCEPT
    !.status = "DISPUTED",
    !.milestone[i] = "DISPUTED",
    !.disputes[i] =
       Append(@, [status |-> "OPEN", evidence |-> "reason", related |-> FALSE])]

SyncDisputeRaised(rows, i) ==
  [rows EXCEPT
    !.status = "DISPUTED",
    !.milestone[i] = "DISPUTED",
    !.disputes[i] =
       IF OpenDisputes(rows, i) # {} THEN @
       ELSE Append(@, [status |-> "OPEN", evidence |-> "reason", related |-> FALSE])]

(* The latest open dispute; the rows of a sequence are in order of creation. *)
LatestOpen(rows, i) ==
  CHOOSE d \in OpenDisputes(rows, i) : \A e \in OpenDisputes(rows, i) : e <= d

SyncEvidence(rows, i) ==
  IF OpenDisputes(rows, i) = {} THEN rows
  ELSE [rows EXCEPT !.disputes[i][LatestOpen(rows, i)].evidence = "appended"]

(* The kind event sync reads of a decision.  The log is decoded with a      *)
(* number for the uint8, and asBigInt reads what is not a bigint as 0n, the *)
(* first kind, whatever the registry has emitted.                           *)
KindAsRead(kind) == "ReleaseToFreelancer"

(* Mutant: a dispute is closed, its milestone left to another event.        *)
SyncDisputeResolved_OnlyDispute(rows, i, kind) ==
  LET closed ==
        IF OpenDisputes(rows, i) = {} THEN rows
        ELSE [rows EXCEPT !.disputes[i][LatestOpen(rows, i)].status =
                ResolvedStatus(KindAsRead(kind))]
  IN [closed EXCEPT !.status = StatusAfterDispute(closed)]

SyncDisputeResolved(rows, i, kind) ==
  LET read == KindAsRead(kind)
      closed ==
        IF OpenDisputes(rows, i) = {} THEN rows
        ELSE [rows EXCEPT !.disputes[i][LatestOpen(rows, i)].status =
                ResolvedStatus(read)]
      settled == [closed EXCEPT !.milestone[i] = SettledAs(read)]
  IN [settled EXCEPT !.status = StatusAfterDispute(settled)]

(* Mutant: the milestone the cancellation paid is voided like the others. *)
SyncCancelled_VoidsAll(rows) ==
  [rows EXCEPT !.status = "CANCELLED",
               !.milestone = [i \in Milestones |-> "VOIDED"]]

(* Mutant: cancelling closes the disputes in the client's favour.           *)
SyncCancelled_Resolves(rows) ==
  [rows EXCEPT
    !.status = "CANCELLED",
    !.milestone = [i \in Milestones |-> IF @[i] \in Settled THEN @[i] ELSE "VOIDED"],
    !.disputes = [i \in Milestones |->
       [d \in DOMAIN @[i] |-> [@[i][d] EXCEPT !.status = "RESOLVED_CLIENT_FAVOR"]]]]

SyncCancelled(rows) ==
  [rows EXCEPT
    !.status = "CANCELLED",
    !.milestone = [i \in Milestones |-> IF @[i] \in Settled THEN @[i] ELSE "VOIDED"]]

(* Mutant: the case of the release is missing.                              *)
ApplyEvent_NoRelease(rows, event) ==
  CASE event.name = "ProjectFunded" -> SyncFunded(rows, event.funded)
    [] event.name = "MilestoneSubmitted" ->
         SyncSubmitted(rows, event.milestone, event.uri)
    [] event.name = "MilestoneApproved" -> SyncApproved(rows, event.milestone)
    [] OTHER -> rows

ApplyEvent(rows, event) ==
  CASE event.name = "ProjectFunded" -> SyncFunded(rows, event.funded)
    [] event.name = "MilestoneSubmitted" ->
         SyncSubmitted(rows, event.milestone, event.uri)
    [] event.name = "MilestoneApproved" -> SyncApproved(rows, event.milestone)
    [] event.name = "MilestoneFundsReleased" -> SyncReleased(rows, event.milestone)
    [] event.name = "DisputeRaised" -> SyncDisputeRaised(rows, event.milestone)
    [] event.name = "DisputeEvidenceAppended" -> SyncEvidence(rows, event.milestone)
    [] event.name = "DisputeResolved" ->
         SyncDisputeResolved(rows, event.milestone, event.kind)
    [] event.name = "ProjectCancelled" -> SyncCancelled(rows)
    [] OTHER -> rows

-----------------------------------------------------------------------------
(* Services: what their transactions write, whatever has happened since the *)
(* reads that led there.                                                   *)

(* The milestones were read earlier in the transaction, without a lock.     *)
WriteFunding(rows, seen, amount) ==
  LET funded == FundedMilestones(seen, amount) IN
  [rows EXCEPT
    !.status = FundingStatus(amount),
    !.milestone = [i \in Milestones |->
                     IF funded[i] # seen[i] THEN funded[i] ELSE @[i]]]

(* The attempt number is unique per milestone.                             *)
AttemptIsFree(rows, i, attempt) == attempt = Len(rows.submissions[i]) + 1

WriteSubmission(rows, i, attempt) ==
  [rows EXCEPT
    !.milestone[i] = "SUBMITTED",
    !.submissions[i] = Append(@, [uri |-> attempt, status |-> "SUBMITTED"])]

(* Mutant: the review leaves the payment to event sync.                     *)
WriteApproval_OnlyApproves(rows, i, k) ==
  [rows EXCEPT !.milestone[i] = "APPROVED",
               !.submissions[i][k].status = "ACCEPTED"]

WriteApproval(rows, i, k) ==
  [rows EXCEPT !.milestone[i] = "RELEASED",
               !.submissions[i][k].status = "ACCEPTED"]

(* The status the review service gives the project afterwards. *)
StatusAfterReview(rows) ==
  IF AllIn(rows, {"RELEASED"}) THEN "COMPLETED" ELSE "ACTIVE"

(* related: the dispute names the delivery it is about.                    *)
WriteDispute(rows, i) ==
  [rows EXCEPT
    !.status = "DISPUTED",
    !.milestone[i] = "DISPUTED",
    !.disputes[i] = Append(@, [status |-> "OPEN", evidence |-> "files",
                               related |-> rows.submissions[i] # <<>>])]

(* Mutant: the delivery is accepted whatever was decided.                   *)
WriteResolution_Accepts(rows, i, d, kind) ==
  LET settled ==
        [rows EXCEPT
          !.disputes[i][d].status = ResolvedStatus(kind),
          !.milestone[i] = SettledAs(kind),
          !.submissions[i] = IF @ # <<>> THEN [@ EXCEPT ![Len(@)].status = "ACCEPTED"]
                             ELSE @]
  IN [settled EXCEPT !.status = StatusAfterDispute(settled)]

WriteResolution(rows, i, d, kind) ==
  LET settled ==
        [rows EXCEPT
          !.disputes[i][d].status = ResolvedStatus(kind),
          !.milestone[i] = SettledAs(kind),
          !.submissions[i] =
             IF rows.disputes[i][d].related
             THEN [@ EXCEPT ![Len(@)].status =
                     IF kind = "RefundToClient" THEN "REJECTED" ELSE "ACCEPTED"]
             ELSE @]
  IN [settled EXCEPT !.status = StatusAfterDispute(settled)]
=============================================================================
