------------------------- MODULE MilestoneWorkflow -------------------------
(***************************************************************************)
(* How one project on the chain and its rows in the database move          *)
(* together.  A page of the web app first sends a transaction and then     *)
(* reports it to a service, which writes the rows (a delivery is reported  *)
(* first and sent afterwards); event sync reads the events of the chain    *)
(* and writes the same rows.  No transaction spans chain and database, and *)
(* the two writers do not wait for each other.                             *)
(*                                                                         *)
(* The registry is its abstract lifecycle (EscrowLifecycle, implemented by *)
(* EscrowRegistry), with the events it emits.  Pauses, clocks, roles and   *)
(* recipients are left out.  Event sync applies an event in one step; a    *)
(* service takes one step per statement that can see another one's writes. *)
(***************************************************************************)
EXTENDS EscrowLifecycle, ProjectRows

CONSTANTS
  OpenPages,    \* pages somebody opens, of Pages
  Direct,       \* calls made without a page that reports them, of Calls
  Arbiters,     \* holders of the arbitrator role
  Threshold,    \* votes a decision takes
  MayLeave,     \* whether a page may be closed, or a call fail, half way
  MayReorg      \* whether the last transaction may be orphaned

Pages == {"submit", "approve", "dispute", "fund", "admin"}
Calls == {"fundProject", "submitMilestone", "approveMilestone", "releaseMilestone",
          "raiseDispute", "appendDisputeEvidence", "resolveDispute",
          "emergencyResolveDispute", "cancelProject"}

ASSUME WorkflowAssumption ==
  /\ MilestoneIndexes = Milestones
  /\ Agreements = {[count |-> MilestoneCount, cost |-> Cost]}
  /\ OpenPages \subseteq Pages /\ Direct \subseteq Calls
  /\ Threshold \in 1..Cardinality(Arbiters)
  /\ MayLeave \in BOOLEAN /\ MayReorg \in BOOLEAN

VARIABLES
  events,     \* what the registry has emitted
  votes,      \* <<arbitrator, amount>> of the open dispute
  applied,    \* how many of the events event sync has applied
  rows,       \* the database (ProjectRows)
  page,       \* [page]: what its handler does next, and with what
  undo        \* lifecycle and number of events before the last transaction

chainVars == <<lifecycleVars, events, votes, undo>>
workflowVars == <<chainVars, applied, rows, page>>

Closed == [at |-> "closed"]

(* The project has been created on the chain and bound to its rows.         *)
Init ==
  /\ stage = "Active" /\ agreement \in Agreements
  /\ funded = 0 /\ paid = 0 /\ refunded = 0
  /\ next = 0 /\ work = "Pending"
  /\ outcome = [i \in MilestoneIndexes |-> "Pending"]
  /\ events = <<>> /\ votes = {} /\ applied = 0 /\ undo = <<>>
  /\ rows = NewRows
  /\ page = [p \in Pages |-> Closed]

-----------------------------------------------------------------------------
(* Transactions.  A transaction whose guard fails when it is mined reverts: *)
(* nothing changes, and the page that sent it is told of a receipt all the  *)
(* same.                                                                    *)

Emit(new) ==
  /\ events' = events \o new
  /\ undo' = IF MayReorg THEN <<lifecycleVars, Len(events)>> ELSE <<>>

Event(name, i) == [name |-> name, milestone |-> i]
Payment(i) == [name |-> "MilestoneFundsReleased", milestone |-> i, amount |-> Price]

CanFund(amount) ==
  IsOpen /\ amount > 0 /\ funded + amount <= agreement.cost[agreement.count]
FundProject(amount) ==
  /\ CanFund(amount) /\ Deposit(amount)
  /\ Emit(<<[name |-> "ProjectFunded", amount |-> amount, funded |-> funded + amount]>>)
  /\ UNCHANGED votes

CanSubmit(i) == stage = "Active" /\ next = i /\ work = "Pending" /\ Held >= Price
SubmitMilestone(i, uri) ==
  /\ CanSubmit(i) /\ Deliver
  /\ Emit(<<[name |-> "MilestoneSubmitted", milestone |-> i, uri |-> uri]>>)
  /\ UNCHANGED votes

CanApprove(i) == stage = "Active" /\ next = i /\ work = "Submitted"
ApproveMilestone(i) ==
  /\ CanApprove(i) /\ Approve
  /\ Emit(<<Event("MilestoneApproved", i)>>)
  /\ UNCHANGED votes

CanRelease(i) == stage = "Active" /\ next = i /\ work = "Approved"
ReleaseMilestone(i) ==
  /\ CanRelease(i) /\ Release
  /\ Emit(<<Payment(i)>>)
  /\ UNCHANGED votes

(* The deadlines are behind.                                                *)
CanRaise(i) == stage = "Active" /\ next = i /\ Held >= Price
RaiseDispute(i) ==
  /\ CanRaise(i) /\ Contest
  /\ Emit(<<Event("DisputeRaised", i)>>)
  /\ UNCHANGED votes

IsDisputed(i) == stage = "Disputed" /\ next = i
AppendDisputeEvidence(i) ==
  /\ IsDisputed(i)
  /\ \A e \in DOMAIN events : events[e] # Event("DisputeEvidenceAppended", i)
  /\ Emit(<<Event("DisputeEvidenceAppended", i)>>)
  /\ UNCHANGED <<lifecycleVars, votes>>

Amounts == IF work = "Pending" THEN {0} ELSE {0, 1, Price}
KindOf(amount) ==
  CASE amount = 0     -> "RefundToClient"
    [] amount = Price -> "ReleaseToFreelancer"
    [] OTHER          -> "Split"

(* By a quorum, a timeout or the emergency path.                            *)
SettleDispute(i, amount) ==
  /\ IsDisputed(i) /\ Decide(amount)
  /\ Emit(<<[name |-> "DisputeResolved", milestone |-> i, kind |-> KindOf(amount),
             freelancerAmount |-> amount]>>)
  /\ votes' = {}

CanVote(i, a, amount) ==
  IsDisputed(i) /\ amount \in Amounts /\ <<a, amount>> \notin votes

ResolveDispute(i, a, amount) ==
  LET with == votes \cup {<<a, amount>>} IN
  /\ CanVote(i, a, amount)
  /\ IF Cardinality({v \in with : v[2] = amount}) >= Threshold
     THEN SettleDispute(i, amount)
     ELSE votes' = with /\ UNCHANGED <<lifecycleVars, events, undo>>

CancelProject ==
  /\ CallOff
  /\ Emit((IF work = "Submitted"
           THEN <<Payment(next)>> ELSE <<>>)
          \o <<[name |-> "ProjectCancelled"]>>)
  /\ votes' = {}

(* Calls that no page reports: panels that leave the rows to event sync,    *)
(* other tools, keepers.                                                    *)
DirectCall ==
  /\ \/ "fundProject" \in Direct /\ \E amount \in Deposits : FundProject(amount)
     \/ \E i \in Milestones :
          \/ "submitMilestone" \in Direct /\ SubmitMilestone(i, 0)
          \/ "approveMilestone" \in Direct /\ ApproveMilestone(i)
          \/ "releaseMilestone" \in Direct /\ ReleaseMilestone(i)
          \/ "raiseDispute" \in Direct /\ RaiseDispute(i)
          \/ "appendDisputeEvidence" \in Direct /\ AppendDisputeEvidence(i)
          \/ /\ "resolveDispute" \in Direct /\ IsDisputed(i)
             /\ \E a \in Arbiters, amount \in Amounts : ResolveDispute(i, a, amount)
          \/ /\ "emergencyResolveDispute" \in Direct /\ IsDisputed(i)
             /\ \E amount \in Amounts : SettleDispute(i, amount)
     \/ "cancelProject" \in Direct /\ CancelProject
  /\ UNCHANGED <<applied, rows, page>>

(* The last transaction goes with its block.  Event sync deletes the logs   *)
(* and rebuilds its projections, but not the rows.                          *)
Reorg ==
  /\ MayReorg /\ undo # <<>>
  /\ stage' = undo[1][1] /\ agreement' = undo[1][2]
  /\ funded' = undo[1][3] /\ paid' = undo[1][4] /\ refunded' = undo[1][5]
  /\ next' = undo[1][6] /\ work' = undo[1][7] /\ outcome' = undo[1][8]
  /\ events' = SubSeq(events, 1, undo[2])
  /\ applied' = IF applied > undo[2] THEN undo[2] ELSE applied
  /\ votes' = {} /\ undo' = <<>>
  /\ UNCHANGED <<rows, page>>

(* Event sync takes the next event.                                         *)
SyncEvent ==
  /\ applied < Len(events)
  /\ applied' = applied + 1
  /\ rows' = ApplyEvent(rows, events[applied + 1])
  /\ UNCHANGED <<chainVars, page>>

-----------------------------------------------------------------------------
(* What the pages allow, judging by the rows they have fetched.             *)

ContractStatus(status) ==
  CASE status \in {"SUBMITTED", "DISPUTED"} -> "Submitted"
    [] status = "APPROVED"                  -> "Approved"
    [] status = "RELEASED"                  -> "Released"
    [] status = "VOIDED"                    -> "Refunded"
    [] OTHER                                -> "Pending"

(* Shared by canSubmitMilestone, canApproveMilestone, canReleaseMilestone.  *)
IsWorkable(i) ==
  /\ rows.status \in {"ACTIVE", "DISPUTED"}
  /\ OpenDisputes(rows, i) = {}
  /\ \A j \in Milestones : j < i => rows.milestone[j] \in Settled

CanSubmitMilestone(i) ==
  IsWorkable(i) /\ ContractStatus(rows.milestone[i]) = "Pending"

CanApproveOrRelease(i) ==
  IsWorkable(i) /\ ContractStatus(rows.milestone[i]) \in {"Submitted", "Approved"}

CanRaiseDispute(i) == CanApproveOrRelease(i)

At(p, step) == page[p].at = step
Go(p, record) == page' = [page EXCEPT ![p] = record]
OnRows(p, record) == Go(p, record) /\ UNCHANGED <<chainVars, applied, rows>>
Refuse(p) == OnRows(p, Closed)

(* A page is told of a receipt whether the transaction could run or not.    *)
Mined(p, can, step, after) ==
  /\ IF can THEN step ELSE UNCHANGED chainVars
  /\ Go(p, after)
  /\ UNCHANGED <<applied, rows>>

(* The tab is closed, the wallet refuses, a call or an upload fails.        *)
Leave(p) == MayLeave /\ ~At(p, "closed") /\ Refuse(p)

-----------------------------------------------------------------------------
(* The submission page: the service uploads and writes the rows, then the   *)
(* freelancer signs the transaction.                                        *)

OpenSubmit ==
  /\ "submit" \in OpenPages /\ At("submit", "closed")
  /\ \E i \in Milestones :
       /\ CanSubmitMilestone(i)
       /\ OnRows("submit", [at |-> "read", milestone |-> i])

(* loadMilestoneSubmissionContext and its checks, before the upload.        *)
ReadSubmission ==
  LET i == page["submit"].milestone IN
  /\ At("submit", "read")
  /\ IF rows.status = "ACTIVE" /\ rows.milestone[i] = "FUNDED"
     THEN OnRows("submit", [at |-> "write", milestone |-> i,
                            attempt |-> Len(rows.submissions[i]) + 1])
     ELSE Refuse("submit")

StoreSubmission ==
  LET do == page["submit"] IN
  /\ At("submit", "write")
  /\ IF AttemptIsFree(rows, do.milestone, do.attempt)
     THEN /\ rows' = WriteSubmission(rows, do.milestone, do.attempt)
          /\ Go("submit", [do EXCEPT !.at = "sign"])
          /\ UNCHANGED <<chainVars, applied>>
     ELSE Refuse("submit")

(* A refused signature leaves the page here, with a button to retry.        *)
SignSubmission ==
  LET do == page["submit"] IN
  /\ At("submit", "sign")
  /\ Mined("submit", CanSubmit(do.milestone),
           SubmitMilestone(do.milestone, do.attempt), Closed)

SubmitPage == OpenSubmit \/ ReadSubmission \/ StoreSubmission \/ SignSubmission

-----------------------------------------------------------------------------
(* The approval panel: approve, look, release, report.                      *)

OpenApproval ==
  /\ "approve" \in OpenPages /\ At("approve", "closed")
  /\ \E i \in Milestones :
       /\ CanApproveOrRelease(i) /\ rows.submissions[i] # <<>>
       /\ \A j \in Milestones : j > i => rows.submissions[j] = <<>>
       /\ OnRows("approve", [at |-> "preflight", milestone |-> i,
                             submission |-> Len(rows.submissions[i])])

Advance(p, step) == OnRows(p, [page[p] EXCEPT !.at = step])

CheckApproval ==
  /\ At("approve", "preflight")
  /\ IF CanApprove(page["approve"].milestone)
     THEN Advance("approve", "approve") ELSE Refuse("approve")

SignApproval ==
  LET do == page["approve"] IN
  /\ At("approve", "approve")
  /\ Mined("approve", CanApprove(do.milestone), ApproveMilestone(do.milestone),
           [do EXCEPT !.at = "check"])

(* Mutant: the panel takes the approval for granted.                        *)
CheckRelease_Trusting == At("approve", "check") /\ Advance("approve", "report")

CheckRelease ==
  /\ At("approve", "check")
  /\ IF MilestoneStatus(page["approve"].milestone) = "Approved"
     THEN Advance("approve", "release") ELSE Refuse("approve")

SignRelease ==
  LET do == page["approve"] IN
  /\ At("approve", "release")
  /\ Mined("approve", CanRelease(do.milestone), ReleaseMilestone(do.milestone),
           [do EXCEPT !.at = "report"])

(* reconcileMilestoneApprovalAndPayout: a look at the submission, the       *)
(* transaction, the counts, and the project's status.                       *)
ReadReview ==
  LET do == page["approve"] IN
  /\ At("approve", "report")
  /\ IF rows.submissions[do.milestone][do.submission].status = "ACCEPTED"
     THEN Refuse("approve") ELSE Advance("approve", "write")

StoreReview ==
  LET do == page["approve"] IN
  /\ At("approve", "write")
  /\ rows' = WriteApproval(rows, do.milestone, do.submission)
  /\ Go("approve", [do EXCEPT !.at = "count"])
  /\ UNCHANGED <<chainVars, applied>>

CountReleased ==
  /\ At("approve", "count")
  /\ OnRows("approve", [at |-> "status", status |-> StatusAfterReview(rows)])

StoreReviewStatus ==
  /\ At("approve", "status")
  /\ rows' = [rows EXCEPT !.status = page["approve"].status]
  /\ Go("approve", Closed)
  /\ UNCHANGED <<chainVars, applied>>

ApprovalPanel ==
  \/ OpenApproval \/ CheckApproval \/ SignApproval \/ CheckRelease \/ SignRelease
  \/ ReadReview \/ StoreReview \/ CountReleased \/ StoreReviewStatus

-----------------------------------------------------------------------------
(* The dispute panel: raise, report with the evidence files.                *)

OpenDispute ==
  /\ "dispute" \in OpenPages /\ At("dispute", "closed")
  /\ \E i \in Milestones :
       /\ CanRaiseDispute(i)
       /\ OnRows("dispute", [at |-> "preflight", milestone |-> i])

CheckDispute ==
  LET i == page["dispute"].milestone IN
  /\ At("dispute", "preflight")
  /\ IF IsOpen /\ MilestoneStatus(i) \in {"Submitted", "Approved"} /\ ~IsDisputed(i)
     THEN Advance("dispute", "raise") ELSE Refuse("dispute")

SignDispute ==
  LET do == page["dispute"] IN
  /\ At("dispute", "raise")
  /\ Mined("dispute", CanRaise(do.milestone), RaiseDispute(do.milestone),
           [do EXCEPT !.at = "report"])

(* loadDisputeContext and its checks, before the upload.                    *)
ReadDispute ==
  LET i == page["dispute"].milestone IN
  /\ At("dispute", "report")
  /\ IF /\ rows.status \in {"ACTIVE", "DISPUTED"}
        /\ rows.milestone[i] \in {"SUBMITTED", "APPROVED"}
        /\ OpenDisputes(rows, i) = {}
     THEN Advance("dispute", "write") ELSE Refuse("dispute")

StoreDispute ==
  /\ At("dispute", "write")
  /\ rows' = WriteDispute(rows, page["dispute"].milestone)
  /\ Go("dispute", Closed)
  /\ UNCHANGED <<chainVars, applied>>

DisputePanel == OpenDispute \/ CheckDispute \/ SignDispute \/ ReadDispute \/ StoreDispute

-----------------------------------------------------------------------------
(* The funding panel: deposit, read the total, report it.                   *)

OpenFunding ==
  /\ "fund" \in OpenPages /\ At("fund", "closed")
  /\ stage = "Active"
  /\ \E amount \in Deposits :
       /\ CanFund(amount)
       /\ OnRows("fund", [at |-> "fund", amount |-> amount])

SignFunding ==
  LET amount == page["fund"].amount IN
  /\ At("fund", "fund")
  /\ Mined("fund", CanFund(amount), FundProject(amount), [at |-> "total"])

ReadFunded ==
  /\ At("fund", "total")
  /\ OnRows("fund", [at |-> "report", funded |-> funded])

ReadMilestones ==
  /\ At("fund", "report")
  /\ OnRows("fund", [at |-> "write", funded |-> page["fund"].funded,
                     seen |-> rows.milestone])

StoreFunding ==
  LET do == page["fund"] IN
  /\ At("fund", "write")
  /\ rows' = WriteFunding(rows, do.seen, do.funded)
  /\ Go("fund", Closed)
  /\ UNCHANGED <<chainVars, applied>>

FundingPanel == OpenFunding \/ SignFunding \/ ReadFunded \/ ReadMilestones \/ StoreFunding

-----------------------------------------------------------------------------
(* The dispute queue of an administrator who is an arbitrator.              *)

OpenResolution ==
  /\ "admin" \in OpenPages /\ At("admin", "closed")
  /\ \E i \in Milestones, a \in Arbiters :
     \E d \in OpenDisputes(rows, i), amount \in {0, 1, Cost[i + 1] - Cost[i]} :
       OnRows("admin", [at |-> "preflight", milestone |-> i, dispute |-> d,
                        arbiter |-> a, amount |-> amount])

(* Mutant: the decision is reported before it is signed.                    *)
CheckResolution_ReportsFirst == At("admin", "preflight") /\ Advance("admin", "report")

CheckResolution ==
  /\ At("admin", "preflight")
  /\ IF IsDisputed(page["admin"].milestone)
     THEN Advance("admin", "vote") ELSE Refuse("admin")

SignResolution ==
  LET do == page["admin"] IN
  /\ At("admin", "vote")
  /\ Mined("admin", CanVote(do.milestone, do.arbiter, do.amount),
           ResolveDispute(do.milestone, do.arbiter, do.amount),
           [do EXCEPT !.at = "report"])

(* resolveDisputeAsAdmin: a look at the dispute, then the transaction.      *)
ReadResolution ==
  LET do == page["admin"] IN
  /\ At("admin", "report")
  /\ IF rows.disputes[do.milestone][do.dispute].status = "OPEN"
     THEN Advance("admin", "write") ELSE Refuse("admin")

StoreResolution ==
  LET do == page["admin"] IN
  /\ At("admin", "write")
  /\ rows' = WriteResolution(rows, do.milestone, do.dispute,
       CASE do.amount = 0 -> "RefundToClient"
         [] do.amount = Cost[do.milestone + 1] - Cost[do.milestone] ->
              "ReleaseToFreelancer"
         [] OTHER -> "Split")
  /\ Go("admin", Closed)
  /\ UNCHANGED <<chainVars, applied>>

DisputeQueue ==
  \/ OpenResolution \/ CheckResolution \/ SignResolution
  \/ ReadResolution \/ StoreResolution

-----------------------------------------------------------------------------
PageStep == SubmitPage \/ ApprovalPanel \/ DisputePanel \/ FundingPanel \/ DisputeQueue

Next ==
  \/ DirectCall \/ Reorg \/ SyncEvent \/ PageStep
  \/ \E p \in Pages : Leave(p)

Spec == Init /\ [][Next]_workflowVars

(* Event sync keeps running, and a handler that has started goes on.        *)
Handle(p) == ~At(p, "closed") /\ PageStep /\ page'[p] # page[p]
FairSpec ==
  /\ Spec /\ WF_workflowVars(SyncEvent)
  /\ \A p \in Pages : WF_workflowVars(Handle(p))

(* And its user comes back for as long as the page lets them: one that can  *)
(* be opened, time and again, is, and gets through in the end.              *)
RetrySpec ==
  /\ Spec /\ WF_workflowVars(SyncEvent)
  /\ SF_workflowVars(OpenSubmit) /\ SF_workflowVars(OpenApproval)
  /\ SF_workflowVars(ReadSubmission) /\ SF_workflowVars(StoreSubmission)
  /\ SF_workflowVars(SignSubmission)
  /\ SF_workflowVars(CheckApproval) /\ SF_workflowVars(SignApproval)
  /\ SF_workflowVars(CheckRelease) /\ SF_workflowVars(SignRelease)

-----------------------------------------------------------------------------
(* What the rows of a project should say about the project on the chain.   *)

DisputeRow == [status: DisputeStatus, evidence: {"reason", "files", "appended"},
               related: BOOLEAN]

(* The rows only hold statuses the schema knows, and event sync never runs  *)
(* ahead of the chain.                                                      *)
TypeOK ==
  /\ applied \in 0..Len(events)
  /\ rows.status \in ProjectRowStatus
  /\ rows.milestone \in [Milestones -> MilestoneRowStatus]
  /\ \A i \in Milestones :
       /\ \A k \in DOMAIN rows.submissions[i] :
            rows.submissions[i][k].status \in SubmissionStatus
       /\ \A d \in DOMAIN rows.disputes[i] : rows.disputes[i][d] \in DisputeRow

AtRest == applied = Len(events) /\ \A p \in Pages : At(p, "closed")

(* What the row of a milestone should be, given the chain.                  *)
MirrorOf(i) ==
  IF IsDisputed(i) THEN "DISPUTED"
  ELSE CASE MilestoneStatus(i) = "Submitted"  -> "SUBMITTED"
         [] MilestoneStatus(i) = "Approved"   -> "APPROVED"
         [] MilestoneStatus(i) = "Released"   -> "RELEASED"
         [] MilestoneStatus(i) = "Refunded"   -> "VOIDED"
         [] OTHER -> IF funded >= Cost[i + 1] THEN "FUNDED" ELSE "PLANNED"

(* Once event sync has caught up and no page is half way, the row of every  *)
(* milestone says what the registry says of it, in whatever order events    *)
(* and reports have come in.                                                *)
MilestonesMirrorChain ==
  AtRest => \A i \in Milestones : rows.milestone[i] = MirrorOf(i)

(* What event sync alone makes of it: a decision, whatever it was, is shown *)
(* as one for the freelancer.                                               *)
IsDecided(i) ==
  \E e \in DOMAIN events : events[e].name = "DisputeResolved" /\ events[e].milestone = i
ShownOf(i) == IF IsDecided(i) THEN "RELEASED" ELSE MirrorOf(i)

(* Once event sync has caught up and no page is half way, the row of every  *)
(* milestone says what the registry says of it, but for the milestones that *)
(* arbitrators have decided: those are shown as paid out.                   *)
MilestonesAreShown ==
  AtRest => \A i \in Milestones : rows.milestone[i] = ShownOf(i)

(* And so does the row of the project; an escrow that is not covered in     *)
(* full may also be awaited.                                                *)
ProjectMirrorsChain ==
  AtRest =>
    CASE stage = "Disputed"  -> rows.status = "DISPUTED"
      [] stage = "Completed" -> rows.status = "COMPLETED"
      [] stage = "Cancelled" -> rows.status = "CANCELLED"
      [] OTHER -> \/ rows.status = "ACTIVE"
                  \/ rows.status = "AWAITING_ESCROW" /\ funded < TotalValue

(* Work is invited only for money that is in escrow: a milestone shown as   *)
(* funded is covered together with all the milestones before it.            *)
FundedMeansDeposited ==
  \A i \in Milestones : rows.milestone[i] = "FUNDED" => funded >= Cost[i + 1]

(* A milestone is shown as paid or returned only once the registry has paid *)
(* or returned it: no report runs ahead of its transaction.                 *)
NothingPaidAhead ==
  \A i \in Milestones : rows.milestone[i] \in Settled => i < next

(* A resolved dispute was decided, and the way its row says, or else in the *)
(* way event sync reads every decision: for the freelancer.                 *)
ResolvedMeansDecided ==
  \A i \in Milestones : \A d \in DOMAIN rows.disputes[i] :
    rows.disputes[i][d].status # "OPEN" =>
      \E e \in DOMAIN events :
        /\ events[e].name = "DisputeResolved" /\ events[e].milestone = i
        /\ rows.disputes[i][d].status \in
             {ResolvedStatus(events[e].kind), ResolvedStatus(KindAsRead(events[e].kind))}

(* The rows say of payouts, decisions and deposits nothing the registry has *)
(* not done.                                                                *)
NothingIsAhead == NothingPaidAhead /\ ResolvedMeansDecided /\ FundedMeansDeposited

(* A milestone has one open dispute at most.                                *)
OneOpenDispute == \A i \in Milestones : Cardinality(OpenDisputes(rows, i)) <= 1

(* Every delivery on the chain is one submission of the database, whether   *)
(* the service or event sync wrote it.                                      *)
OneRowPerDelivery ==
  \A i \in Milestones :
    \A k, l \in DOMAIN rows.submissions[i] :
      rows.submissions[i][k].uri = rows.submissions[i][l].uri => k = l

(* Accepted work is approved, or was decided for its freelancer.            *)
AcceptedMeansApproved ==
  \A i \in Milestones : \A k \in DOMAIN rows.submissions[i] :
    rows.submissions[i][k].status = "ACCEPTED" =>
      MilestoneStatus(i) \in {"Approved", "Released"}

(* RELEASED and VOIDED are final for a milestone.                           *)
SettledStays ==
  \A i \in Milestones :
    rows.milestone[i] \in Settled => rows.milestone'[i] = rows.milestone[i]

(* Event e of the log settles the milestone.                                *)
SettledBy(e, i) ==
  \/ /\ events[e].name \in {"MilestoneFundsReleased", "DisputeResolved"}
     /\ events[e].milestone = i
  \/ events[e].name = "ProjectCancelled"

(* Once event sync has applied the settlement of a milestone, its row stays *)
(* paid or returned, whatever older or later events and late reports write. *)
(* Before that a page may have reported the settlement already, and event   *)
(* sync, which is behind, takes the row back through every status.          *)
SettledRowsStay ==
  \A i \in Milestones :
    (\E e \in 1..applied : SettledBy(e, i)) => rows.milestone[i] \in Settled

(* A dispute the registry has closed is closed in the queue in the end.     *)
DisputesLeaveTheQueue ==
  stage \in {"Completed", "Cancelled"} ~> NoOpenDispute(rows)

(* What the registry has settled is shown so in the end, and from then on,  *)
(* although event sync may first take the row back through every status.    *)
SettlementArrives ==
  \A i \in Milestones : (i < next) ~> [](rows.milestone[i] = ShownOf(i))

(* A project that is complete on the chain is shown as complete in the end. *)
CompletionArrives == stage = "Completed" ~> rows.status = "COMPLETED"

(* A delivery the database has stored reaches the chain in the end.         *)
StoredDeliveryArrives ==
  \A i \in Milestones :
    (rows.submissions[i] # <<>>) ~> (MilestoneStatus(i) # "Pending")

(* Approved work is paid out in the end, if its client keeps trying.        *)
ApprovedIsPaid ==
  \A i \in Milestones :
    (MilestoneStatus(i) = "Approved") ~> (i < next)
=============================================================================
