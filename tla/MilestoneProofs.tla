--------------------------- MODULE MilestoneProofs ---------------------------
(***************************************************************************)
(* What MilestoneWorkflow and ReadModels promise, proved for every number  *)
(* of milestones and every price list, and for every choice of pages and   *)
(* calls the theorems' hypotheses leave.                                   *)
(*                                                                         *)
(* FundedStaysDeposited needs no more than types and true books (BaseInv). *)
(* RowsStayBehindChain adds what pages rely on between their look at the   *)
(* chain and their report (AheadInv).  SyncedProjectIsShown compares the   *)
(* rows with a replay of all events: ReplayInv says that the rows are the  *)
(* replay's, as far as event sync has come, and that the end of the replay *)
(* is what is shown of the chain.  FundedAmountIsShown has an invariant of *)
(* its own (TotalsInv) and assumes nothing.  SettledRowsAreFinal rests on  *)
(* the order of the log: no work on a milestone follows its settlement.    *)
(***************************************************************************)
EXTENDS ReadModels, FiniteSetTheorems, TLAPS

(* Types. *)
MilestoneRows  == [Milestones -> MilestoneRowStatus]
SubmissionRow  == [uri : Nat, status : SubmissionStatus]
Deliveries     == Seq(SubmissionRow)
SubmissionRows == [Milestones -> Deliveries]
Disputes       == Seq(DisputeRow)
DisputeRows    == [Milestones -> Disputes]
Rows == [status : ProjectRowStatus, milestone : MilestoneRows,
         submissions : SubmissionRows, disputes : DisputeRows]

FundedEvents    == [name : {"ProjectFunded"}, amount : Nat, funded : Nat]
SubmittedEvents == [name : {"MilestoneSubmitted"}, milestone : Milestones, uri : Nat]
WorkEvents      == [name : {"MilestoneApproved", "DisputeRaised", "DisputeEvidenceAppended"},
                    milestone : Milestones]
PaymentEvents   == [name : {"MilestoneFundsReleased"}, milestone : Milestones, amount : Nat]
DecisionEvents  == [name : {"DisputeResolved"}, milestone : Milestones,
                    kind : ResolutionKind, freelancerAmount : Nat]
CancelEvents    == [name : {"ProjectCancelled"}]
ChainEvents ==
  UNION {FundedEvents, SubmittedEvents, WorkEvents, PaymentEvents, DecisionEvents, CancelEvents}

SubmitForms ==
  {Closed} \cup [at : {"read"}, milestone : Milestones]
           \cup [at : {"write", "sign"}, milestone : Milestones, attempt : Nat]
ApprovalForms ==
  {Closed} \cup [at : {"preflight", "approve", "check", "release", "report", "write", "count"},
                 milestone : Milestones, submission : Nat]
           \cup [at : {"status"}, status : ProjectRowStatus]
DisputeForms ==
  {Closed} \cup [at : {"preflight", "raise", "report", "write"}, milestone : Milestones]
FundForms ==
  {Closed} \cup [at : {"fund"}, amount : Deposits] \cup [at : {"total"}]
           \cup [at : {"report"}, funded : Nat]
           \cup [at : {"write"}, funded : Nat, seen : MilestoneRows]
AdminForms ==
  {Closed} \cup [at : {"preflight", "vote", "report", "write"}, milestone : Milestones,
                 dispute : Nat, arbiter : Arbiters, amount : Nat]
Forms == UNION {SubmitForms, ApprovalForms, DisputeForms, FundForms, AdminForms}

(* A page holds a form of its own, with what its handler goes on with.      *)
PagesTyped ==
  /\ page \in [Pages -> Forms]
  /\ page["submit"] \in SubmitForms /\ page["approve"] \in ApprovalForms
  /\ page["dispute"] \in DisputeForms /\ page["fund"] \in FundForms
  /\ page["admin"] \in AdminForms

(* The chain. *)
ChainOK ==
  /\ stage \in {"Active", "Disputed", "Completed", "Cancelled"}
  /\ agreement = [count |-> MilestoneCount, cost |-> Cost]
  /\ funded \in Nat /\ paid \in Nat /\ refunded \in Nat
  /\ next \in 0..MilestoneCount
  /\ work \in {"Pending", "Submitted", "Approved"}
  /\ outcome \in [Milestones -> {"Pending", "Released", "Refunded"}]
  /\ IsOpen <=> next # MilestoneCount
  /\ ~IsOpen => work = "Pending"
  /\ IsOpen => paid + refunded = Cost[next]
  /\ work # "Pending" \/ stage = "Disputed" => funded >= Cost[next + 1]
  /\ \A i \in Milestones : i < next => outcome[i] # "Pending"

(* What an event says holds of a chain with so much funded and settled. *)
EventTrue(e, total, settled) ==
  /\ e.name = "ProjectFunded" => e.funded <= total
  /\ e.name \in {"MilestoneFundsReleased", "DisputeResolved"} => e.milestone < settled
  /\ e.name = "ProjectCancelled" => settled = MilestoneCount

(* What every event emitted so far says is still so.                        *)
EventsTrue ==
  /\ events \in Seq(ChainEvents)
  /\ \A n \in 1..Len(events) : EventTrue(events[n], funded, next)

(* The total the funding panel has read is not more than the total is now.  *)
FundSound(f, total) == f.at \in {"report", "write"} => f.funded <= total

(* Without orphaned transactions this much holds at every step, whichever   *)
(* pages are open: rows and forms are of their types, the chain keeps its   *)
(* books, its events are true, and no milestone is shown as funded that is  *)
(* not covered.                                                             *)
BaseInv ==
  /\ rows \in Rows /\ ChainOK /\ EventsTrue /\ applied \in 0..Len(events)
  /\ PagesTyped /\ FundSound(page["fund"], funded)
  /\ FundedMeansDeposited

(* What every transaction does. *)
Grows ==
  /\ funded <= funded' /\ next <= next'
  /\ next' = next => /\ work # "Pending" => work' # "Pending"
                     /\ work = "Approved" => work' = "Approved"
  /\ Len(events) <= Len(events')
  /\ \A n \in 1..Len(events) : events'[n] = events[n]

(* Totals and pointer only grow, and so does the list of events.            *)
Moved == ChainOK' /\ EventsTrue' /\ Grows

(* What the queue reports of an amount.                                      *)
KindChosen(do) ==
  CASE do.amount = 0 -> "RefundToClient"
    [] do.amount = Cost[do.milestone + 1] - Cost[do.milestone] -> "ReleaseToFreelancer"
    [] OTHER -> "Split"

-----------------------------------------------------------------------------

(* What the assumptions say of the constants, in the form the proofs use.   *)
LEMMA MilestoneConstants ==
  /\ MilestoneCount \in Nat /\ MilestoneCount > 0
  /\ Cost \in [0..MilestoneCount -> Nat] /\ Cost[0] = 0
  /\ \A i \in Milestones : Cost[i] \in Nat /\ Cost[i + 1] \in Nat /\ Cost[i] < Cost[i + 1]
  /\ MilestoneIndexes = Milestones
  /\ Agreements = {[count |-> MilestoneCount, cost |-> Cost]}
  /\ Deposits \subseteq Nat
  /\ Threshold \in Nat /\ Threshold >= 1
  /\ MayReorg \in BOOLEAN /\ OpenPages \subseteq Pages
<1>1. \A i \in Milestones : i \in 0..MilestoneCount /\ i + 1 \in 0..MilestoneCount
  BY RowsAssumption DEF Milestones
<1>2. Threshold \in Nat /\ Threshold >= 1
  BY WorkflowAssumption
<1> QED  BY <1>1, <1>2, RowsAssumption, WorkflowAssumption, LifecycleAssumption DEF Milestones

-----------------------------------------------------------------------------
(* What one transaction of the database does to the rows.                  *)

(* A covered milestone that was planned is funded; escrow that is covered   *)
(* in full makes the project active.                                        *)
AfterFunded(r, s, amount) ==
  /\ s \in Rows
  /\ s.milestone = FundedMilestones(r.milestone, amount)
  /\ s.submissions = r.submissions /\ s.disputes = r.disputes
  /\ s.status = IF r.status \in {"COMPLETED", "CANCELLED", "DISPUTED"} THEN r.status
                ELSE FundingStatus(amount)

(* The milestone is up for review.                                          *)
AfterSubmitted(r, s, i) ==
  /\ s \in Rows
  /\ \A j \in Milestones :
       s.milestone[j] = IF j = i THEN "SUBMITTED" ELSE r.milestone[j]
  /\ s.disputes = r.disputes /\ s.status = "ACTIVE"

(* The milestone is approved.                                               *)
AfterApproved(r, s, i) ==
  /\ s \in Rows
  /\ \A j \in Milestones :
       s.milestone[j] = IF j = i THEN "APPROVED" ELSE r.milestone[j]
  /\ s.disputes = r.disputes /\ s.status = r.status

(* The milestone is paid; the last one completes the project.               *)
AfterReleased(r, s, i) ==
  /\ s \in Rows
  /\ \A j \in Milestones :
       s.milestone[j] = IF j = i THEN "RELEASED" ELSE r.milestone[j]
  /\ s.submissions = r.submissions /\ s.disputes = r.disputes
  /\ s.status = IF \A j \in Milestones : s.milestone[j] \in Settled
                THEN "COMPLETED" ELSE "ACTIVE"

(* Project and milestone are disputed, and the milestone has an open        *)
(* dispute.                                                                 *)
AfterDisputeRaised(r, s, i) ==
  /\ s \in Rows
  /\ \A j \in Milestones :
       s.milestone[j] = IF j = i THEN "DISPUTED" ELSE r.milestone[j]
  /\ s.status = "DISPUTED"
  /\ s.disputes =
       IF OpenDisputes(r, i) # {} THEN r.disputes
       ELSE [r.disputes EXCEPT ![i] =
               Append(@, [status |-> "OPEN", evidence |-> "reason", related |-> FALSE])]

(* Only evidence of a dispute changes.                                      *)
AfterEvidence(r, s) ==
  /\ s \in Rows
  /\ s.milestone = r.milestone /\ s.status = r.status
  /\ s.submissions = r.submissions
  /\ \A j \in Milestones :
       /\ DOMAIN s.disputes[j] = DOMAIN r.disputes[j]
       /\ \A d \in DOMAIN r.disputes[j] :
            s.disputes[j][d].status = r.disputes[j][d].status

(* The latest open dispute of the milestone is closed with a decision of     *)
(* this kind, and it is settled.                                            *)
AfterDisputeResolved(r, s, i, kind) ==
  /\ s \in Rows
  /\ \A j \in Milestones :
       s.milestone[j] = IF j = i THEN SettledAs(kind) ELSE r.milestone[j]
  /\ s.submissions = r.submissions
  /\ s.status = StatusAfterDispute(s)
  /\ \A j \in Milestones :
       /\ DOMAIN s.disputes[j] = DOMAIN r.disputes[j]
       /\ \A c \in DOMAIN r.disputes[j] :
            s.disputes[j][c].status =
              IF j = i /\ OpenDisputes(r, i) # {} /\ c = LatestOpen(r, i)
              THEN ResolvedStatus(kind) ELSE r.disputes[j][c].status

(* What is not paid is voided.                                              *)
AfterCancelled(r, s) ==
  /\ s \in Rows
  /\ \A i \in Milestones :
       s.milestone[i] = IF r.milestone[i] \in Settled THEN r.milestone[i] ELSE "VOIDED"
  /\ s.submissions = r.submissions /\ s.disputes = r.disputes
  /\ s.status = "CANCELLED"

(* What reconcileProjectFunding writes of the total it is told.             *)
AfterFundingReport(r, s, amount) ==
  /\ s \in Rows /\ s.disputes = r.disputes /\ s.submissions = r.submissions
  /\ \A i \in Milestones :
       \/ s.milestone[i] = r.milestone[i]
       \/ s.milestone[i] = "FUNDED" /\ amount >= Cost[i + 1]

(* What the report of a delivery writes.                                    *)
AfterDelivery(r, s, i) ==
  /\ s \in Rows /\ s.disputes = r.disputes
  /\ \A j \in Milestones :
       s.milestone[j] = IF j = i THEN "SUBMITTED" ELSE r.milestone[j]

(* What reconcileMilestoneApprovalAndPayout writes.                         *)
AfterReview(r, s, i) ==
  /\ s \in Rows /\ s.disputes = r.disputes
  /\ \A j \in Milestones :
       s.milestone[j] = IF j = i THEN "RELEASED" ELSE r.milestone[j]

(* What the report of a dispute writes.                                     *)
AfterDispute(r, s, i) ==
  /\ s \in Rows
  /\ \A j \in Milestones :
       s.milestone[j] = IF j = i THEN "DISPUTED" ELSE r.milestone[j]
  /\ \A j \in Milestones : \A d \in DOMAIN s.disputes[j] :
       s.disputes[j][d].status # "OPEN" =>
         d \in DOMAIN r.disputes[j] /\ s.disputes[j][d] = r.disputes[j][d]

(* What resolveDisputeAsAdmin writes of one dispute.                        *)
AfterResolution(r, s, i, d, kind) ==
  /\ s \in Rows
  /\ \A j \in Milestones :
       s.milestone[j] = IF j = i THEN SettledAs(kind) ELSE r.milestone[j]
  /\ \A j \in Milestones :
       /\ DOMAIN s.disputes[j] = DOMAIN r.disputes[j]
       /\ \A c \in DOMAIN r.disputes[j] :
            s.disputes[j][c].status =
              IF j = i /\ c = d THEN ResolvedStatus(kind)
              ELSE r.disputes[j][c].status

(* A milestone is settled, with the submissions and disputes it has then.   *)
AfterSettling(r, s, i, p, settledAs, q) ==
  /\ s \in Rows
  /\ \A j \in Milestones :
       s.milestone[j] = IF j = i THEN settledAs ELSE r.milestone[j]
  /\ s.submissions = [r.submissions EXCEPT ![i] = q]
  /\ s.disputes = [r.disputes EXCEPT ![i] = p]
  /\ s.status = r.status

(* One dispute is closed with a status, the others stay.                    *)
AfterClosing(p, q, d, status) ==
  /\ p \in Disputes /\ DOMAIN p = DOMAIN q
  /\ \A c \in DOMAIN q : p[c].status = IF c = d THEN status ELSE q[c].status

(* Disputes keep their status.                                              *)
AfterAppending(p, q) ==
  /\ p \in Disputes /\ DOMAIN p = DOMAIN q
  /\ \A c \in DOMAIN q : p[c].status = q[c].status

(* A funded milestone was funded before or is covered by the amount.        *)
LEMMA FundedMilestonesRow ==
  ASSUME NEW m \in MilestoneRows, NEW amount \in Nat
  PROVE  /\ FundedMilestones(m, amount) \in MilestoneRows
         /\ \A i \in Milestones :
              FundedMilestones(m, amount)[i] =
                IF m[i] = "PLANNED" /\ amount >= Cost[i + 1] THEN "FUNDED" ELSE m[i]
BY DEF FundedMilestones, MilestoneRows, MilestoneRowStatus

(* ProjectFunded                                                            *)
LEMMA SyncFundedRow ==
  ASSUME NEW r \in Rows, NEW amount \in Nat, NEW s, s = SyncFunded(r, amount)
  PROVE  AfterFunded(r, s, amount)
<1>1. FundedMilestones(r.milestone, amount) \in MilestoneRows
  BY FundedMilestonesRow DEF Rows
<1>2. FundingStatus(amount) \in ProjectRowStatus
  BY DEF FundingStatus, ProjectRowStatus
<1> QED  BY <1>1, <1>2 DEF SyncFunded, Rows, AfterFunded

(* MilestoneSubmitted                                                       *)
LEMMA SyncSubmittedRow ==
  ASSUME NEW r \in Rows, NEW i \in Milestones, NEW uri \in Nat, NEW s,
         s = SyncSubmitted(r, i, uri)
  PROVE  AfterSubmitted(r, s, i)
<1>1. Append(r.submissions[i], [uri |-> uri, status |-> "SUBMITTED"]) \in Deliveries
  BY DEF Rows, SubmissionRows, Deliveries, SubmissionRow, SubmissionStatus
<1> QED  BY <1>1 DEF SyncSubmitted, Rows, SubmissionRows, MilestoneRows,
             MilestoneRowStatus, ProjectRowStatus, AfterSubmitted

(* The status of a delivery changes. *)
LEMMA DeliveryRow ==
  ASSUME NEW q \in Deliveries, NEW k, NEW status \in SubmissionStatus
  PROVE  [q EXCEPT ![k].status = status] \in Deliveries
<1> DEFINE s == [q EXCEPT ![k].status = status]
<1>1. q \in [1..Len(q) -> SubmissionRow] /\ Len(q) \in Nat
  BY DEF Deliveries
<1>2. ASSUME NEW row \in SubmissionRow
      PROVE  [row EXCEPT !.status = status] \in SubmissionRow
  BY DEF SubmissionRow
<1>3. s \in [1..Len(q) -> SubmissionRow]
  BY <1>1, <1>2
<1> QED  BY <1>1, <1>3 DEF Deliveries

(* MilestoneApproved                                                        *)
LEMMA SyncApprovedRow ==
  ASSUME NEW r \in Rows, NEW i \in Milestones, NEW s, s = SyncApproved(r, i)
  PROVE  AfterApproved(r, s, i)
<1>1. [r.submissions[i] EXCEPT ![Len(r.submissions[i])].status = "ACCEPTED"] \in Deliveries
  BY DeliveryRow DEF Rows, SubmissionRows, SubmissionStatus
<1> QED  BY <1>1 DEF SyncApproved, Rows, SubmissionRows, MilestoneRows, MilestoneRowStatus, AfterApproved

(* MilestoneFundsReleased                                                   *)
LEMMA SyncReleasedRow ==
  ASSUME NEW r \in Rows, NEW i \in Milestones, NEW s, s = SyncReleased(r, i)
  PROVE  AfterReleased(r, s, i)
BY DEF SyncReleased, AllIn, Rows, MilestoneRows, MilestoneRowStatus, ProjectRowStatus, AfterReleased

(* DisputeRaised                                                            *)
LEMMA SyncDisputeRaisedRow ==
  ASSUME NEW r \in Rows, NEW i \in Milestones, NEW s, s = SyncDisputeRaised(r, i)
  PROVE  AfterDisputeRaised(r, s, i)
<1>1. Append(r.disputes[i], [status |-> "OPEN", evidence |-> "reason", related |-> FALSE])
        \in Disputes
  BY DEF Rows, DisputeRows, Disputes, DisputeRow, DisputeStatus
<1> QED  BY <1>1 DEF SyncDisputeRaised, Rows, DisputeRows, MilestoneRows,
             MilestoneRowStatus, ProjectRowStatus, AfterDisputeRaised

(* A dispute gets a status; a milestone is settled with its rows. *)
WithStatus(q, d, status) == [q EXCEPT ![d].status = status]
WithEvidence(q, d) == [q EXCEPT ![d].evidence = "appended"]
SettledRow(r, i, p, settledAs, q) ==
  [r EXCEPT !.disputes = [@ EXCEPT ![i] = p],
            !.milestone = [@ EXCEPT ![i] = settledAs],
            !.submissions = [@ EXCEPT ![i] = q]]

(* A status and a row of another milestone keep a dispute a dispute.        *)
LEMMA DisputeRowKeeps ==
  ASSUME NEW q \in Disputes, NEW d, NEW status \in DisputeStatus,
         NEW p, p = WithStatus(q, d, status)
  PROVE  AfterClosing(p, q, d, status)
<1>1. q \in [1..Len(q) -> DisputeRow] /\ Len(q) \in Nat
  BY DEF Disputes
<1>2. \A row \in DisputeRow : [row EXCEPT !.status = status] \in DisputeRow
  BY DEF DisputeRow
<1>3. p \in [1..Len(q) -> DisputeRow]
  BY <1>1, <1>2 DEF WithStatus
<1>4. ASSUME NEW c \in DOMAIN q
      PROVE  p[c].status = IF c = d THEN status ELSE q[c].status
  BY <1>1 DEF DisputeRow, WithStatus
<1> QED  BY <1>1, <1>3, <1>4 DEF Disputes, AfterClosing

(* Evidence is appended without closing or opening a dispute.               *)
LEMMA EvidenceKeeps ==
  ASSUME NEW q \in Disputes, NEW d, NEW p, p = WithEvidence(q, d)
  PROVE  AfterAppending(p, q)
<1>1. q \in [1..Len(q) -> DisputeRow] /\ Len(q) \in Nat
  BY DEF Disputes
<1>2. \A row \in DisputeRow : [row EXCEPT !.evidence = "appended"] \in DisputeRow
  BY DEF DisputeRow
<1>3. p \in [1..Len(q) -> DisputeRow]
  BY <1>1, <1>2 DEF WithEvidence
<1>4. ASSUME NEW c \in DOMAIN q
      PROVE  p[c].status = q[c].status
  BY <1>1 DEF DisputeRow, WithEvidence
<1> QED  BY <1>1, <1>3, <1>4 DEF Disputes, AfterAppending

(* Each kind of decision has a status of its own, which is not OPEN.        *)
LEMMA ResolvedStatusIsStatus ==
  ASSUME NEW kind
  PROVE  ResolvedStatus(kind) \in DisputeStatus /\ ResolvedStatus(kind) # "OPEN"
BY DEF ResolvedStatus, DisputeStatus

(* A decision pays or voids the milestone.                                  *)
LEMMA SettledAsIsSettled ==
  ASSUME NEW kind PROVE SettledAs(kind) \in {"RELEASED", "VOIDED"}
BY DEF SettledAs

(* DisputeEvidenceAppended                                                  *)
LEMMA SyncEvidenceRow ==
  ASSUME NEW r \in Rows, NEW i \in Milestones, NEW s, s = SyncEvidence(r, i)
  PROVE  AfterEvidence(r, s)
<1>1. CASE OpenDisputes(r, i) = {}
  BY <1>1 DEF SyncEvidence, AfterEvidence
<1>2. CASE OpenDisputes(r, i) # {}
  <2> DEFINE d == LatestOpen(r, i)
             q == WithEvidence(r.disputes[i], d)
  <2>1. s = [r EXCEPT !.disputes[i] = q]
    BY <1>2 DEF SyncEvidence, Rows, DisputeRows, WithEvidence
  <2>2. r.disputes \in DisputeRows /\ r.disputes[i] \in Disputes
    BY DEF Rows, DisputeRows
  <2>3. q = WithEvidence(r.disputes[i], d)
    OBVIOUS
  <2> HIDE DEF q, d
  <2>4. AfterAppending(q, r.disputes[i])
    BY <2>2, <2>3, EvidenceKeeps
  <2>5. s.disputes = [r.disputes EXCEPT ![i] = q] /\ s.disputes \in DisputeRows
    BY <2>1, <2>2, <2>4 DEF Rows, DisputeRows, AfterAppending
  <2>6. s.milestone = r.milestone /\ s.status = r.status /\ s.submissions = r.submissions
    BY <2>1 DEF Rows
  <2>7. s \in Rows
    BY <2>1, <2>5 DEF Rows
  <2> QED  BY <2>2, <2>4, <2>5, <2>6, <2>7 DEF DisputeRows, AfterAppending, AfterEvidence
<1> QED  BY <1>1, <1>2 DEF AfterEvidence

(* A dispute of a milestone gets a status, and the milestone is settled.   *)
LEMMA ResolvedRow ==
  ASSUME NEW r \in Rows, NEW i \in Milestones, NEW p \in Disputes,
         NEW settledAs \in {"RELEASED", "VOIDED"},
         NEW q \in Deliveries, NEW s, s = SettledRow(r, i, p, settledAs, q)
  PROVE  AfterSettling(r, s, i, p, settledAs, q)
<1>1. [r.disputes EXCEPT ![i] = p] \in DisputeRows
  BY DEF Rows, DisputeRows
<1>2. [r.milestone EXCEPT ![i] = settledAs] \in MilestoneRows
  BY DEF Rows, MilestoneRows, MilestoneRowStatus
<1>3. [r.submissions EXCEPT ![i] = q] \in SubmissionRows
  BY DEF Rows, SubmissionRows
<1> QED  BY <1>1, <1>2, <1>3 DEF Rows, MilestoneRows, SettledRow, AfterSettling

(* A dispute closed by a decision is not open any more.                     *)
LEMMA ClosedDispute ==
  ASSUME NEW r \in Rows, NEW i \in Milestones, NEW d, NEW kind, NEW p,
         p = WithStatus(r.disputes[i], d, ResolvedStatus(kind))
  PROVE  AfterClosing(p, r.disputes[i], d, ResolvedStatus(kind))
<1>1. r.disputes[i] \in Disputes
  BY DEF Rows, DisputeRows
<1> QED  BY <1>1, ResolvedStatusIsStatus, DisputeRowKeeps

(* The project is completed, or active again.                               *)
LEMMA StatusAfterDisputeRow ==
  ASSUME NEW r \in Rows
  PROVE  /\ StatusAfterDispute(r) \in ProjectRowStatus
         /\ [r EXCEPT !.status = StatusAfterDispute(r)] \in Rows
BY DEF StatusAfterDispute, ProjectRowStatus, Rows

(* DisputeResolved                                                          *)
LEMMA SyncDisputeResolvedRow ==
  ASSUME NEW r \in Rows, NEW i \in Milestones, NEW decided, NEW s,
         s = SyncDisputeResolved(r, i, decided), NEW kind, kind = KindAsRead(decided)
  PROVE  AfterDisputeResolved(r, s, i, kind)
<1> DEFINE closed == IF OpenDisputes(r, i) = {} THEN r
                     ELSE [r EXCEPT !.disputes[i][LatestOpen(r, i)].status = ResolvedStatus(kind)]
           settled == [closed EXCEPT !.milestone[i] = SettledAs(kind)]
<1>1. s = [settled EXCEPT !.status = StatusAfterDispute(settled)]
  BY DEF SyncDisputeResolved
<1>2. /\ settled \in Rows
      /\ settled.milestone = [r.milestone EXCEPT ![i] = SettledAs(kind)]
      /\ settled.submissions = r.submissions
      /\ \A j \in Milestones :
           /\ DOMAIN settled.disputes[j] = DOMAIN r.disputes[j]
           /\ \A c \in DOMAIN r.disputes[j] :
                settled.disputes[j][c].status =
                  IF j = i /\ OpenDisputes(r, i) # {} /\ c = LatestOpen(r, i)
                  THEN ResolvedStatus(kind) ELSE r.disputes[j][c].status
  <2>1. CASE OpenDisputes(r, i) = {}
    BY <2>1, SettledAsIsSettled DEF Rows, MilestoneRows, MilestoneRowStatus
  <2>2. CASE OpenDisputes(r, i) # {}
    <3> DEFINE d == LatestOpen(r, i)
               p == WithStatus(r.disputes[i], d, ResolvedStatus(kind))
               q == r.submissions[i]
               settledAs == SettledAs(kind)
    <3>1. q \in Deliveries /\ [r.submissions EXCEPT ![i] = q] = r.submissions
      BY DEF Rows, SubmissionRows
    <3>2. settled = SettledRow(r, i, p, settledAs, q)
      BY <2>2 DEF Rows, DisputeRows, SubmissionRows, SettledRow, WithStatus
    <3>3. settledAs \in {"RELEASED", "VOIDED"}
      BY SettledAsIsSettled
    <3>4. p = WithStatus(r.disputes[i], d, ResolvedStatus(kind))
      OBVIOUS
    <3> HIDE DEF d, p, q, settledAs, settled
    <3>5. AfterClosing(p, r.disputes[i], d, ResolvedStatus(kind))
      BY <3>4, ClosedDispute
    <3>6. p \in Disputes
      BY <3>5 DEF AfterClosing
    <3>7. AfterSettling(r, settled, i, p, settledAs, q)
      BY <3>1, <3>2, <3>3, <3>6, ResolvedRow
    <3> QED  BY <2>2, <3>1, <3>5, <3>7
             DEF AfterClosing, AfterSettling, d, settledAs, Rows, DisputeRows, MilestoneRows
  <2> QED  BY <2>1, <2>2
<1> HIDE DEF settled
<1>3. s \in Rows
  BY <1>1, <1>2, StatusAfterDisputeRow
<1>4. /\ s.milestone = settled.milestone /\ s.disputes = settled.disputes
      /\ s.submissions = settled.submissions
      /\ s.status = StatusAfterDispute(settled)
  BY <1>1, <1>2 DEF Rows
<1>5. StatusAfterDispute(s) = StatusAfterDispute(settled)
  BY <1>4 DEF StatusAfterDispute, NoOpenDispute, OpenDisputes, AllIn
<1> QED  BY <1>2, <1>3, <1>4, <1>5 DEF AfterDisputeResolved, Rows, MilestoneRows

(* ProjectCancelled                                                         *)
LEMMA SyncCancelledRow ==
  ASSUME NEW r \in Rows, NEW s, s = SyncCancelled(r)
  PROVE  AfterCancelled(r, s)
BY DEF SyncCancelled, Rows, MilestoneRows, MilestoneRowStatus, ProjectRowStatus, AfterCancelled

(* The funding panel reports.                                               *)
LEMMA WriteFundingRow ==
  ASSUME NEW r \in Rows, NEW seen \in MilestoneRows, NEW amount \in Nat, NEW s,
         s = WriteFunding(r, seen, amount)
  PROVE  AfterFundingReport(r, s, amount)
<1>1. /\ FundedMilestones(seen, amount) \in MilestoneRows
      /\ \A i \in Milestones :
           FundedMilestones(seen, amount)[i] =
             IF seen[i] = "PLANNED" /\ amount >= Cost[i + 1] THEN "FUNDED" ELSE seen[i]
  BY FundedMilestonesRow
<1>2. FundingStatus(amount) \in ProjectRowStatus
  BY DEF FundingStatus, ProjectRowStatus
<1> QED  BY <1>1, <1>2 DEF WriteFunding, Rows, MilestoneRows, AfterFundingReport

(* The submission page reports.                                             *)
LEMMA WriteSubmissionRow ==
  ASSUME NEW r \in Rows, NEW i \in Milestones, NEW attempt \in Nat, NEW s,
         s = WriteSubmission(r, i, attempt)
  PROVE  AfterDelivery(r, s, i)
<1>1. Append(r.submissions[i], [uri |-> attempt, status |-> "SUBMITTED"]) \in Deliveries
  BY DEF Rows, SubmissionRows, Deliveries, SubmissionRow, SubmissionStatus
<1> QED  BY <1>1 DEF WriteSubmission, Rows, SubmissionRows, MilestoneRows, MilestoneRowStatus, AfterDelivery

(* The approval panel reports.                                              *)
LEMMA WriteApprovalRow ==
  ASSUME NEW r \in Rows, NEW i \in Milestones, NEW k, NEW s, s = WriteApproval(r, i, k)
  PROVE  AfterReview(r, s, i)
<1>1. [r.submissions[i] EXCEPT ![k].status = "ACCEPTED"] \in Deliveries
  BY DeliveryRow DEF Rows, SubmissionRows, SubmissionStatus
<1> QED  BY <1>1 DEF WriteApproval, Rows, SubmissionRows, MilestoneRows, MilestoneRowStatus, AfterReview

(* The dispute panel reports.                                               *)
LEMMA WriteDisputeRow ==
  ASSUME NEW r \in Rows, NEW i \in Milestones, NEW s, s = WriteDispute(r, i)
  PROVE  AfterDispute(r, s, i)
<1> DEFINE new == [status |-> "OPEN", evidence |-> "files", related |-> r.submissions[i] # <<>>]
<1>1. new \in DisputeRow
  BY DEF DisputeRow, DisputeStatus
<1>2. r.disputes[i] \in Disputes /\ r.disputes \in DisputeRows
  BY DEF Rows, DisputeRows
<1>3. /\ s.disputes = [r.disputes EXCEPT ![i] = Append(r.disputes[i], new)]
      /\ s = [r EXCEPT !.status = "DISPUTED", !.milestone = [@ EXCEPT ![i] = "DISPUTED"],
                       !.disputes = [@ EXCEPT ![i] = Append(r.disputes[i], new)]]
  BY DEF WriteDispute, Rows
<1>4. new.status = "OPEN"
  OBVIOUS
<1> HIDE DEF new
<1>5. /\ Append(r.disputes[i], new) \in Disputes
      /\ \A d \in DOMAIN Append(r.disputes[i], new) :
           \/ d \in DOMAIN r.disputes[i] /\ Append(r.disputes[i], new)[d] = r.disputes[i][d]
           \/ Append(r.disputes[i], new)[d] = new
  BY <1>1, <1>2 DEF Disputes
<1>6. s \in Rows /\ s.milestone = [r.milestone EXCEPT ![i] = "DISPUTED"]
  <2> DEFINE p == Append(r.disputes[i], new)
  <2>1. p \in Disputes
    BY <1>5
  <2>2. s = [r EXCEPT !.status = "DISPUTED", !.milestone = [@ EXCEPT ![i] = "DISPUTED"],
                      !.disputes = [@ EXCEPT ![i] = p]]
    BY <1>3
  <2> HIDE DEF p
  <2>3. [r.disputes EXCEPT ![i] = p] \in DisputeRows
    BY <1>2, <2>1 DEF DisputeRows
  <2>4. [r.milestone EXCEPT ![i] = "DISPUTED"] \in MilestoneRows
    BY DEF Rows, MilestoneRows, MilestoneRowStatus
  <2> QED  BY <2>2, <2>3, <2>4 DEF Rows, ProjectRowStatus
<1> QED  BY <1>2, <1>3, <1>4, <1>5, <1>6 DEF Rows, DisputeRows, MilestoneRows, AfterDispute

(* The dispute queue reports.                                               *)
LEMMA WriteResolutionRow ==
  ASSUME NEW r \in Rows, NEW i \in Milestones, NEW d, NEW kind, NEW s,
         s = WriteResolution(r, i, d, kind)
  PROVE  AfterResolution(r, s, i, d, kind)
<1> DEFINE q == IF r.disputes[i][d].related
                THEN [r.submissions[i] EXCEPT ![Len(r.submissions[i])].status =
                        IF kind = "RefundToClient" THEN "REJECTED" ELSE "ACCEPTED"]
                ELSE r.submissions[i]
           p == WithStatus(r.disputes[i], d, ResolvedStatus(kind))
           settledAs == SettledAs(kind)
           settled == SettledRow(r, i, p, settledAs, q)
<1>1. q \in Deliveries
  BY DeliveryRow DEF Rows, SubmissionRows, SubmissionStatus
<1>2. p = WithStatus(r.disputes[i], d, ResolvedStatus(kind))
  OBVIOUS
<1>3. s = [settled EXCEPT !.status = StatusAfterDispute(settled)]
  BY DEF WriteResolution, Rows, SubmissionRows, DisputeRows, MilestoneRows,
         SettledRow, WithStatus
<1>4. settledAs \in {"RELEASED", "VOIDED"}
  BY SettledAsIsSettled
<1>5. settled = SettledRow(r, i, p, settledAs, q)
  OBVIOUS
<1> HIDE DEF q, p, settledAs, settled
<1>6. AfterClosing(p, r.disputes[i], d, ResolvedStatus(kind))
  BY <1>2, ClosedDispute
<1>7. p \in Disputes
  BY <1>6 DEF AfterClosing
<1>8. AfterSettling(r, settled, i, p, settledAs, q)
  BY <1>1, <1>4, <1>5, <1>7, ResolvedRow
<1>9. settled \in Rows
  BY <1>8 DEF AfterSettling
<1>10. s \in Rows
  BY <1>3, <1>9, StatusAfterDisputeRow
<1>11. s.milestone = settled.milestone /\ s.disputes = settled.disputes
  BY <1>3, <1>9 DEF Rows
<1> QED  BY <1>6, <1>8, <1>10, <1>11
         DEF AfterClosing, AfterSettling, settledAs, Rows, DisputeRows, MilestoneRows, AfterResolution

-----------------------------------------------------------------------------
(* What the transactions do.                                               *)

(* Events that are true make the list of events longer and leave it true.   *)
LEMMA EmitGrows ==
  ASSUME EventsTrue, ChainOK, ChainOK', funded <= funded', next <= next',
         NEW new \in Seq(ChainEvents), Emit(new),
         \A n \in 1..Len(new) : EventTrue(new[n], funded', next')
  PROVE  /\ EventsTrue'
         /\ Len(events) <= Len(events')
         /\ \A n \in 1..Len(events) : events'[n] = events[n]
<1>1. /\ events' = events \o new /\ events' \in Seq(ChainEvents)
      /\ Len(events') = Len(events) + Len(new)
      /\ \A n \in 1..Len(events') :
           events'[n] = IF n <= Len(events) THEN events[n] ELSE new[n - Len(events)]
      /\ Len(events) \in Nat /\ Len(new) \in Nat
  BY DEF Emit, EventsTrue
<1>2. ASSUME NEW n \in 1..Len(events') PROVE EventTrue(events'[n], funded', next')
  <2>1. CASE n <= Len(events)
    <3>1. events'[n] = events[n] /\ EventTrue(events[n], funded, next) /\ events[n] \in ChainEvents
      BY <1>1, <2>1 DEF EventsTrue
    <3>2. /\ next' \in 0..MilestoneCount /\ next \in 0..MilestoneCount
          /\ funded \in Nat /\ funded' \in Nat /\ MilestoneCount \in Nat
      BY MilestoneConstants DEF ChainOK
    <3>3. /\ events[n].name = "ProjectFunded" => events[n].funded \in Nat
          /\ events[n].name \in {"MilestoneFundsReleased", "DisputeResolved"} =>
               events[n].milestone \in Nat
      BY <3>1 DEF ChainEvents, FundedEvents, SubmittedEvents, WorkEvents, PaymentEvents,
                  DecisionEvents, CancelEvents, Milestones
    <3> QED  BY <3>1, <3>2, <3>3 DEF EventTrue
  <2>2. CASE ~(n <= Len(events))
    <3>1. n - Len(events) \in 1..Len(new)
      BY <1>1, <2>2
    <3> QED  BY <1>1, <2>2, <3>1
  <2> QED  BY <2>1, <2>2
<1> QED  BY <1>1, <1>2 DEF EventsTrue

(* While a project is open, what it holds and what its next milestone costs *)
(* follow from the running costs.                                           *)
LEMMA PriceIs ==
  ASSUME ChainOK, IsOpen
  PROVE  /\ next \in Milestones /\ Price = Cost[next + 1] - Cost[next] /\ Price \in Nat
         /\ Price > 0 /\ Cost[next] \in Nat /\ Cost[next + 1] \in Nat
         /\ Held = funded - Cost[next] /\ MilestoneIndexes = Milestones
<1>1. next \in Milestones
  BY MilestoneConstants DEF ChainOK, Milestones
<1> QED  BY <1>1, MilestoneConstants DEF ChainOK, Price, Held

(* fundProject                                                              *)
LEMMA FundProjectMoves ==
  ASSUME ChainOK, EventsTrue, NEW amount \in Deposits, FundProject(amount)
  PROVE  Moved
<1> DEFINE e == [name |-> "ProjectFunded", amount |-> amount, funded |-> funded + amount]
<1>1. amount \in Nat /\ funded \in Nat
  BY MilestoneConstants DEF ChainOK
<1>2. /\ funded' = funded + amount
      /\ UNCHANGED <<stage, agreement, paid, refunded, next, work, outcome>>
  BY DEF FundProject, Deposit
<1>3. IsOpen' = IsOpen
  BY <1>2 DEF IsOpen
<1>4. ChainOK'
  <2>1. IsOpen => Cost[next + 1] \in Nat
    BY PriceIs
  <2>2. work # "Pending" \/ stage = "Disputed" => IsOpen
    BY DEF ChainOK, IsOpen
  <2> QED  BY <1>1, <1>2, <1>3, <2>1, <2>2 DEF ChainOK
<1>5. <<e>> \in Seq(ChainEvents) /\ Len(<<e>>) = 1 /\ <<e>>[1] = e
  <2>1. e \in FundedEvents
    BY <1>1 DEF FundedEvents
  <2> QED  BY <2>1 DEF ChainEvents
<1>6. Emit(<<e>>)
  BY DEF FundProject
<1>7. EventTrue(e, funded', next')
  BY <1>1, <1>2 DEF EventTrue
<1> HIDE DEF e
<1>8. \A n \in 1..Len(<<e>>) : EventTrue(<<e>>[n], funded', next')
  BY <1>5, <1>7
<1>9. funded <= funded' /\ next <= next'
  BY <1>1, <1>2, <1>4 DEF ChainOK
<1> QED  BY <1>2, <1>4, <1>5, <1>6, <1>8, <1>9, EmitGrows DEF Moved, Grows

(* One event is emitted.                                                    *)
LEMMA EmitOneGrows ==
  ASSUME EventsTrue, ChainOK, ChainOK', funded <= funded', next <= next',
         NEW e \in ChainEvents, Emit(<<e>>), EventTrue(e, funded', next')
  PROVE  /\ EventsTrue'
         /\ Len(events) <= Len(events')
         /\ \A n \in 1..Len(events) : events'[n] = events[n]
<1>1. <<e>> \in Seq(ChainEvents) /\ \A n \in 1..Len(<<e>>) : EventTrue(<<e>>[n], funded', next')
  OBVIOUS
<1> QED  BY <1>1, EmitGrows

(* The work on the next milestone goes on. *)
LEMMA WorkMoves ==
  ASSUME ChainOK, EventsTrue, IsOpen, funded >= Cost[next + 1],
         work' \in {"Pending", "Submitted", "Approved"}, stage' \in {"Active", "Disputed"},
         work # "Pending" => work' # "Pending", work = "Approved" => work' = "Approved",
         UNCHANGED <<agreement, funded, paid, refunded, next, outcome>>,
         NEW e \in ChainEvents, Emit(<<e>>),
         e.name \notin {"ProjectFunded", "MilestoneFundsReleased", "DisputeResolved",
                        "ProjectCancelled"}
  PROVE  Moved
<1>1. IsOpen'
  BY DEF IsOpen
<1>2. ChainOK'
  BY <1>1 DEF ChainOK
<1>3. EventTrue(e, funded', next')
  BY DEF EventTrue
<1>4. funded <= funded' /\ next <= next'
  BY <1>2 DEF ChainOK
<1>5. /\ EventsTrue'
      /\ Len(events) <= Len(events')
      /\ \A n \in 1..Len(events) : events'[n] = events[n]
  BY <1>2, <1>3, <1>4, EmitOneGrows
<1> QED  BY <1>2, <1>4, <1>5 DEF Moved, Grows

(* The next milestone is settled. *)
LEMMA SettleMoves ==
  ASSUME ChainOK, EventsTrue, IsOpen, funded >= Cost[next + 1],
         NEW a \in Nat, NEW b \in Nat, Settle(a, b),
         NEW e \in ChainEvents, Emit(<<e>>),
         e.name \in {"MilestoneFundsReleased", "DisputeResolved"}, e.milestone = next
  PROVE  /\ Moved
         /\ next' = next + 1 /\ stage' # "Disputed"
<1>1. /\ next \in Milestones /\ Price = Cost[next + 1] - Cost[next]
      /\ Cost[next] \in Nat /\ Cost[next + 1] \in Nat /\ MilestoneIndexes = Milestones
  BY PriceIs
<1>2. /\ a + b = Price /\ paid' = paid + a /\ refunded' = refunded + b
      /\ outcome' = [outcome EXCEPT ![next] = IF a = 0 THEN "Refunded" ELSE "Released"]
      /\ next' = next + 1 /\ work' = "Pending"
      /\ stage' = IF next + 1 = agreement.count THEN "Completed" ELSE "Active"
      /\ agreement' = agreement /\ funded' = funded
  BY DEF Settle
<1>3. next \in Nat /\ next' \in 0..MilestoneCount /\ agreement.count = MilestoneCount
  BY <1>1, <1>2, MilestoneConstants DEF Milestones, ChainOK
<1>4. IsOpen' <=> next' # MilestoneCount
  BY <1>2, <1>3 DEF IsOpen
<1>5. outcome' \in [Milestones -> {"Pending", "Released", "Refunded"}]
  BY <1>1, <1>2 DEF ChainOK
<1>6. \A i \in Milestones : i < next' => outcome'[i] # "Pending"
  <2>1. ASSUME NEW i \in Milestones, i < next' PROVE i = next \/ i < next
    BY <2>1, <1>2, <1>3 DEF Milestones
  <2> QED  BY <1>1, <1>2, <2>1 DEF ChainOK
<1>7. paid' \in Nat /\ refunded' \in Nat /\ paid' + refunded' = Cost[next']
  <2>1. paid + refunded = Cost[next] /\ paid \in Nat /\ refunded \in Nat
    BY DEF ChainOK
  <2> QED  BY <1>1, <1>2, <2>1
<1>8. ChainOK'
  BY <1>2, <1>3, <1>4, <1>5, <1>6, <1>7 DEF ChainOK
<1>9. EventTrue(e, funded', next')
  BY <1>2, <1>3 DEF EventTrue
<1>10. funded <= funded' /\ next <= next'
  BY <1>2, <1>3, <1>8 DEF ChainOK
<1>11. /\ EventsTrue'
       /\ Len(events) <= Len(events')
       /\ \A n \in 1..Len(events) : events'[n] = events[n]
  BY <1>8, <1>9, <1>10, EmitOneGrows
<1>12. next' # next
  BY <1>2, <1>3
<1> QED  BY <1>2, <1>8, <1>10, <1>11, <1>12 DEF Moved, Grows

(* submitMilestone                                                          *)
LEMMA SubmitMilestoneMoves ==
  ASSUME ChainOK, EventsTrue, NEW i \in Milestones, NEW uri \in Nat, SubmitMilestone(i, uri)
  PROVE  /\ Moved
         /\ stage = "Active" /\ stage' = "Active" /\ next' = next /\ votes' = votes
<1> DEFINE e == [name |-> "MilestoneSubmitted", milestone |-> i, uri |-> uri]
<1>1. /\ stage = "Active" /\ work = "Pending" /\ work' = "Submitted" /\ Held >= Price
      /\ Emit(<<e>>) /\ votes' = votes
      /\ UNCHANGED <<stage, agreement, funded, paid, refunded, next, outcome>>
  BY DEF SubmitMilestone, CanSubmit, Deliver
<1>2. e \in ChainEvents /\ e.name = "MilestoneSubmitted"
  BY DEF ChainEvents, SubmittedEvents
<1> HIDE DEF e
<1>3. IsOpen
  BY <1>1 DEF IsOpen
<1>4. funded >= Cost[next + 1]
  BY <1>1, <1>3, PriceIs DEF ChainOK
<1>5. Moved
  BY <1>1, <1>2, <1>3, <1>4, WorkMoves
<1> QED  BY <1>1, <1>5

(* approveMilestone                                                         *)
LEMMA ApproveMilestoneMoves ==
  ASSUME ChainOK, EventsTrue, NEW i \in Milestones, ApproveMilestone(i)
  PROVE  /\ Moved
         /\ stage = "Active" /\ stage' = "Active" /\ next' = next /\ votes' = votes
<1> DEFINE e == Event("MilestoneApproved", i)
<1>1. /\ stage = "Active" /\ work = "Submitted" /\ work' = "Approved"
      /\ Emit(<<e>>) /\ votes' = votes
      /\ UNCHANGED <<stage, agreement, funded, paid, refunded, next, outcome>>
  BY DEF ApproveMilestone, CanApprove, Approve
<1>2. e \in ChainEvents /\ e.name = "MilestoneApproved"
  BY DEF ChainEvents, WorkEvents, Event
<1> HIDE DEF e
<1>3. IsOpen
  BY <1>1 DEF IsOpen
<1>4. funded >= Cost[next + 1]
  BY <1>1 DEF ChainOK
<1>5. Moved
  BY <1>1, <1>2, <1>3, <1>4, WorkMoves
<1> QED  BY <1>1, <1>5

(* releaseMilestone                                                         *)
LEMMA ReleaseMilestoneMoves ==
  ASSUME ChainOK, EventsTrue, NEW i \in Milestones, ReleaseMilestone(i)
  PROVE  /\ Moved
         /\ i < next' /\ stage = "Active" /\ stage' # "Disputed" /\ votes' = votes
<1> DEFINE e == Payment(i)
<1>1. /\ stage = "Active" /\ work = "Approved" /\ next = i
      /\ Settle(Price, 0) /\ Emit(<<e>>) /\ votes' = votes
  BY DEF ReleaseMilestone, CanRelease, Release
<1>2. IsOpen
  BY <1>1 DEF IsOpen
<1>3. e \in ChainEvents /\ e.name = "MilestoneFundsReleased" /\ e.milestone = next
  BY <1>1, <1>2, PriceIs DEF ChainEvents, PaymentEvents, Payment
<1> HIDE DEF e
<1>4. funded >= Cost[next + 1] /\ Price \in Nat
  BY <1>1, <1>2, PriceIs DEF ChainOK
<1>5. Moved /\ next' = next + 1 /\ stage' # "Disputed"
  BY <1>1, <1>2, <1>3, <1>4, SettleMoves
<1> QED  BY <1>1, <1>5 DEF Milestones

(* raiseDispute                                                             *)
LEMMA RaiseDisputeMoves ==
  ASSUME ChainOK, EventsTrue, NEW i \in Milestones, RaiseDispute(i)
  PROVE  /\ Moved
         /\ stage = "Active" /\ stage' = "Disputed" /\ next = i
         /\ next' = next /\ work' = work /\ votes' = votes
<1> DEFINE e == Event("DisputeRaised", i)
<1>1. /\ stage = "Active" /\ stage' = "Disputed" /\ Held >= Price /\ next = i
      /\ Emit(<<e>>) /\ votes' = votes
      /\ UNCHANGED <<agreement, funded, paid, refunded, next, work, outcome>>
  BY DEF RaiseDispute, CanRaise, Contest
<1>2. e \in ChainEvents /\ e.name = "DisputeRaised"
  BY DEF ChainEvents, WorkEvents, Event
<1> HIDE DEF e
<1>3. IsOpen
  BY <1>1 DEF IsOpen
<1>4. funded >= Cost[next + 1]
  BY <1>1, <1>3, PriceIs DEF ChainOK
<1>5. work' \in {"Pending", "Submitted", "Approved"}
  BY <1>1 DEF ChainOK
<1>6. Moved
  BY <1>1, <1>2, <1>3, <1>4, <1>5, WorkMoves
<1> QED  BY <1>1, <1>6

(* appendDisputeEvidence                                                    *)
LEMMA AppendDisputeEvidenceMoves ==
  ASSUME ChainOK, EventsTrue, NEW i \in Milestones, AppendDisputeEvidence(i)
  PROVE  /\ Moved
         /\ UNCHANGED <<lifecycleVars, votes>>
<1> DEFINE e == Event("DisputeEvidenceAppended", i)
<1>1. /\ stage = "Disputed" /\ Emit(<<e>>) /\ UNCHANGED <<lifecycleVars, votes>>
  BY DEF AppendDisputeEvidence, IsDisputed
<1>2. e \in ChainEvents /\ e.name = "DisputeEvidenceAppended"
  BY DEF ChainEvents, WorkEvents, Event
<1> HIDE DEF e
<1>3. IsOpen
  BY <1>1 DEF IsOpen
<1>4. funded >= Cost[next + 1]
  BY <1>1 DEF ChainOK
<1>5. work' \in {"Pending", "Submitted", "Approved"} /\ stage' = "Disputed"
  BY <1>1 DEF ChainOK, lifecycleVars
<1>6. UNCHANGED <<agreement, funded, paid, refunded, next, work, outcome>>
  BY <1>1 DEF lifecycleVars
<1>7. Moved
  BY <1>1, <1>2, <1>3, <1>4, <1>5, <1>6, WorkMoves
<1> QED  BY <1>1, <1>7
(* What DisputeResolved says of a decision.                                 *)
Decision(i, amount) ==
  [name |-> "DisputeResolved", milestone |-> i, kind |-> KindOf(amount),
   freelancerAmount |-> amount]

(* Nothing, one, or all of the price is paid out.                           *)
LEMMA AmountsArePartsOfThePrice ==
  ASSUME ChainOK, IsOpen, NEW amount \in Amounts
  PROVE  amount \in Nat /\ Price - amount \in Nat /\ KindOf(amount) \in ResolutionKind
<1>1. Price \in Nat /\ Price > 0
  BY PriceIs
<1>2. amount \in {0, 1, Price}
  BY DEF Amounts
<1> QED  BY <1>1, <1>2 DEF KindOf, ResolutionKind

(* A dispute is settled.                                                    *)
LEMMA SettleDisputeMoves ==
  ASSUME ChainOK, EventsTrue, NEW i \in Milestones, NEW amount,
         IsOpen => amount \in Amounts, SettleDispute(i, amount)
  PROVE  /\ Moved
         /\ stage = "Disputed" /\ next = i /\ i < next' /\ stage' # "Disputed" /\ votes' = {}
         /\ events' = events \o <<Decision(i, amount)>>
<1> DEFINE e == Decision(i, amount)
<1>1. /\ stage = "Disputed" /\ next = i /\ Settle(amount, Price - amount)
      /\ Emit(<<e>>) /\ votes' = {}
  BY DEF SettleDispute, IsDisputed, Decide, Decision
<1>2. IsOpen
  BY <1>1 DEF IsOpen
<1>3. amount \in Nat /\ Price - amount \in Nat /\ KindOf(amount) \in ResolutionKind
  BY <1>2, AmountsArePartsOfThePrice
<1>4. e \in ChainEvents /\ e.name = "DisputeResolved" /\ e.milestone = next
  BY <1>1, <1>3 DEF ChainEvents, DecisionEvents, Decision
<1>5. events' = events \o <<e>>
  BY <1>1 DEF Emit
<1> HIDE DEF e
<1>6. funded >= Cost[next + 1]
  BY <1>1 DEF ChainOK
<1>7. Moved /\ next' = next + 1 /\ stage' # "Disputed"
  BY <1>1, <1>2, <1>3, <1>4, <1>6, SettleMoves
<1> QED  BY <1>1, <1>5, <1>7 DEF e, Milestones

(* A vote is counted, or completes the quorum and settles the dispute.      *)
LEMMA ResolveDisputeMoves ==
  ASSUME ChainOK, EventsTrue, NEW i \in Milestones, NEW a, NEW amount,
         ResolveDispute(i, a, amount)
  PROVE  /\ stage = "Disputed" /\ next = i
         /\ \/ amount \in Amounts /\ SettleDispute(i, amount)
            \/ UNCHANGED <<lifecycleVars, events, undo>>
         /\ Threshold = 1 /\ votes = {} => SettleDispute(i, amount)
<1>1. stage = "Disputed" /\ next = i /\ amount \in Amounts
  BY DEF ResolveDispute, CanVote, IsDisputed
<1>2. ASSUME Threshold = 1, votes = {} PROVE SettleDispute(i, amount)
  <2>1. {v \in votes \cup {<<a, amount>>} : v[2] = amount} = {<<a, amount>>}
    BY <1>2
  <2>2. Cardinality({<<a, amount>>}) = 1
    BY FS_Singleton
  <2> QED  BY <1>2, <2>1, <2>2 DEF ResolveDispute
<1>3. SettleDispute(i, amount) \/ UNCHANGED <<lifecycleVars, events, undo>>
  BY DEF ResolveDispute
<1> QED  BY <1>1, <1>2, <1>3

(* cancelProject                                                            *)
LEMMA CancelProjectMoves ==
  ASSUME ChainOK, EventsTrue, CancelProject
  PROVE  /\ Moved
         /\ \/ stage = "Active" /\ work # "Approved"
            \/ stage = "Disputed" /\ work = "Pending"
         /\ stage' = "Cancelled" /\ next' = MilestoneCount /\ votes' = {}
<1> DEFINE toFreelancer == IF work = "Submitted" THEN Price ELSE 0
           new == (IF work = "Submitted" THEN <<Payment(next)>> ELSE <<>>)
                  \o <<[name |-> "ProjectCancelled"]>>
<1>1. /\ \/ stage = "Active" /\ work # "Approved"
         \/ stage = "Disputed" /\ work = "Pending"
      /\ toFreelancer <= Held
      /\ paid' = paid + toFreelancer
      /\ refunded' = refunded + Held - toFreelancer
      /\ outcome' = [i \in MilestoneIndexes |->
           IF i \notin next..(agreement.count - 1) THEN outcome[i]
           ELSE IF i = next /\ work = "Submitted" THEN "Released" ELSE "Refunded"]
      /\ next' = agreement.count /\ work' = "Pending" /\ stage' = "Cancelled"
      /\ agreement' = agreement /\ funded' = funded
      /\ Emit(new) /\ votes' = {}
  BY DEF CancelProject, CallOff
<1>2. IsOpen
  BY <1>1 DEF IsOpen
<1>3. /\ next \in Milestones /\ Price \in Nat /\ MilestoneIndexes = Milestones
      /\ Cost[next] \in Nat /\ Held = funded - Cost[next]
  BY <1>2, PriceIs
<1>4. agreement.count = MilestoneCount /\ MilestoneCount \in Nat /\ next \in Nat
  BY <1>3, MilestoneConstants DEF ChainOK, Milestones
<1>5. paid' \in Nat /\ refunded' \in Nat
  <2>1. funded \in Nat /\ paid \in Nat /\ refunded \in Nat /\ toFreelancer \in Nat
    BY <1>3 DEF ChainOK
  <2> HIDE DEF toFreelancer
  <2> QED  BY <1>1, <1>3, <2>1
<1>6. outcome' \in [Milestones -> {"Pending", "Released", "Refunded"}]
  BY <1>1, <1>3 DEF ChainOK
<1>7. \A i \in Milestones : outcome'[i] # "Pending"
  <2>1. ASSUME NEW i \in Milestones PROVE i \notin next..(agreement.count - 1) => i < next
    BY <1>4 DEF Milestones
  <2> QED  BY <1>1, <1>3, <2>1 DEF ChainOK
<1>8. ChainOK'
  <2>1. ~IsOpen' /\ next' = MilestoneCount /\ next' \in 0..MilestoneCount
    BY <1>1, <1>4 DEF IsOpen
  <2>2. funded' \in Nat /\ agreement' = [count |-> MilestoneCount, cost |-> Cost]
    BY <1>1 DEF ChainOK
  <2> QED  BY <1>1, <1>5, <1>6, <1>7, <2>1, <2>2 DEF ChainOK
<1>9. /\ new \in Seq(ChainEvents)
      /\ \A n \in 1..Len(new) : EventTrue(new[n], funded', next')
  <2>1. Payment(next) \in ChainEvents /\ [name |-> "ProjectCancelled"] \in ChainEvents
    BY <1>3 DEF ChainEvents, PaymentEvents, CancelEvents, Payment
  <2>2. /\ EventTrue(Payment(next), funded', next')
        /\ EventTrue([name |-> "ProjectCancelled"], funded', next')
    BY <1>1, <1>3, <1>4 DEF EventTrue, Payment, Milestones
  <2>3. CASE work = "Submitted"
    <3> DEFINE a == Payment(next)
               b == [name |-> "ProjectCancelled"]
    <3>1. new = <<a>> \o <<b>>
      BY <2>3
    <3>2. /\ a \in ChainEvents /\ b \in ChainEvents
          /\ EventTrue(a, funded', next') /\ EventTrue(b, funded', next')
      BY <2>1, <2>2
    <3> HIDE DEF new, a, b
    <3> QED  BY <3>1, <3>2
  <2>4. CASE work # "Submitted"
    <3>1. new = <<[name |-> "ProjectCancelled"]>>
      BY <2>4
    <3> HIDE DEF new
    <3> QED  BY <2>1, <2>2, <3>1
  <2> QED  BY <2>3, <2>4
<1> HIDE DEF new, toFreelancer
<1>10. funded <= funded' /\ next <= next' /\ next # next'
  BY <1>1, <1>3, <1>4, <1>8 DEF ChainOK, Milestones
<1>11. /\ EventsTrue'
       /\ Len(events) <= Len(events')
       /\ \A n \in 1..Len(events) : events'[n] = events[n]
  BY <1>1, <1>8, <1>9, <1>10, EmitGrows
<1> QED  BY <1>1, <1>4, <1>8, <1>10, <1>11 DEF Moved, Grows

(* A transaction that reverts.                                              *)
LEMMA NothingMoves ==
  ASSUME ChainOK, EventsTrue, UNCHANGED <<lifecycleVars, events>>
  PROVE  Moved
<1>1. /\ UNCHANGED <<stage, agreement, funded, paid, refunded, next, work, outcome, events>>
  BY DEF lifecycleVars
<1>2. IsOpen' = IsOpen
  BY <1>1 DEF IsOpen
<1>3. ChainOK'
  BY <1>1, <1>2 DEF ChainOK
<1>4. EventsTrue'
  BY <1>1 DEF EventsTrue
<1>5. funded <= funded' /\ next <= next' /\ Len(events) <= Len(events')
  BY <1>1 DEF ChainOK, EventsTrue
<1> QED  BY <1>1, <1>3, <1>4, <1>5 DEF Moved, Grows

(* Any call of the registry that no page reports.                           *)
LEMMA DirectCallMoves ==
  ASSUME ChainOK, EventsTrue, DirectCall
  PROVE  Moved
<1>1. CASE \E amount \in Deposits : FundProject(amount)
  BY <1>1, FundProjectMoves
<1>2. ASSUME NEW i \in Milestones, SubmitMilestone(i, 0) PROVE Moved
  BY <1>2, SubmitMilestoneMoves
<1>3. ASSUME NEW i \in Milestones, ApproveMilestone(i) PROVE Moved
  BY <1>3, ApproveMilestoneMoves
<1>4. ASSUME NEW i \in Milestones, ReleaseMilestone(i) PROVE Moved
  BY <1>4, ReleaseMilestoneMoves
<1>5. ASSUME NEW i \in Milestones, RaiseDispute(i) PROVE Moved
  BY <1>5, RaiseDisputeMoves
<1>6. ASSUME NEW i \in Milestones, AppendDisputeEvidence(i) PROVE Moved
  BY <1>6, AppendDisputeEvidenceMoves
<1>7. ASSUME NEW i \in Milestones, NEW amount \in Amounts, SettleDispute(i, amount)
      PROVE  Moved
  BY <1>7, SettleDisputeMoves
<1>8. ASSUME NEW i \in Milestones, NEW a, NEW amount \in Amounts, ResolveDispute(i, a, amount)
      PROVE  Moved
  <2>1. SettleDispute(i, amount) \/ UNCHANGED <<lifecycleVars, events, undo>>
    BY <1>8, ResolveDisputeMoves
  <2> QED  BY <1>7, <2>1, NothingMoves
<1>9. CASE CancelProject
  BY <1>9, CancelProjectMoves
<1> QED  BY <1>1, <1>2, <1>3, <1>4, <1>5, <1>6, <1>7, <1>8, <1>9 DEF DirectCall

-----------------------------------------------------------------------------
(* The pages keep to their forms.                                          *)

(* A page gets a form of its own, and the other pages keep theirs: in       *)
(* general, and for each page.                                              *)
LEMMA GoForm ==
  ASSUME PagesTyped, NEW p \in Pages, NEW f \in Forms, Go(p, f)
  PROVE  /\ page' \in [Pages -> Forms] /\ page'[p] = f
         /\ \A q \in Pages : q # p => page'[q] = page[q]
BY DEF Go, PagesTyped

LEMMA GoSubmit ==
  ASSUME PagesTyped, NEW f \in SubmitForms, Go("submit", f)
  PROVE  /\ PagesTyped' /\ page'["submit"] = f
         /\ \A q \in Pages : q # "submit" => page'[q] = page[q]
<1>1. f \in Forms /\ "submit" \in Pages
  BY DEF Forms, Pages
<1> QED  BY <1>1, GoForm DEF PagesTyped, Pages

LEMMA GoApprove ==
  ASSUME PagesTyped, NEW f \in ApprovalForms, Go("approve", f)
  PROVE  /\ PagesTyped' /\ page'["approve"] = f
         /\ \A q \in Pages : q # "approve" => page'[q] = page[q]
<1>1. f \in Forms /\ "approve" \in Pages
  BY DEF Forms, Pages
<1> QED  BY <1>1, GoForm DEF PagesTyped, Pages

LEMMA GoDispute ==
  ASSUME PagesTyped, NEW f \in DisputeForms, Go("dispute", f)
  PROVE  /\ PagesTyped' /\ page'["dispute"] = f
         /\ \A q \in Pages : q # "dispute" => page'[q] = page[q]
<1>1. f \in Forms /\ "dispute" \in Pages
  BY DEF Forms, Pages
<1> QED  BY <1>1, GoForm DEF PagesTyped, Pages

LEMMA GoFund ==
  ASSUME PagesTyped, NEW f \in FundForms, Go("fund", f)
  PROVE  /\ PagesTyped' /\ page'["fund"] = f
         /\ \A q \in Pages : q # "fund" => page'[q] = page[q]
<1>1. f \in Forms /\ "fund" \in Pages
  BY DEF Forms, Pages
<1> QED  BY <1>1, GoForm DEF PagesTyped, Pages

LEMMA GoAdmin ==
  ASSUME PagesTyped, NEW f \in AdminForms, Go("admin", f)
  PROVE  /\ PagesTyped' /\ page'["admin"] = f
         /\ \A q \in Pages : q # "admin" => page'[q] = page[q]
<1>1. f \in Forms /\ "admin" \in Pages
  BY DEF Forms, Pages
<1> QED  BY <1>1, GoForm DEF PagesTyped, Pages

(* A page moves, rows and chain stay. *)
LEMMA PageMovesKeep ==
  ASSUME BaseInv, PagesTyped', FundSound(page'["fund"], funded),
         UNCHANGED <<chainVars, applied, rows>>
  PROVE  BaseInv'
<1>1. /\ UNCHANGED <<lifecycleVars, events, applied, rows>>
      /\ funded' = funded
  BY DEF chainVars, lifecycleVars
<1>2. Moved
  BY <1>1, NothingMoves DEF BaseInv
<1> QED  BY <1>1, <1>2 DEF BaseInv, Moved, FundedMeansDeposited

(* The chain moves, rows stay. *)
LEMMA ChainMovesKeep ==
  ASSUME BaseInv, Moved, PagesTyped', FundSound(page'["fund"], funded'),
         UNCHANGED <<applied, rows>>
  PROVE  BaseInv'
<1>1. applied' \in 0..Len(events')
  BY DEF BaseInv, Moved, Grows, EventsTrue
<1>2. ASSUME NEW i \in Milestones, rows'.milestone[i] = "FUNDED" PROVE funded' >= Cost[i + 1]
  <2>1. funded >= Cost[i + 1] /\ Cost[i + 1] \in Nat
    BY <1>2, MilestoneConstants DEF BaseInv, FundedMeansDeposited
  <2>2. funded \in Nat /\ funded' \in Nat /\ funded <= funded'
    BY DEF BaseInv, Moved, Grows, ChainOK
  <2> QED  BY <2>1, <2>2
<1> QED  BY <1>1, <1>2 DEF BaseInv, Moved, FundedMeansDeposited

(* A total that has been read is still not too much when more is deposited. *)
LEMMA FundSoundGrows ==
  ASSUME ChainOK, Moved, NEW f \in FundForms, FundSound(f, funded)
  PROVE  FundSound(f, funded')
<1>1. funded \in Nat /\ funded' \in Nat /\ funded <= funded'
  BY DEF ChainOK, Moved, Grows
<1>2. f.at \in {"report", "write"} => f.funded \in Nat
  BY DEF FundForms, Closed
<1> QED  BY <1>1, <1>2 DEF FundSound

(* The rows are written, the chain stays. *)
LEMMA WritesKeep ==
  ASSUME BaseInv, UNCHANGED chainVars, rows' \in Rows, applied' \in 0..Len(events),
         PagesTyped', FundSound(page'["fund"], funded),
         \A i \in Milestones : rows'.milestone[i] = "FUNDED" =>
           rows.milestone[i] = "FUNDED" \/ funded >= Cost[i + 1]
  PROVE  BaseInv'
<1>1. /\ UNCHANGED <<lifecycleVars, events>>
      /\ funded' = funded /\ events' = events
  BY DEF chainVars, lifecycleVars
<1>2. Moved
  BY <1>1, NothingMoves DEF BaseInv
<1>3. FundedMeansDeposited'
  BY <1>1 DEF BaseInv, FundedMeansDeposited
<1> QED  BY <1>1, <1>2, <1>3 DEF BaseInv, Moved
-----------------------------------------------------------------------------
(* Every step keeps the basic invariant.                                   *)

(* What a form holds, by page and step.                                     *)
LEMMA FormParts ==
  ASSUME PagesTyped
  PROVE  /\ \A p \in Pages : p \in DOMAIN page
         /\ At("submit", "read") => page["submit"].milestone \in Milestones
         /\ page["submit"].at \in {"write", "sign"} =>
              /\ page["submit"].milestone \in Milestones /\ page["submit"].attempt \in Nat
              /\ [page["submit"] EXCEPT !.at = "sign"] \in SubmitForms
         /\ page["approve"].at \in {"preflight", "approve", "check", "release", "report", "write"} =>
              /\ page["approve"].milestone \in Milestones
              /\ \A step \in {"approve", "check", "release", "report", "write", "count"} :
                   [page["approve"] EXCEPT !.at = step] \in ApprovalForms
         /\ At("approve", "status") => page["approve"].status \in ProjectRowStatus
         /\ page["dispute"].at \in {"preflight", "raise", "report", "write"} =>
              /\ page["dispute"].milestone \in Milestones
              /\ \A step \in {"raise", "report", "write"} :
                   [page["dispute"] EXCEPT !.at = step] \in DisputeForms
         /\ At("fund", "fund") => page["fund"].amount \in Deposits
         /\ page["fund"].at \in {"report", "write"} => page["fund"].funded \in Nat
         /\ At("fund", "write") => page["fund"].seen \in MilestoneRows
         /\ page["admin"].at \in {"preflight", "vote", "report", "write"} =>
              /\ page["admin"].milestone \in Milestones /\ page["admin"].amount \in Nat
              /\ page["admin"].dispute \in Nat /\ page["admin"].arbiter \in Arbiters
              /\ \A step \in {"vote", "report", "write"} :
                   [page["admin"] EXCEPT !.at = step] \in AdminForms
<1>1. \A p \in Pages : p \in DOMAIN page
  BY DEF PagesTyped
<1>2. /\ At("submit", "read") => page["submit"].milestone \in Milestones
      /\ page["submit"].at \in {"write", "sign"} =>
           /\ page["submit"].milestone \in Milestones /\ page["submit"].attempt \in Nat
           /\ [page["submit"] EXCEPT !.at = "sign"] \in SubmitForms
  BY DEF PagesTyped, At, SubmitForms, Closed
<1>3. /\ page["approve"].at \in {"preflight", "approve", "check", "release", "report", "write"} =>
           /\ page["approve"].milestone \in Milestones
           /\ \A step \in {"approve", "check", "release", "report", "write", "count"} :
                [page["approve"] EXCEPT !.at = step] \in ApprovalForms
      /\ At("approve", "status") => page["approve"].status \in ProjectRowStatus
  BY DEF PagesTyped, At, ApprovalForms, Closed
<1>4. page["dispute"].at \in {"preflight", "raise", "report", "write"} =>
        /\ page["dispute"].milestone \in Milestones
        /\ \A step \in {"raise", "report", "write"} :
             [page["dispute"] EXCEPT !.at = step] \in DisputeForms
  BY DEF PagesTyped, DisputeForms, Closed
<1>5. /\ At("fund", "fund") => page["fund"].amount \in Deposits
      /\ page["fund"].at \in {"report", "write"} => page["fund"].funded \in Nat
      /\ At("fund", "write") => page["fund"].seen \in MilestoneRows
  BY DEF PagesTyped, At, FundForms, Closed
<1>6. page["admin"].at \in {"preflight", "vote", "report", "write"} =>
        /\ page["admin"].milestone \in Milestones /\ page["admin"].amount \in Nat
        /\ page["admin"].dispute \in Nat /\ page["admin"].arbiter \in Arbiters
        /\ \A step \in {"vote", "report", "write"} :
             [page["admin"] EXCEPT !.at = step] \in AdminForms
  BY DEF PagesTyped, AdminForms, Closed
<1> QED  BY <1>1, <1>2, <1>3, <1>4, <1>5, <1>6

(* A closed form is a form of every page.                                   *)
LEMMA ClosedForms ==
  /\ Closed \in SubmitForms /\ Closed \in ApprovalForms /\ Closed \in DisputeForms
  /\ Closed \in FundForms /\ Closed \in AdminForms
  /\ Closed.at = "closed"
BY DEF SubmitForms, ApprovalForms, DisputeForms, FundForms, AdminForms, Closed

(* The submission page writes a delivery and signs it.                      *)
LEMMA SubmitPageKeepsBase ==
  ASSUME BaseInv, SubmitPage
  PROVE  BaseInv'
<1>t. PagesTyped /\ rows \in Rows /\ ChainOK /\ EventsTrue
  BY DEF BaseInv
<1>g. ASSUME NEW f \in SubmitForms, Go("submit", f)
      PROVE  PagesTyped' /\ page'["fund"] = page["fund"]
  BY <1>t, <1>g, GoSubmit DEF Pages
<1>p. ASSUME NEW f \in SubmitForms, OnRows("submit", f)
      PROVE  BaseInv'
  <2>1. Go("submit", f) /\ UNCHANGED <<chainVars, applied, rows>>
    BY <1>p DEF OnRows
  <2> QED  BY <1>g, <2>1, PageMovesKeep DEF BaseInv
<1>1. CASE OpenSubmit
  <2>1. PICK i \in Milestones : OnRows("submit", [at |-> "read", milestone |-> i])
    BY <1>1 DEF OpenSubmit
  <2>2. [at |-> "read", milestone |-> i] \in SubmitForms
    BY DEF SubmitForms
  <2> QED  BY <1>p, <2>1, <2>2
<1>2. CASE ReadSubmission
  <2> DEFINE i == page["submit"].milestone
             f == [at |-> "write", milestone |-> i, attempt |-> Len(rows.submissions[i]) + 1]
  <2>1. OnRows("submit", f) \/ OnRows("submit", Closed)
    BY <1>2 DEF ReadSubmission, Refuse
  <2>2. i \in Milestones
    BY <1>2, <1>t, FormParts DEF ReadSubmission
  <2>3. Len(rows.submissions[i]) \in Nat
    BY <1>t, <2>2 DEF Rows, SubmissionRows, Deliveries
  <2>4. f \in SubmitForms
    BY <2>2, <2>3 DEF SubmitForms
  <2> QED  BY <1>p, <2>1, <2>4, ClosedForms
<1>3. CASE StoreSubmission
  <2> DEFINE do == page["submit"]
  <2>1. At("submit", "write")
    BY <1>3 DEF StoreSubmission
  <2>2. do.milestone \in Milestones /\ do.attempt \in Nat /\ [do EXCEPT !.at = "sign"] \in SubmitForms
    BY <1>t, <2>1, FormParts DEF At
  <2>3. CASE OnRows("submit", Closed)
    BY <1>p, <2>3, ClosedForms
  <2>4. CASE /\ rows' = WriteSubmission(rows, do.milestone, do.attempt)
             /\ Go("submit", [do EXCEPT !.at = "sign"])
             /\ UNCHANGED <<chainVars, applied>>
    <3>1. AfterDelivery(rows, rows', do.milestone)
      BY <1>t, <2>2, <2>4, WriteSubmissionRow
    <3>2. PagesTyped' /\ page'["fund"] = page["fund"]
      BY <1>g, <2>2, <2>4
    <3>3. applied' \in 0..Len(events) /\ UNCHANGED chainVars
      BY <2>4 DEF BaseInv
    <3>4. rows' \in Rows /\ \A i \in Milestones : rows'.milestone[i] = "FUNDED" =>
                              rows.milestone[i] = "FUNDED"
      BY <3>1 DEF AfterDelivery
    <3> QED  BY <3>2, <3>3, <3>4, WritesKeep DEF BaseInv
  <2> QED  BY <1>3, <2>3, <2>4 DEF StoreSubmission, Refuse
<1>4. CASE SignSubmission
  <2> DEFINE do == page["submit"]
  <2>1. /\ At("submit", "sign")
        /\ SubmitMilestone(do.milestone, do.attempt) \/ UNCHANGED chainVars
        /\ Go("submit", Closed) /\ UNCHANGED <<applied, rows>>
    BY <1>4 DEF SignSubmission, Mined
  <2>2. do.milestone \in Milestones /\ do.attempt \in Nat
    BY <1>t, <2>1, FormParts DEF At
  <2>3. Moved
    <3>1. CASE SubmitMilestone(do.milestone, do.attempt)
      BY <1>t, <2>2, <3>1, SubmitMilestoneMoves
    <3>2. CASE UNCHANGED chainVars
      BY <1>t, <3>2, NothingMoves DEF chainVars
    <3> QED  BY <2>1, <3>1, <3>2
  <2>4. PagesTyped' /\ page'["fund"] = page["fund"]
    BY <1>g, <2>1, ClosedForms
  <2>5. FundSound(page["fund"], funded')
    BY <1>t, <2>3, FundSoundGrows DEF BaseInv, PagesTyped
  <2> QED  BY <2>1, <2>3, <2>4, <2>5, ChainMovesKeep
<1> QED  BY <1>1, <1>2, <1>3, <1>4 DEF SubmitPage

(* The approval panel approves, releases, and writes both.                  *)
LEMMA ApprovalPanelKeepsBase ==
  ASSUME BaseInv, ApprovalPanel
  PROVE  BaseInv'
<1> DEFINE do == page["approve"]
<1>t. PagesTyped /\ rows \in Rows /\ ChainOK /\ EventsTrue
  BY DEF BaseInv
<1>g. ASSUME NEW f \in ApprovalForms, Go("approve", f)
      PROVE  PagesTyped' /\ page'["fund"] = page["fund"]
  BY <1>t, <1>g, GoApprove DEF Pages
<1>p. ASSUME NEW f \in ApprovalForms, OnRows("approve", f)
      PROVE  BaseInv'
  <2>1. Go("approve", f) /\ UNCHANGED <<chainVars, applied, rows>>
    BY <1>p DEF OnRows
  <2> QED  BY <1>g, <2>1, PageMovesKeep DEF BaseInv
<1>m. ASSUME NEW f \in ApprovalForms, Go("approve", f), Moved, UNCHANGED <<applied, rows>>
      PROVE  BaseInv'
  <2>1. PagesTyped' /\ page'["fund"] = page["fund"]
    BY <1>g, <1>m
  <2>2. FundSound(page["fund"], funded')
    BY <1>t, <1>m, FundSoundGrows DEF BaseInv, PagesTyped
  <2> QED  BY <1>m, <2>1, <2>2, ChainMovesKeep
<1>1. CASE OpenApproval
  <2>1. PICK i \in Milestones :
          OnRows("approve", [at |-> "preflight", milestone |-> i,
                             submission |-> Len(rows.submissions[i])])
    BY <1>1 DEF OpenApproval
  <2>2. Len(rows.submissions[i]) \in Nat
    BY <1>t DEF Rows, SubmissionRows, Deliveries
  <2>3. [at |-> "preflight", milestone |-> i, submission |-> Len(rows.submissions[i])]
          \in ApprovalForms
    BY <2>2 DEF ApprovalForms
  <2> QED  BY <1>p, <2>1, <2>3
<1>2. CASE CheckApproval \/ CheckRelease \/ ReadReview
  <2>1. /\ do.at \in {"preflight", "check", "report"}
        /\ \/ \E step \in {"approve", "release", "write"} :
                OnRows("approve", [do EXCEPT !.at = step])
           \/ OnRows("approve", Closed)
    BY <1>2 DEF CheckApproval, CheckRelease, ReadReview, At, Advance, Refuse
  <2>2. \A step \in {"approve", "release", "write"} : [do EXCEPT !.at = step] \in ApprovalForms
    BY <1>t, <2>1, FormParts
  <2> QED  BY <1>p, <2>1, <2>2, ClosedForms
<1>3. CASE SignApproval \/ SignRelease
  <2>1. /\ do.at \in {"approve", "release"}
        /\ \/ ApproveMilestone(do.milestone) \/ ReleaseMilestone(do.milestone)
           \/ UNCHANGED chainVars
        /\ \E step \in {"check", "report"} : Go("approve", [do EXCEPT !.at = step])
        /\ UNCHANGED <<applied, rows>>
    BY <1>3 DEF SignApproval, SignRelease, At, Mined
  <2>2. /\ do.milestone \in Milestones
        /\ \A step \in {"check", "report"} : [do EXCEPT !.at = step] \in ApprovalForms
    BY <1>t, <2>1, FormParts
  <2>3. Moved
    <3>1. CASE ApproveMilestone(do.milestone)
      BY <1>t, <2>2, <3>1, ApproveMilestoneMoves
    <3>2. CASE ReleaseMilestone(do.milestone)
      BY <1>t, <2>2, <3>2, ReleaseMilestoneMoves
    <3>3. CASE UNCHANGED chainVars
      BY <1>t, <3>3, NothingMoves DEF chainVars
    <3> QED  BY <2>1, <3>1, <3>2, <3>3
  <2> QED  BY <1>m, <2>1, <2>2, <2>3
<1>4. CASE StoreReview
  <2>1. /\ do.at = "write" /\ rows' = WriteApproval(rows, do.milestone, do.submission)
        /\ Go("approve", [do EXCEPT !.at = "count"]) /\ UNCHANGED <<chainVars, applied>>
    BY <1>4 DEF StoreReview, At
  <2>2. do.milestone \in Milestones /\ [do EXCEPT !.at = "count"] \in ApprovalForms
    BY <1>t, <2>1, FormParts
  <2>3. AfterReview(rows, rows', do.milestone)
    BY <1>t, <2>1, <2>2, WriteApprovalRow
  <2>4. PagesTyped' /\ page'["fund"] = page["fund"]
    BY <1>g, <2>1, <2>2
  <2>5. applied' \in 0..Len(events) /\ UNCHANGED chainVars
    BY <2>1 DEF BaseInv
  <2>6. rows' \in Rows /\ \A i \in Milestones : rows'.milestone[i] = "FUNDED" =>
                            rows.milestone[i] = "FUNDED"
    BY <2>3 DEF AfterReview
  <2> QED  BY <2>4, <2>5, <2>6, WritesKeep DEF BaseInv
<1>5. CASE CountReleased
  <2>1. OnRows("approve", [at |-> "status", status |-> StatusAfterReview(rows)])
    BY <1>5 DEF CountReleased
  <2>2. [at |-> "status", status |-> StatusAfterReview(rows)] \in ApprovalForms
    BY DEF ApprovalForms, StatusAfterReview, ProjectRowStatus
  <2> QED  BY <1>p, <2>1, <2>2
<1>6. CASE StoreReviewStatus
  <2>1. /\ At("approve", "status") /\ rows' = [rows EXCEPT !.status = do.status]
        /\ Go("approve", Closed) /\ UNCHANGED <<chainVars, applied>>
    BY <1>6 DEF StoreReviewStatus
  <2>2. do.status \in ProjectRowStatus
    BY <1>t, <2>1, FormParts
  <2>3. rows' \in Rows /\ rows'.milestone = rows.milestone
    BY <1>t, <2>1, <2>2 DEF Rows
  <2>4. PagesTyped' /\ page'["fund"] = page["fund"]
    BY <1>g, <2>1, ClosedForms
  <2>5. applied' \in 0..Len(events) /\ UNCHANGED chainVars
    BY <2>1 DEF BaseInv
  <2> QED  BY <2>3, <2>4, <2>5, WritesKeep DEF BaseInv
<1> QED  BY <1>1, <1>2, <1>3, <1>4, <1>5, <1>6 DEF ApprovalPanel

(* The dispute panel raises a dispute and writes it.                        *)
LEMMA DisputePanelKeepsBase ==
  ASSUME BaseInv, DisputePanel
  PROVE  BaseInv'
<1> DEFINE do == page["dispute"]
<1>t. PagesTyped /\ rows \in Rows /\ ChainOK /\ EventsTrue
  BY DEF BaseInv
<1>g. ASSUME NEW f \in DisputeForms, Go("dispute", f)
      PROVE  PagesTyped' /\ page'["fund"] = page["fund"]
  BY <1>t, <1>g, GoDispute DEF Pages
<1>p. ASSUME NEW f \in DisputeForms, OnRows("dispute", f)
      PROVE  BaseInv'
  <2>1. Go("dispute", f) /\ UNCHANGED <<chainVars, applied, rows>>
    BY <1>p DEF OnRows
  <2> QED  BY <1>g, <2>1, PageMovesKeep DEF BaseInv
<1>1. CASE OpenDispute
  <2>1. PICK i \in Milestones : OnRows("dispute", [at |-> "preflight", milestone |-> i])
    BY <1>1 DEF OpenDispute
  <2>2. [at |-> "preflight", milestone |-> i] \in DisputeForms
    BY DEF DisputeForms
  <2> QED  BY <1>p, <2>1, <2>2
<1>2. CASE CheckDispute \/ ReadDispute
  <2>1. /\ do.at \in {"preflight", "report"}
        /\ \/ \E step \in {"raise", "write"} : OnRows("dispute", [do EXCEPT !.at = step])
           \/ OnRows("dispute", Closed)
    BY <1>2 DEF CheckDispute, ReadDispute, At, Advance, Refuse
  <2>2. \A step \in {"raise", "write"} : [do EXCEPT !.at = step] \in DisputeForms
    BY <1>t, <2>1, FormParts
  <2> QED  BY <1>p, <2>1, <2>2, ClosedForms
<1>3. CASE SignDispute
  <2>1. /\ do.at = "raise"
        /\ RaiseDispute(do.milestone) \/ UNCHANGED chainVars
        /\ Go("dispute", [do EXCEPT !.at = "report"]) /\ UNCHANGED <<applied, rows>>
    BY <1>3 DEF SignDispute, At, Mined
  <2>2. do.milestone \in Milestones /\ [do EXCEPT !.at = "report"] \in DisputeForms
    BY <1>t, <2>1, FormParts
  <2>3. Moved
    <3>1. CASE RaiseDispute(do.milestone)
      BY <1>t, <2>2, <3>1, RaiseDisputeMoves
    <3>2. CASE UNCHANGED chainVars
      BY <1>t, <3>2, NothingMoves DEF chainVars
    <3> QED  BY <2>1, <3>1, <3>2
  <2>4. PagesTyped' /\ page'["fund"] = page["fund"]
    BY <1>g, <2>1, <2>2
  <2>5. FundSound(page["fund"], funded')
    BY <1>t, <2>3, FundSoundGrows DEF BaseInv, PagesTyped
  <2> QED  BY <2>1, <2>3, <2>4, <2>5, ChainMovesKeep
<1>4. CASE StoreDispute
  <2>1. /\ do.at = "write" /\ rows' = WriteDispute(rows, do.milestone)
        /\ Go("dispute", Closed) /\ UNCHANGED <<chainVars, applied>>
    BY <1>4 DEF StoreDispute, At
  <2>2. do.milestone \in Milestones
    BY <1>t, <2>1, FormParts
  <2>3. AfterDispute(rows, rows', do.milestone)
    BY <1>t, <2>1, <2>2, WriteDisputeRow
  <2>4. PagesTyped' /\ page'["fund"] = page["fund"]
    BY <1>g, <2>1, ClosedForms
  <2>5. applied' \in 0..Len(events) /\ UNCHANGED chainVars
    BY <2>1 DEF BaseInv
  <2>6. rows' \in Rows /\ \A i \in Milestones : rows'.milestone[i] = "FUNDED" =>
                            rows.milestone[i] = "FUNDED"
    BY <2>3 DEF AfterDispute
  <2> QED  BY <2>4, <2>5, <2>6, WritesKeep DEF BaseInv
<1> QED  BY <1>1, <1>2, <1>3, <1>4 DEF DisputePanel

(* The funding panel deposits, reads the total and writes what it covers:   *)
(* by then the total may only be larger.                                    *)
LEMMA FundingPanelKeepsBase ==
  ASSUME BaseInv, FundingPanel
  PROVE  BaseInv'
<1> DEFINE do == page["fund"]
<1>t. PagesTyped /\ rows \in Rows /\ ChainOK /\ EventsTrue
  BY DEF BaseInv
<1>g. ASSUME NEW f \in FundForms, Go("fund", f)
      PROVE  PagesTyped' /\ page'["fund"] = f
  BY <1>t, <1>g, GoFund DEF Pages
<1>p. ASSUME NEW f \in FundForms, OnRows("fund", f), FundSound(f, funded)
      PROVE  BaseInv'
  <2>1. Go("fund", f) /\ UNCHANGED <<chainVars, applied, rows>>
    BY <1>p DEF OnRows
  <2> QED  BY <1>g, <1>p, <2>1, PageMovesKeep
<1>1. CASE OpenFunding
  <2>1. PICK amount \in Deposits : OnRows("fund", [at |-> "fund", amount |-> amount])
    BY <1>1 DEF OpenFunding
  <2>2. [at |-> "fund", amount |-> amount] \in FundForms
    BY DEF FundForms
  <2> QED  BY <1>p, <2>1, <2>2 DEF FundSound
<1>2. CASE SignFunding
  <2>1. /\ At("fund", "fund")
        /\ FundProject(do.amount) \/ UNCHANGED chainVars
        /\ Go("fund", [at |-> "total"]) /\ UNCHANGED <<applied, rows>>
    BY <1>2 DEF SignFunding, Mined
  <2>2. do.amount \in Deposits
    BY <1>t, <2>1, FormParts
  <2>3. Moved
    <3>1. CASE FundProject(do.amount)
      BY <1>t, <2>2, <3>1, FundProjectMoves
    <3>2. CASE UNCHANGED chainVars
      BY <1>t, <3>2, NothingMoves DEF chainVars
    <3> QED  BY <2>1, <3>1, <3>2
  <2>4. [at |-> "total"] \in FundForms
    BY DEF FundForms
  <2>5. PagesTyped' /\ page'["fund"] = [at |-> "total"]
    BY <1>g, <2>1, <2>4
  <2>6. FundSound(page'["fund"], funded')
    BY <2>5 DEF FundSound
  <2> QED  BY <2>1, <2>3, <2>5, <2>6, ChainMovesKeep
<1>3. CASE ReadFunded
  <2>1. OnRows("fund", [at |-> "report", funded |-> funded])
    BY <1>3 DEF ReadFunded
  <2>2. funded \in Nat
    BY <1>t DEF ChainOK
  <2>3. [at |-> "report", funded |-> funded] \in FundForms
    BY <2>2 DEF FundForms
  <2>4. FundSound([at |-> "report", funded |-> funded], funded)
    BY <2>2 DEF FundSound
  <2> QED  BY <1>p, <2>1, <2>3, <2>4
<1>4. CASE ReadMilestones
  <2> DEFINE f == [at |-> "write", funded |-> do.funded, seen |-> rows.milestone]
  <2>1. At("fund", "report") /\ OnRows("fund", f)
    BY <1>4 DEF ReadMilestones
  <2>2. do.funded \in Nat /\ do.funded <= funded
    BY <1>t, <2>1, FormParts DEF At, BaseInv, FundSound
  <2>3. f \in FundForms /\ FundSound(f, funded)
    BY <1>t, <2>2 DEF FundForms, FundSound, Rows
  <2> QED  BY <1>p, <2>1, <2>3
<1>5. CASE StoreFunding
  <2>1. /\ At("fund", "write") /\ rows' = WriteFunding(rows, do.seen, do.funded)
        /\ Go("fund", Closed) /\ UNCHANGED <<chainVars, applied>>
    BY <1>5 DEF StoreFunding
  <2>2. do.funded \in Nat /\ do.seen \in MilestoneRows /\ do.funded <= funded
    BY <1>t, <2>1, FormParts DEF At, BaseInv, FundSound
  <2>3. AfterFundingReport(rows, rows', do.funded)
    BY <1>t, <2>1, <2>2, WriteFundingRow
  <2>4. PagesTyped' /\ page'["fund"] = Closed
    BY <1>g, <2>1, ClosedForms
  <2>5. applied' \in 0..Len(events) /\ UNCHANGED chainVars
    BY <2>1 DEF BaseInv
  <2>6. ASSUME NEW i \in Milestones, rows'.milestone[i] = "FUNDED"
        PROVE  rows.milestone[i] = "FUNDED" \/ funded >= Cost[i + 1]
    <3>1. Cost[i + 1] \in Nat /\ funded \in Nat
      BY <1>t, MilestoneConstants DEF ChainOK
    <3> QED  BY <2>2, <2>3, <2>6, <3>1 DEF AfterFundingReport
  <2>7. FundSound(page'["fund"], funded)
    BY <2>4, ClosedForms DEF FundSound
  <2>8. rows' \in Rows
    BY <2>3 DEF AfterFundingReport
  <2> QED  BY <2>4, <2>5, <2>6, <2>7, <2>8, WritesKeep
<1> QED  BY <1>1, <1>2, <1>3, <1>4, <1>5 DEF FundingPanel

(* The queue votes and writes the decision.                                 *)
LEMMA DisputeQueueKeepsBase ==
  ASSUME BaseInv, DisputeQueue
  PROVE  BaseInv'
<1> DEFINE do == page["admin"]
<1>t. PagesTyped /\ rows \in Rows /\ ChainOK /\ EventsTrue
  BY DEF BaseInv
<1>g. ASSUME NEW f \in AdminForms, Go("admin", f)
      PROVE  PagesTyped' /\ page'["fund"] = page["fund"]
  BY <1>t, <1>g, GoAdmin DEF Pages
<1>p. ASSUME NEW f \in AdminForms, OnRows("admin", f)
      PROVE  BaseInv'
  <2>1. Go("admin", f) /\ UNCHANGED <<chainVars, applied, rows>>
    BY <1>p DEF OnRows
  <2> QED  BY <1>g, <2>1, PageMovesKeep DEF BaseInv
<1>1. CASE OpenResolution
  <2>0. PICK i \in Milestones, a \in Arbiters :
          \E d \in OpenDisputes(rows, i), amount \in {0, 1, Cost[i + 1] - Cost[i]} :
            OnRows("admin", [at |-> "preflight", milestone |-> i, dispute |-> d,
                             arbiter |-> a, amount |-> amount])
    BY <1>1 DEF OpenResolution
  <2>1. PICK d \in OpenDisputes(rows, i), amount \in {0, 1, Cost[i + 1] - Cost[i]} :
          OnRows("admin", [at |-> "preflight", milestone |-> i, dispute |-> d,
                           arbiter |-> a, amount |-> amount])
    BY <2>0
  <2>2. d \in Nat
    BY <1>t DEF OpenDisputes, Rows, DisputeRows, Disputes
  <2>3. amount \in Nat
    <3>1. Cost[i + 1] - Cost[i] \in Nat
      BY MilestoneConstants
    <3> QED  BY <3>1
  <2>4. [at |-> "preflight", milestone |-> i, dispute |-> d, arbiter |-> a, amount |-> amount]
          \in AdminForms
    BY <2>2, <2>3 DEF AdminForms
  <2> QED  BY <1>p, <2>1, <2>4
<1>2. CASE CheckResolution \/ ReadResolution
  <2>1. /\ do.at \in {"preflight", "report"}
        /\ \/ \E step \in {"vote", "write"} : OnRows("admin", [do EXCEPT !.at = step])
           \/ OnRows("admin", Closed)
    BY <1>2 DEF CheckResolution, ReadResolution, At, Advance, Refuse
  <2>2. \A step \in {"vote", "write"} : [do EXCEPT !.at = step] \in AdminForms
    BY <1>t, <2>1, FormParts
  <2> QED  BY <1>p, <2>1, <2>2, ClosedForms
<1>3. CASE SignResolution
  <2>1. /\ do.at = "vote"
        /\ ResolveDispute(do.milestone, do.arbiter, do.amount) \/ UNCHANGED chainVars
        /\ Go("admin", [do EXCEPT !.at = "report"]) /\ UNCHANGED <<applied, rows>>
    BY <1>3 DEF SignResolution, At, Mined
  <2>2. do.milestone \in Milestones /\ [do EXCEPT !.at = "report"] \in AdminForms
    BY <1>t, <2>1, FormParts
  <2>3. Moved
    <3>1. CASE ResolveDispute(do.milestone, do.arbiter, do.amount)
      <4>1. \/ do.amount \in Amounts /\ SettleDispute(do.milestone, do.amount)
            \/ UNCHANGED <<lifecycleVars, events, undo>>
        BY <1>t, <2>2, <3>1, ResolveDisputeMoves
      <4> QED  BY <1>t, <2>2, <4>1, SettleDisputeMoves, NothingMoves
    <3>2. CASE UNCHANGED chainVars
      BY <1>t, <3>2, NothingMoves DEF chainVars
    <3> QED  BY <2>1, <3>1, <3>2
  <2>4. PagesTyped' /\ page'["fund"] = page["fund"]
    BY <1>g, <2>1, <2>2
  <2>5. FundSound(page["fund"], funded')
    BY <1>t, <2>3, FundSoundGrows DEF BaseInv, PagesTyped
  <2> QED  BY <2>1, <2>3, <2>4, <2>5, ChainMovesKeep
<1>4. CASE StoreResolution
  <2>1. /\ do.at = "write"
        /\ rows' = WriteResolution(rows, do.milestone, do.dispute, KindChosen(do))
        /\ Go("admin", Closed) /\ UNCHANGED <<chainVars, applied>>
    BY <1>4 DEF StoreResolution, At, KindChosen
  <2>2. do.milestone \in Milestones
    BY <1>t, <2>1, FormParts
  <2>3. AfterResolution(rows, rows', do.milestone, do.dispute, KindChosen(do))
    BY <1>t, <2>1, <2>2, WriteResolutionRow
  <2>4. PagesTyped' /\ page'["fund"] = page["fund"]
    BY <1>g, <2>1, ClosedForms
  <2>5. applied' \in 0..Len(events) /\ UNCHANGED chainVars
    BY <2>1 DEF BaseInv
  <2>6. rows' \in Rows /\ \A i \in Milestones : rows'.milestone[i] = "FUNDED" =>
                            rows.milestone[i] = "FUNDED"
    BY <2>3, SettledAsIsSettled DEF AfterResolution
  <2> QED  BY <2>4, <2>5, <2>6, WritesKeep DEF BaseInv
<1> QED  BY <1>1, <1>2, <1>3, <1>4 DEF DisputeQueue
(* What event sync does with an event, by its name. *)
Applies(e, r, s) ==
  \/ e.name = "ProjectFunded" /\ e.funded \in Nat /\ AfterFunded(r, s, e.funded)
  \/ /\ e.name # "ProjectFunded" /\ e.name # "ProjectCancelled"
     /\ e.milestone \in Milestones
     /\ \/ e.name = "MilestoneSubmitted" /\ AfterSubmitted(r, s, e.milestone)
        \/ e.name = "MilestoneApproved" /\ AfterApproved(r, s, e.milestone)
        \/ e.name = "MilestoneFundsReleased" /\ AfterReleased(r, s, e.milestone)
        \/ e.name = "DisputeRaised" /\ AfterDisputeRaised(r, s, e.milestone)
        \/ e.name = "DisputeEvidenceAppended" /\ AfterEvidence(r, s)
        \/ e.name = "DisputeResolved" /\ AfterDisputeResolved(r, s, e.milestone, KindAsRead(e.kind))
  \/ e.name = "ProjectCancelled" /\ AfterCancelled(r, s)

(* Event sync does what its handler for an event of that name does.         *)
LEMMA ApplyEventRow ==
  ASSUME NEW r \in Rows, NEW e \in ChainEvents, NEW s, s = ApplyEvent(r, e)
  PROVE  Applies(e, r, s)
<1>1. CASE e \in FundedEvents
  <2>1. s = SyncFunded(r, e.funded) /\ e.name = "ProjectFunded" /\ e.funded \in Nat
    BY <1>1 DEF ApplyEvent, FundedEvents
  <2> QED  BY <2>1, SyncFundedRow DEF Applies
<1>2. CASE e \in SubmittedEvents
  <2>1. /\ s = SyncSubmitted(r, e.milestone, e.uri) /\ e.name = "MilestoneSubmitted"
        /\ e.milestone \in Milestones /\ e.uri \in Nat
    BY <1>2 DEF ApplyEvent, SubmittedEvents
  <2>2. AfterSubmitted(r, s, e.milestone)
    BY <2>1, SyncSubmittedRow
  <2> QED  BY <2>1, <2>2 DEF Applies
<1>3. CASE e \in WorkEvents
  <2>1. /\ e.milestone \in Milestones
        /\ \/ e.name = "MilestoneApproved" /\ s = SyncApproved(r, e.milestone)
           \/ e.name = "DisputeRaised" /\ s = SyncDisputeRaised(r, e.milestone)
           \/ e.name = "DisputeEvidenceAppended" /\ s = SyncEvidence(r, e.milestone)
    BY <1>3 DEF ApplyEvent, WorkEvents
  <2>2. \/ e.name = "MilestoneApproved" /\ AfterApproved(r, s, e.milestone)
        \/ e.name = "DisputeRaised" /\ AfterDisputeRaised(r, s, e.milestone)
        \/ e.name = "DisputeEvidenceAppended" /\ AfterEvidence(r, s)
    BY <2>1, SyncApprovedRow, SyncDisputeRaisedRow, SyncEvidenceRow
  <2> QED  BY <2>1, <2>2 DEF Applies
<1>4. CASE e \in PaymentEvents
  <2>1. /\ s = SyncReleased(r, e.milestone) /\ e.name = "MilestoneFundsReleased"
        /\ e.milestone \in Milestones
    BY <1>4 DEF ApplyEvent, PaymentEvents
  <2>2. AfterReleased(r, s, e.milestone)
    BY <2>1, SyncReleasedRow
  <2> QED  BY <2>1, <2>2 DEF Applies
<1>5. CASE e \in DecisionEvents
  <2>1. /\ s = SyncDisputeResolved(r, e.milestone, e.kind) /\ e.name = "DisputeResolved"
        /\ e.milestone \in Milestones
    BY <1>5 DEF ApplyEvent, DecisionEvents
  <2>2. AfterDisputeResolved(r, s, e.milestone, KindAsRead(e.kind))
    BY <2>1, SyncDisputeResolvedRow
  <2> QED  BY <2>1, <2>2 DEF Applies
<1>6. CASE e \in CancelEvents
  <2>1. s = SyncCancelled(r) /\ e.name = "ProjectCancelled"
    BY <1>6 DEF ApplyEvent, CancelEvents
  <2> QED  BY <2>1, SyncCancelledRow DEF Applies
<1> QED  BY <1>1, <1>2, <1>3, <1>4, <1>5, <1>6 DEF ChainEvents

(* Event sync applies an event, which is true.                              *)
LEMMA SyncEventKeepsBase ==
  ASSUME BaseInv, SyncEvent
  PROVE  BaseInv'
<1> DEFINE e == events[applied + 1]
<1>1. /\ applied < Len(events) /\ applied' = applied + 1
      /\ rows' = ApplyEvent(rows, e) /\ UNCHANGED <<chainVars, page>>
  BY DEF SyncEvent
<1>2. /\ applied + 1 \in 1..Len(events) /\ applied' \in 0..Len(events)
      /\ events \in Seq(ChainEvents)
  BY <1>1 DEF BaseInv, EventsTrue
<1>3. e \in ChainEvents /\ EventTrue(e, funded, next)
  BY <1>2 DEF BaseInv, EventsTrue
<1>4. Applies(e, rows, rows')
  BY <1>1, <1>3, ApplyEventRow DEF BaseInv
<1>5. rows' \in Rows
  BY <1>4 DEF Applies, AfterFunded, AfterSubmitted, AfterApproved, AfterReleased,
       AfterDisputeRaised, AfterEvidence, AfterDisputeResolved, AfterCancelled
<1> HIDE DEF e
<1>6. ASSUME NEW i \in Milestones, rows'.milestone[i] = "FUNDED"
      PROVE  rows.milestone[i] = "FUNDED" \/ funded >= Cost[i + 1]
  <2>1. CASE e.name = "ProjectFunded" /\ e.funded \in Nat /\ AfterFunded(rows, rows', e.funded)
    <3>1. rows.milestone \in MilestoneRows
      BY DEF BaseInv, Rows
    <3>2. rows'.milestone[i] = IF rows.milestone[i] = "PLANNED" /\ e.funded >= Cost[i + 1]
                               THEN "FUNDED" ELSE rows.milestone[i]
      BY <2>1, <3>1, FundedMilestonesRow DEF AfterFunded
    <3>3. e.funded <= funded /\ funded \in Nat /\ Cost[i + 1] \in Nat
      BY <1>3, <2>1, MilestoneConstants DEF EventTrue, BaseInv, ChainOK
    <3> QED  BY <1>6, <2>1, <3>2, <3>3
  <2>2. CASE AfterSubmitted(rows, rows', e.milestone) \/ AfterApproved(rows, rows', e.milestone)
             \/ AfterReleased(rows, rows', e.milestone)
             \/ AfterDisputeRaised(rows, rows', e.milestone)
    BY <1>6, <2>2 DEF AfterSubmitted, AfterApproved, AfterReleased, AfterDisputeRaised
  <2>3. CASE AfterEvidence(rows, rows')
    BY <1>6, <2>3 DEF AfterEvidence
  <2>4. CASE AfterDisputeResolved(rows, rows', e.milestone, KindAsRead(e.kind))
    BY <1>6, <2>4, SettledAsIsSettled DEF AfterDisputeResolved
  <2>5. CASE AfterCancelled(rows, rows')
    BY <1>6, <2>5 DEF AfterCancelled, Settled
  <2> QED  BY <1>4, <2>1, <2>2, <2>3, <2>4, <2>5 DEF Applies
<1>7. PagesTyped' /\ page' = page
  BY <1>1 DEF BaseInv, PagesTyped
<1> QED  BY <1>1, <1>2, <1>5, <1>6, <1>7, WritesKeep DEF BaseInv

(* A page is left.                                                          *)
LEMMA LeaveKeepsBase ==
  ASSUME BaseInv, NEW p \in Pages, Leave(p)
  PROVE  BaseInv'
<1>1. Go(p, Closed) /\ UNCHANGED <<chainVars, applied, rows>>
  BY DEF Leave, Refuse, OnRows
<1>2. PagesTyped' /\ (page'["fund"] = page["fund"] \/ page'["fund"] = Closed)
  BY <1>1, ClosedForms, GoSubmit, GoApprove, GoDispute, GoFund, GoAdmin DEF BaseInv, Pages
<1>3. FundSound(page'["fund"], funded)
  BY <1>2, ClosedForms DEF BaseInv, FundSound
<1> QED  BY <1>1, <1>2, <1>3, PageMovesKeep

(* BaseInv is inductive, as long as no transaction is orphaned.             *)
LEMMA StepKeepsBase ==
  ASSUME ~MayReorg, BaseInv, [Next]_workflowVars
  PROVE  BaseInv'
<1>1. CASE DirectCall
  <2>1. Moved /\ UNCHANGED <<applied, rows, page>>
    BY <1>1, DirectCallMoves DEF BaseInv, DirectCall
  <2>2. PagesTyped' /\ FundSound(page'["fund"], funded')
    BY <2>1, FundSoundGrows DEF BaseInv, PagesTyped
  <2> QED  BY <2>1, <2>2, ChainMovesKeep
<1>2. CASE Reorg
  BY <1>2 DEF Reorg
<1>3. CASE SyncEvent
  BY <1>3, SyncEventKeepsBase
<1>4. CASE PageStep
  BY <1>4, SubmitPageKeepsBase, ApprovalPanelKeepsBase, DisputePanelKeepsBase,
     FundingPanelKeepsBase, DisputeQueueKeepsBase DEF PageStep
<1>5. ASSUME NEW p \in Pages, Leave(p) PROVE BaseInv'
  BY <1>5, LeaveKeepsBase
<1>6. CASE UNCHANGED workflowVars
  <2>1. UNCHANGED <<chainVars, applied, rows, page>>
    BY <1>6 DEF workflowVars
  <2>2. PagesTyped' /\ FundSound(page'["fund"], funded)
    BY <2>1 DEF BaseInv, PagesTyped
  <2> QED  BY <2>1, <2>2, PageMovesKeep
<1> QED  BY <1>1, <1>2, <1>3, <1>4, <1>5, <1>6 DEF Next

(* A project that has just been bound.                                      *)
LEMMA InitIsBase ==
  ASSUME Init
  PROVE  BaseInv
<1>1. /\ stage = "Active" /\ agreement = [count |-> MilestoneCount, cost |-> Cost]
      /\ funded = 0 /\ paid = 0 /\ refunded = 0 /\ next = 0 /\ work = "Pending"
      /\ outcome = [i \in Milestones |-> "Pending"] /\ events = <<>> /\ applied = 0
      /\ rows = NewRows /\ page = [p \in Pages |-> Closed]
  BY MilestoneConstants DEF Init
<1>2. ChainOK
  BY <1>1, MilestoneConstants DEF ChainOK, IsOpen, Milestones
<1>3. EventsTrue /\ applied \in 0..Len(events)
  BY <1>1 DEF EventsTrue
<1>4. rows \in Rows
  <2>1. <<>> \in Deliveries /\ <<>> \in Disputes
    BY DEF Deliveries, Disputes
  <2> QED  BY <1>1, <2>1 DEF NewRows, Rows, MilestoneRows, SubmissionRows, DisputeRows,
                ProjectRowStatus, MilestoneRowStatus
<1>5. PagesTyped
  <2>1. \A p \in Pages : page[p] = Closed
    BY <1>1
  <2>2. Closed \in Forms
    BY ClosedForms DEF Forms
  <2> QED  BY <1>1, <2>1, <2>2, ClosedForms DEF PagesTyped, Pages
<1>6. FundSound(page["fund"], funded)
  BY <1>1, ClosedForms DEF FundSound, Pages
<1>7. FundedMeansDeposited
  BY <1>1 DEF FundedMeansDeposited, NewRows
<1> QED  BY <1>2, <1>3, <1>4, <1>5, <1>6, <1>7 DEF BaseInv

(* FundedMeansDeposited: as long as no transaction is orphaned, the         *)
(* database never invites work (milestone status FUNDED, set by event sync  *)
(* and by the funding panel's report from totals either may have read long  *)
(* before) for money that is not in escrow.  Pages of every kind may be     *)
(* open, be overtaken by any calls and be left half way.                    *)
THEOREM FundedStaysDeposited ==
  ASSUME ~MayReorg
  PROVE  Spec => []FundedMeansDeposited
<1>1. Init => BaseInv
  BY InitIsBase
<1>2. BaseInv /\ [Next]_workflowVars => BaseInv'
  BY StepKeepsBase
<1>3. BaseInv => FundedMeansDeposited
  BY DEF BaseInv
<1> QED  BY <1>1, <1>2, <1>3, PTL DEF Spec
-----------------------------------------------------------------------------
(* Nothing the rows say runs ahead of the chain, if pages that rely on what *)
(* they saw of a dispute are not overtaken: no dispute is raised beside the *)
(* approval panel, and the dispute queue alone decides disputes.            *)
PagesActAlone ==
  /\ ~MayReorg
  /\ "approve" \in OpenPages => "dispute" \notin OpenPages /\ "raiseDispute" \notin Direct
  /\ "admin" \in OpenPages =>
       /\ Threshold = 1
       /\ "raiseDispute" \notin Direct /\ "resolveDispute" \notin Direct
       /\ "emergencyResolveDispute" \notin Direct

(* Only pages somebody opens are at work.                                   *)
PagesOpened == \A p \in Pages : page[p].at # "closed" => p \in OpenPages

(* So there are no disputes beside approvals, none about missing work, and  *)
(* no votes that wait beside the queue.                                     *)
CallsApart ==
  /\ "approve" \in OpenPages => stage # "Disputed"
  /\ "raiseDispute" \notin Direct /\ stage = "Disputed" => work # "Pending"
  /\ "admin" \in OpenPages => votes = {}

(* What a form relies on holds of a chain with n milestones settled, the    *)
(* project in stage s, work w on the next one and these events.             *)
ApprovalHolds(f, n, s, w) ==
  /\ f.at = "release" =>
       f.milestone < n \/ (f.milestone = n /\ s = "Active" /\ w = "Approved")
  /\ f.at \in {"report", "write"} => f.milestone < n

(* A dispute is about delivered work, if the milestone is not settled by    *)
(* then.                                                                    *)
DisputeHolds(f, n, w) ==
  f.at = "raise" => f.milestone < n \/ (f.milestone = n /\ w # "Pending")

(* A log holds a decision of this milestone with this outcome, or one that  *)
(* event sync reads so.                                                     *)
Decided(i, status, log) ==
  \E e \in DOMAIN log :
    /\ log[e].name = "DisputeResolved" /\ log[e].milestone = i
    /\ status \in {ResolvedStatus(log[e].kind), ResolvedStatus(KindAsRead(log[e].kind))}

(* The queue votes on the dispute of the next milestone, and reports what   *)
(* was decided.                                                             *)
AdminHolds(f, n, s, log) ==
  /\ f.at \in {"preflight", "vote"} =>
       f.amount \in {0, 1, Cost[f.milestone + 1] - Cost[f.milestone]}
  /\ f.at = "vote" => f.milestone = n /\ s = "Disputed"
  /\ f.at \in {"report", "write"} =>
       f.milestone < n /\ Decided(f.milestone, ResolvedStatus(KindChosen(f)), log)

(* The strengthening: what every form that has gone past its look at the    *)
(* chain relies on is still so, and the rows are behind the chain.          *)
AheadInv ==
  /\ PagesOpened /\ CallsApart
  /\ ApprovalHolds(page["approve"], next, stage, work)
  /\ DisputeHolds(page["dispute"], next, work)
  /\ AdminHolds(page["admin"], next, stage, events)
  /\ NothingPaidAhead /\ ResolvedMeansDecided

(* What a transaction of one of the pages or calls does then.               *)
MovedAlone ==
  /\ Moved /\ CallsApart'
  /\ "admin" \in OpenPages /\ stage = "Disputed" => stage' = "Disputed" /\ next' = next

(* A page goes on.                                                          *)
LEMMA OpenedStays ==
  ASSUME PagesTyped, PagesOpened, NEW p \in Pages, NEW f \in Forms, Go(p, f),
         f.at = "closed" \/ p \in OpenPages
  PROVE  PagesOpened'
BY GoForm DEF PagesOpened

(* What was decided stays decided.                                          *)
LEMMA DecidedStays ==
  ASSUME EventsTrue, Moved, NEW i, NEW status, Decided(i, status, events)
  PROVE  Decided(i, status, events')
<1>1. PICK e \in DOMAIN events :
        /\ events[e].name = "DisputeResolved" /\ events[e].milestone = i
        /\ status \in {ResolvedStatus(events[e].kind), ResolvedStatus(KindAsRead(events[e].kind))}
  BY DEF Decided
<1>2. e \in DOMAIN events' /\ events'[e] = events[e]
  BY DEF EventsTrue, Moved, Grows
<1> QED  BY <1>1, <1>2 DEF Decided

(* What the approval panel relies on stays so when the chain moves: a       *)
(* pointer past its milestone does not come back.                           *)
LEMMA ApprovalStays ==
  ASSUME ChainOK, Moved, CallsApart', "approve" \in OpenPages, NEW f \in ApprovalForms,
         ApprovalHolds(f, next, stage, work)
  PROVE  ApprovalHolds(f, next', stage', work')
<1>1. next \in Nat /\ next' \in Nat /\ next <= next'
  BY MilestoneConstants DEF ChainOK, Moved, Grows
<1>2. f.at \in {"release", "report", "write"} => f.milestone \in Nat
  BY DEF ApprovalForms, Closed, Milestones
<1>3. next' = next /\ stage = "Active" => stage' = "Active"
  BY DEF ChainOK, Moved, IsOpen, CallsApart
<1>4. next' = next /\ work = "Approved" => work' = "Approved"
  BY DEF Moved, Grows
<1> QED  BY <1>1, <1>2, <1>3, <1>4 DEF ApprovalHolds

(* So does what the dispute panel relies on.                                *)
LEMMA DisputeStays ==
  ASSUME ChainOK, Moved, NEW f \in DisputeForms, DisputeHolds(f, next, work)
  PROVE  DisputeHolds(f, next', work')
<1>1. next \in Nat /\ next' \in Nat /\ next <= next'
  BY MilestoneConstants DEF ChainOK, Moved, Grows
<1>2. f.at = "raise" => f.milestone \in Nat
  BY DEF DisputeForms, Closed, Milestones
<1>3. next' = next /\ work # "Pending" => work' # "Pending"
  BY DEF Moved, Grows
<1> QED  BY <1>1, <1>2, <1>3 DEF DisputeHolds

(* So does what the queue relies on: nobody else decides.                   *)
LEMMA AdminStays ==
  ASSUME ChainOK, EventsTrue, MovedAlone, "admin" \in OpenPages, NEW f \in AdminForms,
         AdminHolds(f, next, stage, events)
  PROVE  AdminHolds(f, next', stage', events')
<1>1. next \in Nat /\ next' \in Nat /\ next <= next'
  BY MilestoneConstants DEF ChainOK, MovedAlone, Moved, Grows
<1>2. f.at \in {"report", "write"} => f.milestone \in Nat
  BY DEF AdminForms, Closed, Milestones
<1>3. stage = "Disputed" => stage' = "Disputed" /\ next' = next
  BY DEF MovedAlone
<1>4. Decided(f.milestone, ResolvedStatus(KindChosen(f)), events)
        => Decided(f.milestone, ResolvedStatus(KindChosen(f)), events')
  BY DecidedStays DEF MovedAlone
<1> QED  BY <1>1, <1>2, <1>3, <1>4 DEF AdminHolds

(* Rows that are behind the chain stay so when the chain moves.             *)
LEMMA RowsStayBehind ==
  ASSUME ChainOK, EventsTrue, Moved, rows' = rows, NothingPaidAhead, ResolvedMeansDecided
  PROVE  NothingPaidAhead' /\ ResolvedMeansDecided'
<1>1. next \in Nat /\ next' \in Nat /\ next <= next'
  BY MilestoneConstants DEF ChainOK, Moved, Grows
<1>2. NothingPaidAhead'
  BY <1>1 DEF NothingPaidAhead, Milestones
<1>3. ASSUME NEW i \in Milestones, NEW d \in DOMAIN rows.disputes[i],
             rows.disputes[i][d].status # "OPEN"
      PROVE  Decided(i, rows.disputes[i][d].status, events')
  <2>1. Decided(i, rows.disputes[i][d].status, events)
    BY <1>3 DEF ResolvedMeansDecided, Decided
  <2> QED  BY <2>1, DecidedStays
<1>4. ResolvedMeansDecided'
  BY <1>3 DEF ResolvedMeansDecided, Decided
<1> QED  BY <1>2, <1>4

(* A form that is closed relies on nothing.                                 *)
LEMMA ClosedRelies ==
  ASSUME NEW f, f.at = "closed", NEW n, NEW s, NEW w, NEW log
  PROVE  ApprovalHolds(f, n, s, w) /\ DisputeHolds(f, n, w) /\ AdminHolds(f, n, s, log)
BY DEF ApprovalHolds, DisputeHolds, AdminHolds

(* The chain moves; every form still relies on what is so.                  *)
LEMMA SoundStays ==
  ASSUME BaseInv, AheadInv, MovedAlone
  PROVE  /\ ApprovalHolds(page["approve"], next', stage', work')
         /\ DisputeHolds(page["dispute"], next', work')
         /\ AdminHolds(page["admin"], next', stage', events')
<1>1. /\ page["approve"] \in ApprovalForms /\ page["dispute"] \in DisputeForms
      /\ page["admin"] \in AdminForms /\ ChainOK /\ EventsTrue
  BY DEF BaseInv, PagesTyped
<1>2. /\ page["approve"].at # "closed" => "approve" \in OpenPages
      /\ page["admin"].at # "closed" => "admin" \in OpenPages
  BY DEF AheadInv, PagesOpened, Pages
<1>3. ApprovalHolds(page["approve"], next', stage', work')
  BY <1>1, <1>2, ApprovalStays, ClosedRelies DEF AheadInv, MovedAlone
<1>4. DisputeHolds(page["dispute"], next', work')
  BY <1>1, DisputeStays DEF AheadInv, MovedAlone
<1>5. AdminHolds(page["admin"], next', stage', events')
  BY <1>1, <1>2, AdminStays, ClosedRelies DEF AheadInv
<1> QED  BY <1>3, <1>4, <1>5

(* A transaction that reverts.                                              *)
LEMMA NothingMovesAlone ==
  ASSUME ChainOK, EventsTrue, CallsApart, UNCHANGED <<lifecycleVars, events, votes>>
  PROVE  MovedAlone
<1>1. Moved
  BY NothingMoves
<1>2. stage' = stage /\ work' = work /\ votes' = votes /\ next' = next
  BY DEF lifecycleVars
<1> QED  BY <1>1, <1>2 DEF MovedAlone, CallsApart

(* A transaction is mined, or reverts, and the page goes on.                *)
LEMMA ChainKeepsAhead ==
  ASSUME BaseInv, AheadInv, Moved, CallsApart', UNCHANGED rows, PagesOpened',
         ApprovalHolds(page'["approve"], next', stage', work'),
         DisputeHolds(page'["dispute"], next', work'),
         AdminHolds(page'["admin"], next', stage', events')
  PROVE  AheadInv'
<1>1. NothingPaidAhead' /\ ResolvedMeansDecided'
  BY RowsStayBehind DEF BaseInv, AheadInv
<1> QED  BY <1>1 DEF AheadInv

(* A page moves, or rows are written.                                       *)
LEMMA WritesKeepAhead ==
  ASSUME BaseInv, AheadInv, UNCHANGED chainVars, PagesOpened',
         ApprovalHolds(page'["approve"], next, stage, work),
         DisputeHolds(page'["dispute"], next, work),
         AdminHolds(page'["admin"], next, stage, events),
         NothingPaidAhead', ResolvedMeansDecided'
  PROVE  AheadInv'
<1>1. next' = next /\ stage' = stage /\ work' = work /\ events' = events /\ votes' = votes
  BY DEF chainVars, lifecycleVars
<1> QED  BY <1>1 DEF AheadInv, CallsApart

(* A page moves, the rows stay.                                             *)
LEMMA PageKeepsAhead ==
  ASSUME BaseInv, AheadInv, UNCHANGED <<chainVars, rows>>, PagesOpened',
         ApprovalHolds(page'["approve"], next, stage, work),
         DisputeHolds(page'["dispute"], next, work),
         AdminHolds(page'["admin"], next, stage, events)
  PROVE  AheadInv'
<1>1. next' = next /\ events' = events
  BY DEF chainVars, lifecycleVars
<1>2. NothingPaidAhead' /\ ResolvedMeansDecided'
  BY <1>1 DEF AheadInv, NothingPaidAhead, ResolvedMeansDecided
<1> QED  BY <1>2, WritesKeepAhead

(* Rows are written that settle milestones and disputes for good reasons.   *)
LEMMA WrittenRowsStayBehind ==
  ASSUME BaseInv, AheadInv, UNCHANGED chainVars,
         \A i \in Milestones :
           rows'.milestone[i] \in Settled => rows.milestone[i] \in Settled \/ i < next,
         \A i \in Milestones : \A d \in DOMAIN rows'.disputes[i] :
           rows'.disputes[i][d].status # "OPEN" =>
             \/ d \in DOMAIN rows.disputes[i]
                /\ rows'.disputes[i][d].status = rows.disputes[i][d].status
             \/ Decided(i, rows'.disputes[i][d].status, events)
  PROVE  NothingPaidAhead' /\ ResolvedMeansDecided'
<1>1. next' = next /\ events' = events
  BY DEF chainVars, lifecycleVars
<1>2. NothingPaidAhead'
  BY <1>1 DEF AheadInv, NothingPaidAhead
<1>3. ASSUME NEW i \in Milestones, NEW d \in DOMAIN rows'.disputes[i],
             rows'.disputes[i][d].status # "OPEN"
      PROVE  Decided(i, rows'.disputes[i][d].status, events)
  BY <1>3 DEF AheadInv, ResolvedMeansDecided, Decided
<1>4. ResolvedMeansDecided'
  BY <1>1, <1>3 DEF ResolvedMeansDecided, Decided
<1> QED  BY <1>2, <1>4

-----------------------------------------------------------------------------
(* The transactions, where pages act alone.                                *)

(* A deposit.                                                               *)
LEMMA FundProjectAlone ==
  ASSUME BaseInv, CallsApart, NEW amount \in Deposits, FundProject(amount)
  PROVE  MovedAlone
<1>1. Moved
  BY FundProjectMoves DEF BaseInv
<1>2. stage' = stage /\ work' = work /\ next' = next /\ votes' = votes
  BY DEF FundProject, Deposit
<1> QED  BY <1>1, <1>2 DEF MovedAlone, CallsApart

(* Delivery, approval and payment happen outside disputes.                 *)
LEMMA WorkAlone ==
  ASSUME BaseInv, CallsApart, NEW i \in Milestones, NEW uri \in Nat,
         SubmitMilestone(i, uri) \/ ApproveMilestone(i) \/ ReleaseMilestone(i)
  PROVE  MovedAlone
<1>1. ChainOK /\ EventsTrue
  BY DEF BaseInv
<1>2. Moved /\ stage = "Active" /\ stage' # "Disputed" /\ votes' = votes
  <2>1. CASE SubmitMilestone(i, uri)
    BY <1>1, <2>1, SubmitMilestoneMoves
  <2>2. CASE ApproveMilestone(i)
    BY <1>1, <2>2, ApproveMilestoneMoves
  <2>3. CASE ReleaseMilestone(i)
    BY <1>1, <2>3, ReleaseMilestoneMoves
  <2> QED  BY <2>1, <2>2, <2>3
<1> QED  BY <1>2 DEF MovedAlone, CallsApart

(* A dispute is raised, of delivered work, and not beside approvals.        *)
LEMMA RaiseDisputeAlone ==
  ASSUME BaseInv, CallsApart, NEW i \in Milestones, RaiseDispute(i),
         "approve" \notin OpenPages, "raiseDispute" \in Direct \/ work # "Pending"
  PROVE  MovedAlone
<1>1. Moved /\ stage = "Active" /\ work' = work /\ votes' = votes
  BY RaiseDisputeMoves DEF BaseInv
<1> QED  BY <1>1 DEF MovedAlone, CallsApart

(* Evidence is appended.                                                    *)
LEMMA AppendDisputeEvidenceAlone ==
  ASSUME BaseInv, CallsApart, NEW i \in Milestones, AppendDisputeEvidence(i)
  PROVE  MovedAlone
<1>1. Moved /\ UNCHANGED <<lifecycleVars, votes>>
  BY AppendDisputeEvidenceMoves DEF BaseInv
<1>2. stage' = stage /\ work' = work /\ next' = next /\ votes' = votes
  BY <1>1 DEF lifecycleVars
<1> QED  BY <1>1, <1>2 DEF MovedAlone, CallsApart

(* Decided beside the queue. *)
LEMMA DecisionAlone ==
  ASSUME BaseInv, CallsApart, NEW i \in Milestones, NEW a, NEW amount \in Amounts,
         SettleDispute(i, amount) \/ ResolveDispute(i, a, amount),
         "admin" \notin OpenPages
  PROVE  MovedAlone
<1>1. ChainOK /\ EventsTrue
  BY DEF BaseInv
<1>2. CASE SettleDispute(i, amount)
  <2>1. Moved /\ stage' # "Disputed" /\ stage = "Disputed"
    BY <1>1, <1>2, SettleDisputeMoves
  <2> QED  BY <2>1 DEF MovedAlone, CallsApart
<1>3. CASE UNCHANGED <<lifecycleVars, events, undo>>
  <2>1. Moved /\ stage' = stage /\ work' = work
    BY <1>1, <1>3, NothingMoves DEF lifecycleVars
  <2> QED  BY <2>1 DEF MovedAlone, CallsApart
<1>4. SettleDispute(i, amount) \/ UNCHANGED <<lifecycleVars, events, undo>>
  BY <1>1, ResolveDisputeMoves
<1> QED  BY <1>2, <1>3, <1>4

(* A project is called off.                                                 *)
LEMMA CancelProjectAlone ==
  ASSUME PagesActAlone, BaseInv, CallsApart, CancelProject
  PROVE  MovedAlone
<1>1. /\ Moved /\ votes' = {} /\ stage' = "Cancelled"
      /\ stage = "Disputed" => work = "Pending"
  BY CancelProjectMoves DEF BaseInv
<1>2. "admin" \in OpenPages => stage # "Disputed"
  BY <1>1 DEF PagesActAlone, CallsApart
<1> QED  BY <1>1, <1>2 DEF MovedAlone, CallsApart

(* Any call no page reports.                                                *)
LEMMA DirectCallAlone ==
  ASSUME PagesActAlone, BaseInv, CallsApart, DirectCall
  PROVE  MovedAlone
<1>1. ASSUME NEW amount \in Deposits, FundProject(amount) PROVE MovedAlone
  BY <1>1, FundProjectAlone
<1>2. ASSUME NEW i \in Milestones,
             SubmitMilestone(i, 0) \/ ApproveMilestone(i) \/ ReleaseMilestone(i)
      PROVE  MovedAlone
  BY <1>2, WorkAlone
<1>3. ASSUME NEW i \in Milestones, "raiseDispute" \in Direct, RaiseDispute(i)
      PROVE  MovedAlone
  BY <1>3, RaiseDisputeAlone DEF PagesActAlone
<1>4. ASSUME NEW i \in Milestones, AppendDisputeEvidence(i) PROVE MovedAlone
  BY <1>4, AppendDisputeEvidenceAlone
<1>5. ASSUME NEW i \in Milestones, NEW a \in Arbiters, NEW amount \in Amounts,
             \/ "resolveDispute" \in Direct /\ ResolveDispute(i, a, amount)
             \/ "emergencyResolveDispute" \in Direct /\ SettleDispute(i, amount)
      PROVE  MovedAlone
  <2>1. "admin" \notin OpenPages
    BY <1>5 DEF PagesActAlone
  <2> QED  BY <1>5, <2>1, DecisionAlone
<1>6. CASE CancelProject
  BY <1>6, CancelProjectAlone
<1>7. ASSUME NEW i \in Milestones, NEW amount \in Amounts,
             "emergencyResolveDispute" \in Direct, SettleDispute(i, amount)
      PROVE  MovedAlone
  <2>1. "admin" \notin OpenPages
    BY <1>7 DEF PagesActAlone
  <2> QED  BY <1>7, <2>1, DecisionAlone
<1> QED  BY <1>1, <1>2, <1>3, <1>4, <1>5, <1>6, <1>7 DEF DirectCall

-----------------------------------------------------------------------------
(* Every step keeps the rows behind the chain.                             *)

(* The forms of the other pages stay as they are. *)
LEMMA GoKeepsSound ==
  ASSUME PagesTyped, NEW p \in Pages, NEW f \in Forms, Go(p, f),
         NEW n, NEW s, NEW w, NEW log,
         ApprovalHolds(page["approve"], n, s, w), DisputeHolds(page["dispute"], n, w),
         AdminHolds(page["admin"], n, s, log),
         p = "approve" => ApprovalHolds(f, n, s, w),
         p = "dispute" => DisputeHolds(f, n, w),
         p = "admin" => AdminHolds(f, n, s, log)
  PROVE  /\ ApprovalHolds(page'["approve"], n, s, w)
         /\ DisputeHolds(page'["dispute"], n, w)
         /\ AdminHolds(page'["admin"], n, s, log)
<1>1. page'[p] = f /\ \A q \in Pages : q # p => page'[q] = page[q]
  BY GoForm
<1>2. "approve" \in Pages /\ "dispute" \in Pages /\ "admin" \in Pages
  BY DEF Pages
<1> QED  BY <1>1, <1>2

(* A page shows what it has read. *)
LEMMA OnRowsKeepsAhead ==
  ASSUME BaseInv, AheadInv, NEW p \in Pages, NEW f \in Forms, OnRows(p, f),
         f.at = "closed" \/ p \in OpenPages,
         p = "approve" => ApprovalHolds(f, next, stage, work),
         p = "dispute" => DisputeHolds(f, next, work),
         p = "admin" => AdminHolds(f, next, stage, events)
  PROVE  AheadInv'
<1>1. Go(p, f) /\ UNCHANGED <<chainVars, rows>>
  BY DEF OnRows
<1>2. PagesTyped /\ PagesOpened
  BY DEF BaseInv, AheadInv
<1>3. PagesOpened'
  BY <1>1, <1>2, OpenedStays
<1>4. /\ ApprovalHolds(page'["approve"], next, stage, work)
      /\ DisputeHolds(page'["dispute"], next, work)
      /\ AdminHolds(page'["admin"], next, stage, events)
  BY <1>1, <1>2, GoKeepsSound DEF AheadInv
<1> QED  BY <1>1, <1>3, <1>4, PageKeepsAhead

(* A page is told of a receipt. *)
LEMMA MinedKeepsAhead ==
  ASSUME BaseInv, AheadInv, NEW p \in Pages, NEW f \in Forms, Go(p, f), MovedAlone,
         UNCHANGED rows, f.at = "closed" \/ p \in OpenPages,
         p = "approve" => ApprovalHolds(f, next', stage', work'),
         p = "dispute" => DisputeHolds(f, next', work'),
         p = "admin" => AdminHolds(f, next', stage', events')
  PROVE  AheadInv'
<1>1. PagesTyped /\ PagesOpened
  BY DEF BaseInv, AheadInv
<1>2. PagesOpened'
  BY <1>1, OpenedStays
<1>3. /\ ApprovalHolds(page["approve"], next', stage', work')
      /\ DisputeHolds(page["dispute"], next', work')
      /\ AdminHolds(page["admin"], next', stage', events')
  BY SoundStays
<1>4. /\ ApprovalHolds(page'["approve"], next', stage', work')
      /\ DisputeHolds(page'["dispute"], next', work')
      /\ AdminHolds(page'["admin"], next', stage', events')
  BY <1>1, <1>3, GoKeepsSound
<1> QED  BY <1>2, <1>4, ChainKeepsAhead DEF MovedAlone

(* A service writes rows. *)
LEMMA ServiceKeepsAhead ==
  ASSUME BaseInv, AheadInv, NEW p \in Pages, NEW f \in Forms, Go(p, f),
         UNCHANGED chainVars, f.at = "closed" \/ p \in OpenPages,
         p = "approve" => ApprovalHolds(f, next, stage, work),
         p = "dispute" => DisputeHolds(f, next, work),
         p = "admin" => AdminHolds(f, next, stage, events),
         NothingPaidAhead', ResolvedMeansDecided'
  PROVE  AheadInv'
<1>1. PagesTyped /\ PagesOpened
  BY DEF BaseInv, AheadInv
<1>2. PagesOpened'
  BY <1>1, OpenedStays
<1>3. /\ ApprovalHolds(page'["approve"], next, stage, work)
      /\ DisputeHolds(page'["dispute"], next, work)
      /\ AdminHolds(page'["admin"], next, stage, events)
  BY <1>1, GoKeepsSound DEF AheadInv
<1> QED  BY <1>2, <1>3, WritesKeepAhead

(* A page goes on with the same form. *)
LEMMA FormGoesOn ==
  ASSUME PagesTyped, NEW p \in {"approve", "dispute", "admin"}, NEW step, NEW f,
         f = [page[p] EXCEPT !.at = step],
         \/ /\ p = "approve"
            /\ page[p].at \in {"preflight", "approve", "check", "release", "report", "write"}
            /\ step \in {"approve", "check", "release", "report", "write", "count"}
         \/ /\ p = "dispute" /\ page[p].at \in {"preflight", "raise", "report", "write"}
            /\ step \in {"raise", "report", "write"}
         \/ /\ p = "admin" /\ page[p].at \in {"preflight", "vote", "report", "write"}
            /\ step \in {"vote", "report", "write"}
  PROVE  /\ f \in Forms /\ f.at = step /\ f.milestone = page[p].milestone
         /\ f.milestone \in Milestones
         /\ p = "admin" => f.amount = page[p].amount
<1>1. CASE p = "approve"
  BY <1>1 DEF PagesTyped, Forms, ApprovalForms, Closed
<1>2. CASE p = "dispute"
  BY <1>2 DEF PagesTyped, Forms, DisputeForms, Closed
<1>3. CASE p = "admin"
  BY <1>3 DEF PagesTyped, Forms, AdminForms, Closed
<1> QED  BY <1>1, <1>2, <1>3

(* A closed form.                                                           *)
LEMMA ClosedIsForm ==
  Closed \in Forms /\ Closed.at = "closed"
BY ClosedForms DEF Forms

(* The submission page settles nothing.                                     *)
LEMMA SubmitPageKeepsAhead ==
  ASSUME PagesActAlone, BaseInv, AheadInv, SubmitPage
  PROVE  AheadInv'
<1> DEFINE do == page["submit"]
<1>t. /\ PagesTyped /\ rows \in Rows /\ ChainOK /\ EventsTrue /\ PagesOpened /\ CallsApart
      /\ "submit" \in Pages
  BY DEF BaseInv, AheadInv, Pages
<1>o. do.at # "closed" => "submit" \in OpenPages
  BY <1>t DEF PagesOpened
<1>1. CASE OpenSubmit
  <2>1. /\ "submit" \in OpenPages
        /\ \E i \in Milestones : OnRows("submit", [at |-> "read", milestone |-> i])
    BY <1>1 DEF OpenSubmit
  <2>2. \A i \in Milestones : [at |-> "read", milestone |-> i] \in Forms
    BY DEF Forms, SubmitForms
  <2> QED  BY <1>t, <2>1, <2>2, OnRowsKeepsAhead
<1>2. CASE ReadSubmission
  <2> DEFINE i == do.milestone
             f == [at |-> "write", milestone |-> i, attempt |-> Len(rows.submissions[i]) + 1]
  <2>1. At("submit", "read") /\ (OnRows("submit", f) \/ OnRows("submit", Closed))
    BY <1>2 DEF ReadSubmission, Refuse
  <2>2. i \in Milestones
    BY <1>t, <2>1, FormParts
  <2>3. Len(rows.submissions[i]) \in Nat
    BY <1>t, <2>2 DEF Rows, SubmissionRows, Deliveries
  <2>4. f \in Forms
    BY <2>2, <2>3 DEF Forms, SubmitForms
  <2>5. "submit" \in OpenPages
    BY <1>o, <2>1 DEF At
  <2> HIDE DEF f
  <2> QED  BY <1>t, <2>1, <2>4, <2>5, ClosedIsForm, OnRowsKeepsAhead
<1>3. CASE StoreSubmission
  <2>1. do.at = "write"
    BY <1>3 DEF StoreSubmission, At
  <2>2. do.milestone \in Milestones /\ do.attempt \in Nat /\ [do EXCEPT !.at = "sign"] \in Forms
    BY <1>t, <2>1, FormParts DEF Forms
  <2>3. CASE OnRows("submit", Closed)
    BY <1>t, <2>3, ClosedIsForm, OnRowsKeepsAhead
  <2>4. CASE /\ rows' = WriteSubmission(rows, do.milestone, do.attempt)
             /\ Go("submit", [do EXCEPT !.at = "sign"])
             /\ UNCHANGED <<chainVars, applied>>
    <3>1. AfterDelivery(rows, rows', do.milestone)
      BY <1>t, <2>2, <2>4, WriteSubmissionRow
    <3>2. NothingPaidAhead' /\ ResolvedMeansDecided'
      <4>1. \A i \in Milestones : rows'.milestone[i] \in Settled => rows.milestone[i] \in Settled
        BY <3>1 DEF AfterDelivery, Settled
      <4>2. rows'.disputes = rows.disputes /\ UNCHANGED chainVars
        BY <2>4, <3>1 DEF AfterDelivery
      <4> QED  BY <4>1, <4>2, WrittenRowsStayBehind
    <3>3. "submit" \in OpenPages
      BY <1>o, <2>1
    <3> QED  BY <1>t, <2>2, <2>4, <3>2, <3>3, ServiceKeepsAhead
  <2> QED  BY <1>3, <2>3, <2>4 DEF StoreSubmission, Refuse
<1>4. CASE SignSubmission
  <2>1. /\ do.at = "sign"
        /\ SubmitMilestone(do.milestone, do.attempt) \/ UNCHANGED chainVars
        /\ Go("submit", Closed) /\ UNCHANGED rows
    BY <1>4 DEF SignSubmission, Mined, At
  <2>2. do.milestone \in Milestones /\ do.attempt \in Nat
    BY <1>t, <2>1, FormParts
  <2>3. MovedAlone
    <3>1. CASE SubmitMilestone(do.milestone, do.attempt)
      BY <1>t, <2>2, <3>1, WorkAlone
    <3>2. CASE UNCHANGED chainVars
      BY <1>t, <3>2, NothingMovesAlone DEF chainVars
    <3> QED  BY <2>1, <3>1, <3>2
  <2> QED  BY <1>t, <2>1, <2>3, ClosedIsForm, MinedKeepsAhead
<1> QED  BY <1>1, <1>2, <1>3, <1>4 DEF SubmitPage

(* The approval panel: its milestone is approved when it asks for the       *)
(* release, so that the release is mined, unless it is behind the pointer;  *)
(* either way the milestone is settled when the report is written.          *)
LEMMA ApprovalPanelKeepsAhead ==
  ASSUME PagesActAlone, BaseInv, AheadInv, ApprovalPanel
  PROVE  AheadInv'
<1> DEFINE do == page["approve"]
           f(step) == [do EXCEPT !.at = step]
           p == "approve"
<1>t. /\ PagesTyped /\ rows \in Rows /\ ChainOK /\ EventsTrue /\ PagesOpened /\ CallsApart
      /\ "approve" \in Pages /\ NothingPaidAhead /\ ResolvedMeansDecided
      /\ ApprovalHolds(do, next, stage, work)
  BY DEF BaseInv, AheadInv, Pages
<1>o. do.at # "closed" => "approve" \in OpenPages
  BY <1>t DEF PagesOpened
<1>s. ASSUME do.at \in {"preflight", "approve", "check", "release", "report", "write"},
             NEW step \in {"approve", "check", "release", "report", "write", "count"}
      PROVE  /\ f(step) \in Forms /\ f(step).at = step
             /\ f(step).milestone = do.milestone /\ do.milestone \in Milestones
             /\ p = "approve" /\ "approve" \in OpenPages
  BY <1>t, <1>o, <1>s, FormGoesOn
<1>n. next \in Nat
  BY <1>t, MilestoneConstants DEF ChainOK
<1>1. CASE OpenApproval
  <2>1. /\ "approve" \in OpenPages
        /\ \E i \in Milestones :
             OnRows("approve", [at |-> "preflight", milestone |-> i,
                                submission |-> Len(rows.submissions[i])])
    BY <1>1 DEF OpenApproval
  <2>2. \A i \in Milestones : Len(rows.submissions[i]) \in Nat
    BY <1>t DEF Rows, SubmissionRows, Deliveries
  <2>3. \A i \in Milestones :
          [at |-> "preflight", milestone |-> i, submission |-> Len(rows.submissions[i])] \in Forms
    BY <2>2 DEF Forms, ApprovalForms
  <2>4. PICK i \in Milestones, g \in Forms : g.at = "preflight" /\ OnRows("approve", g)
    BY <2>1, <2>3
  <2>5. ApprovalHolds(g, next, stage, work)
    BY <2>4 DEF ApprovalHolds
  <2> QED  BY <1>t, <2>1, <2>4, <2>5, OnRowsKeepsAhead
<1>c. ASSUME OnRows("approve", Closed) PROVE AheadInv'
  BY <1>t, <1>c, ClosedIsForm, ClosedRelies, OnRowsKeepsAhead
<1>a. ASSUME do.at \in {"preflight", "check", "report"},
             NEW step \in {"approve", "release", "write"}, OnRows("approve", f(step)),
             ApprovalHolds(f(step), next, stage, work)
      PROVE  AheadInv'
  <2>1. f(step) \in Forms /\ "approve" \in OpenPages
    BY <1>a, <1>s
  <2> HIDE DEF f
  <2> QED  BY <1>t, <1>a, <2>1, OnRowsKeepsAhead
<1>2. CASE CheckApproval
  <2>1. do.at = "preflight" /\ (OnRows("approve", f("approve")) \/ OnRows("approve", Closed))
    BY <1>2 DEF CheckApproval, At, Advance, Refuse
  <2>2. ApprovalHolds(f("approve"), next, stage, work)
    BY <1>s, <2>1 DEF ApprovalHolds
  <2> QED  BY <1>a, <1>c, <2>1, <2>2
<1>3. CASE CheckRelease
  <2>1. /\ do.at = "check"
        /\ \/ MilestoneStatus(do.milestone) = "Approved" /\ OnRows("approve", f("release"))
           \/ OnRows("approve", Closed)
    BY <1>3 DEF CheckRelease, At, Advance, Refuse
  <2>2. do.milestone \in Milestones
    BY <1>s, <2>1
  <2>3. ASSUME MilestoneStatus(do.milestone) = "Approved"
        PROVE  do.milestone = next /\ work = "Approved" /\ stage = "Active"
    <3>1. do.milestone = next /\ work = "Approved"
      BY <1>t, <2>2, <2>3 DEF MilestoneStatus, ChainOK
    <3>2. stage # "Disputed"
      BY <1>t, <1>o, <2>1 DEF CallsApart
    <3> QED  BY <1>t, <3>1, <3>2 DEF ChainOK, IsOpen
  <2>4. MilestoneStatus(do.milestone) = "Approved" => ApprovalHolds(f("release"), next, stage, work)
    BY <1>s, <2>1, <2>3 DEF ApprovalHolds
  <2> QED  BY <1>a, <1>c, <2>1, <2>4
<1>4. CASE ReadReview
  <2>1. do.at = "report" /\ (OnRows("approve", f("write")) \/ OnRows("approve", Closed))
    BY <1>4 DEF ReadReview, At, Advance, Refuse
  <2>2. do.milestone < next
    BY <1>t, <2>1 DEF ApprovalHolds
  <2>3. ApprovalHolds(f("write"), next, stage, work)
    BY <1>s, <2>1, <2>2 DEF ApprovalHolds
  <2> QED  BY <1>a, <1>c, <2>1, <2>3
<1>5. CASE SignApproval
  <2>1. /\ do.at = "approve"
        /\ ApproveMilestone(do.milestone) \/ UNCHANGED chainVars
        /\ Go("approve", f("check")) /\ UNCHANGED rows
    BY <1>5 DEF SignApproval, At, Mined
  <2>2. /\ f("check") \in Forms /\ f("check").at = "check" /\ do.milestone \in Milestones
        /\ "approve" \in OpenPages
    BY <1>s, <2>1
  <2>3. MovedAlone
    <3>1. CASE ApproveMilestone(do.milestone)
      <4>1. 0 \in Nat
        OBVIOUS
      <4> QED  BY <1>t, <2>2, <3>1, <4>1, WorkAlone
    <3>2. CASE UNCHANGED chainVars
      BY <1>t, <3>2, NothingMovesAlone DEF chainVars
    <3> QED  BY <2>1, <3>1, <3>2
  <2>4. ApprovalHolds(f("check"), next', stage', work')
    BY <2>2 DEF ApprovalHolds
  <2> HIDE DEF f
  <2> QED  BY <1>t, <2>1, <2>2, <2>3, <2>4, MinedKeepsAhead
<1>6. CASE SignRelease
  <2>1. /\ do.at = "release"
        /\ IF CanRelease(do.milestone) THEN ReleaseMilestone(do.milestone)
           ELSE UNCHANGED chainVars
        /\ Go("approve", f("report")) /\ UNCHANGED rows
    BY <1>6 DEF SignRelease, At, Mined
  <2>2. /\ f("report") \in Forms /\ f("report").at = "report" /\ do.milestone \in Milestones
        /\ f("report").milestone = do.milestone /\ "approve" \in OpenPages
    BY <1>s, <2>1
  <2>3. MovedAlone /\ do.milestone < next'
    <3>1. CASE ReleaseMilestone(do.milestone)
      <4>1. 0 \in Nat
        OBVIOUS
      <4>2. MovedAlone
        BY <1>t, <2>2, <3>1, <4>1, WorkAlone
      <4> QED  BY <1>t, <2>2, <3>1, <4>2, ReleaseMilestoneMoves
    <3>2. CASE ~CanRelease(do.milestone) /\ UNCHANGED chainVars
      <4>1. MovedAlone /\ next' = next
        BY <1>t, <3>2, NothingMovesAlone DEF chainVars, lifecycleVars
      <4>2. do.milestone < next
        BY <1>t, <2>1, <3>2 DEF ApprovalHolds, CanRelease
      <4> QED  BY <4>1, <4>2
    <3> QED  BY <2>1, <3>1, <3>2
  <2>4. ApprovalHolds(f("report"), next', stage', work')
    BY <2>2, <2>3 DEF ApprovalHolds
  <2> HIDE DEF f
  <2> QED  BY <1>t, <2>1, <2>2, <2>3, <2>4, MinedKeepsAhead
<1>7. CASE StoreReview
  <2>1. /\ do.at = "write" /\ rows' = WriteApproval(rows, do.milestone, do.submission)
        /\ Go("approve", f("count")) /\ UNCHANGED chainVars
    BY <1>7 DEF StoreReview, At
  <2>2. /\ f("count") \in Forms /\ f("count").at = "count" /\ do.milestone \in Milestones
        /\ "approve" \in OpenPages
    BY <1>s, <2>1
  <2>3. do.milestone < next
    BY <1>t, <2>1 DEF ApprovalHolds
  <2>4. AfterReview(rows, rows', do.milestone)
    BY <1>t, <2>1, <2>2, WriteApprovalRow
  <2>5. NothingPaidAhead' /\ ResolvedMeansDecided'
    <3>1. \A i \in Milestones : rows'.milestone[i] \in Settled =>
            rows.milestone[i] \in Settled \/ i < next
      BY <2>3, <2>4 DEF AfterReview
    <3>2. rows'.disputes = rows.disputes
      BY <2>4 DEF AfterReview
    <3> QED  BY <2>1, <3>1, <3>2, WrittenRowsStayBehind
  <2>6. ApprovalHolds(f("count"), next, stage, work)
    BY <2>2 DEF ApprovalHolds
  <2> HIDE DEF f
  <2> QED  BY <1>t, <2>1, <2>2, <2>5, <2>6, ServiceKeepsAhead
<1>8. CASE CountReleased
  <2> DEFINE g == [at |-> "status", status |-> StatusAfterReview(rows)]
  <2>1. do.at = "count" /\ OnRows("approve", g)
    BY <1>8 DEF CountReleased, At
  <2>2. g \in Forms /\ g.at = "status"
    BY DEF Forms, ApprovalForms, StatusAfterReview, ProjectRowStatus
  <2>3. ApprovalHolds(g, next, stage, work)
    BY <2>2 DEF ApprovalHolds
  <2>4. "approve" \in OpenPages
    BY <1>o, <2>1
  <2> HIDE DEF g
  <2> QED  BY <1>t, <2>1, <2>2, <2>3, <2>4, OnRowsKeepsAhead
<1>9. CASE StoreReviewStatus
  <2>1. /\ rows' = [rows EXCEPT !.status = do.status] /\ Go("approve", Closed)
        /\ UNCHANGED chainVars
    BY <1>9 DEF StoreReviewStatus
  <2>2. rows'.milestone = rows.milestone /\ rows'.disputes = rows.disputes
    BY <1>t, <2>1 DEF Rows
  <2>3. NothingPaidAhead' /\ ResolvedMeansDecided'
    BY <2>1, <2>2, WrittenRowsStayBehind
  <2> QED  BY <1>t, <2>1, <2>3, ClosedIsForm, ClosedRelies, ServiceKeepsAhead
<1> QED  BY <1>1, <1>2, <1>3, <1>4, <1>5, <1>6, <1>7, <1>8, <1>9 DEF ApprovalPanel

(* The dispute panel settles nothing.                                       *)
LEMMA DisputePanelKeepsAhead ==
  ASSUME PagesActAlone, BaseInv, AheadInv, DisputePanel
  PROVE  AheadInv'
<1> DEFINE do == page["dispute"]
           f(step) == [do EXCEPT !.at = step]
<1>t. /\ PagesTyped /\ rows \in Rows /\ ChainOK /\ EventsTrue /\ PagesOpened /\ CallsApart
      /\ "dispute" \in Pages /\ DisputeHolds(do, next, work)
  BY DEF BaseInv, AheadInv, Pages
<1>o. do.at # "closed" => "dispute" \in OpenPages
  BY <1>t DEF PagesOpened
<1>s. ASSUME do.at \in {"preflight", "raise", "report", "write"},
             NEW step \in {"raise", "report", "write"}
      PROVE  /\ f(step) \in Forms /\ f(step).at = step
             /\ f(step).milestone = do.milestone /\ do.milestone \in Milestones
             /\ "dispute" \in OpenPages
  BY <1>t, <1>o, <1>s, FormGoesOn
<1>c. ASSUME OnRows("dispute", Closed) PROVE AheadInv'
  BY <1>t, <1>c, ClosedIsForm, ClosedRelies, OnRowsKeepsAhead
<1>1. CASE OpenDispute
  <2>1. /\ "dispute" \in OpenPages
        /\ \E i \in Milestones : OnRows("dispute", [at |-> "preflight", milestone |-> i])
    BY <1>1 DEF OpenDispute
  <2>2. \A i \in Milestones : [at |-> "preflight", milestone |-> i] \in Forms
    BY DEF Forms, DisputeForms
  <2>3. PICK i \in Milestones, g \in Forms : g.at = "preflight" /\ OnRows("dispute", g)
    BY <2>1, <2>2
  <2>4. DisputeHolds(g, next, work)
    BY <2>3 DEF DisputeHolds
  <2> QED  BY <1>t, <2>1, <2>3, <2>4, OnRowsKeepsAhead
<1>2. CASE CheckDispute
  <2>1. /\ do.at = "preflight"
        /\ \/ /\ MilestoneStatus(do.milestone) \in {"Submitted", "Approved"}
              /\ OnRows("dispute", f("raise"))
           \/ OnRows("dispute", Closed)
    BY <1>2 DEF CheckDispute, At, Advance, Refuse
  <2>2. f("raise") \in Forms /\ f("raise").milestone = do.milestone /\ do.milestone \in Milestones
        /\ "dispute" \in OpenPages
    BY <1>s, <2>1
  <2>3. MilestoneStatus(do.milestone) \in {"Submitted", "Approved"}
          => DisputeHolds(f("raise"), next, work)
    BY <1>t, <2>2 DEF MilestoneStatus, ChainOK, DisputeHolds
  <2> HIDE DEF f
  <2> QED  BY <1>t, <1>c, <2>1, <2>2, <2>3, OnRowsKeepsAhead
<1>3. CASE SignDispute
  <2>1. /\ do.at = "raise"
        /\ RaiseDispute(do.milestone) \/ UNCHANGED chainVars
        /\ Go("dispute", f("report")) /\ UNCHANGED rows
    BY <1>3 DEF SignDispute, At, Mined
  <2>2. /\ f("report") \in Forms /\ f("report").at = "report" /\ do.milestone \in Milestones
        /\ "dispute" \in OpenPages
    BY <1>s, <2>1
  <2>3. MovedAlone
    <3>1. CASE RaiseDispute(do.milestone)
      <4>1. next = do.milestone
        BY <1>t, <2>2, <3>1, RaiseDisputeMoves
      <4>2. work # "Pending"
        BY <1>t, <2>1, <2>2, <4>1 DEF DisputeHolds, Milestones
      <4> QED  BY <1>t, <2>2, <3>1, <4>2, RaiseDisputeAlone DEF PagesActAlone
    <3>2. CASE UNCHANGED chainVars
      BY <1>t, <3>2, NothingMovesAlone DEF chainVars
    <3> QED  BY <2>1, <3>1, <3>2
  <2>4. DisputeHolds(f("report"), next', work')
    BY <2>2 DEF DisputeHolds
  <2> HIDE DEF f
  <2> QED  BY <1>t, <2>1, <2>2, <2>3, <2>4, MinedKeepsAhead
<1>4. CASE ReadDispute
  <2>1. do.at = "report" /\ (OnRows("dispute", f("write")) \/ OnRows("dispute", Closed))
    BY <1>4 DEF ReadDispute, At, Advance, Refuse
  <2>2. f("write") \in Forms /\ f("write").at = "write" /\ "dispute" \in OpenPages
    BY <1>s, <2>1
  <2>3. DisputeHolds(f("write"), next, work)
    BY <2>2 DEF DisputeHolds
  <2> HIDE DEF f
  <2> QED  BY <1>t, <1>c, <2>1, <2>2, <2>3, OnRowsKeepsAhead
<1>5. CASE StoreDispute
  <2>1. /\ do.at = "write" /\ rows' = WriteDispute(rows, do.milestone)
        /\ Go("dispute", Closed) /\ UNCHANGED chainVars
    BY <1>5 DEF StoreDispute, At
  <2>2. do.milestone \in Milestones
    BY <1>t, <2>1, FormParts
  <2>3. AfterDispute(rows, rows', do.milestone)
    BY <1>t, <2>1, <2>2, WriteDisputeRow
  <2>4. NothingPaidAhead' /\ ResolvedMeansDecided'
    <3>1. \A i \in Milestones : rows'.milestone[i] \in Settled => rows.milestone[i] \in Settled
      BY <2>3 DEF AfterDispute, Settled
    <3>2. \A i \in Milestones : \A d \in DOMAIN rows'.disputes[i] :
            rows'.disputes[i][d].status # "OPEN" =>
              d \in DOMAIN rows.disputes[i]
              /\ rows'.disputes[i][d].status = rows.disputes[i][d].status
      BY <2>3 DEF AfterDispute
    <3> QED  BY <2>1, <3>1, <3>2, WrittenRowsStayBehind
  <2> QED  BY <1>t, <2>1, <2>4, ClosedIsForm, ClosedRelies, ServiceKeepsAhead
<1> QED  BY <1>1, <1>2, <1>3, <1>4, <1>5 DEF DisputePanel

(* The funding panel settles nothing.                                       *)
LEMMA FundingPanelKeepsAhead ==
  ASSUME PagesActAlone, BaseInv, AheadInv, FundingPanel
  PROVE  AheadInv'
<1> DEFINE do == page["fund"]
<1>t. /\ PagesTyped /\ rows \in Rows /\ ChainOK /\ EventsTrue /\ PagesOpened /\ CallsApart
      /\ "fund" \in Pages
  BY DEF BaseInv, AheadInv, Pages
<1>o. do.at # "closed" => "fund" \in OpenPages
  BY <1>t DEF PagesOpened
<1>p. ASSUME NEW f \in FundForms, OnRows("fund", f), "fund" \in OpenPages
      PROVE  AheadInv'
  <2>1. f \in Forms
    BY DEF Forms
  <2> QED  BY <1>t, <1>p, <2>1, OnRowsKeepsAhead
<1>1. CASE OpenFunding
  <2>1. /\ "fund" \in OpenPages
        /\ \E amount \in Deposits : OnRows("fund", [at |-> "fund", amount |-> amount])
    BY <1>1 DEF OpenFunding
  <2>2. \A amount \in Deposits : [at |-> "fund", amount |-> amount] \in FundForms
    BY DEF FundForms
  <2> QED  BY <1>p, <2>1, <2>2
<1>2. CASE SignFunding
  <2>1. /\ do.at = "fund"
        /\ FundProject(do.amount) \/ UNCHANGED chainVars
        /\ Go("fund", [at |-> "total"]) /\ UNCHANGED rows
    BY <1>2 DEF SignFunding, At, Mined
  <2>2. do.amount \in Deposits
    BY <1>t, <2>1, FormParts DEF At
  <2>3. MovedAlone
    <3>1. CASE FundProject(do.amount)
      BY <1>t, <2>2, <3>1, FundProjectAlone
    <3>2. CASE UNCHANGED chainVars
      BY <1>t, <3>2, NothingMovesAlone DEF chainVars
    <3> QED  BY <2>1, <3>1, <3>2
  <2>4. [at |-> "total"] \in Forms
    BY DEF Forms, FundForms
  <2> QED  BY <1>t, <1>o, <2>1, <2>3, <2>4, MinedKeepsAhead
<1>3. CASE ReadFunded
  <2>1. do.at = "total" /\ OnRows("fund", [at |-> "report", funded |-> funded])
    BY <1>3 DEF ReadFunded, At
  <2>2. [at |-> "report", funded |-> funded] \in FundForms
    BY <1>t DEF FundForms, ChainOK
  <2> QED  BY <1>o, <1>p, <2>1, <2>2
<1>4. CASE ReadMilestones
  <2> DEFINE f == [at |-> "write", funded |-> do.funded, seen |-> rows.milestone]
  <2>1. do.at = "report" /\ OnRows("fund", f)
    BY <1>4 DEF ReadMilestones, At
  <2>2. do.funded \in Nat
    BY <1>t, <2>1, FormParts
  <2>3. f \in FundForms
    BY <1>t, <2>2 DEF FundForms, Rows
  <2> QED  BY <1>o, <1>p, <2>1, <2>3
<1>5. CASE StoreFunding
  <2>1. /\ do.at = "write" /\ rows' = WriteFunding(rows, do.seen, do.funded)
        /\ Go("fund", Closed) /\ UNCHANGED chainVars
    BY <1>5 DEF StoreFunding, At
  <2>2. do.funded \in Nat /\ do.seen \in MilestoneRows
    BY <1>t, <2>1, FormParts DEF At
  <2>3. AfterFundingReport(rows, rows', do.funded)
    BY <1>t, <2>1, <2>2, WriteFundingRow
  <2>4. NothingPaidAhead' /\ ResolvedMeansDecided'
    <3>1. \A i \in Milestones : rows'.milestone[i] \in Settled => rows.milestone[i] \in Settled
      BY <2>3 DEF AfterFundingReport, Settled
    <3>2. rows'.disputes = rows.disputes
      BY <2>3 DEF AfterFundingReport
    <3> QED  BY <2>1, <3>1, <3>2, WrittenRowsStayBehind
  <2> QED  BY <1>t, <2>1, <2>4, ClosedIsForm, ServiceKeepsAhead
<1> QED  BY <1>1, <1>2, <1>3, <1>4, <1>5 DEF FundingPanel

(* What the registry decides is what the queue's amount stands for. *)
LEMMA DecisionIsRecorded ==
  ASSUME ChainOK, EventsTrue, NEW i \in Milestones, NEW amount \in Amounts,
         SettleDispute(i, amount), NEW f, f.milestone = i, f.amount = amount
  PROVE  Decided(i, ResolvedStatus(KindChosen(f)), events')
<1>1. next = i /\ IsOpen /\ events' = events \o <<Decision(i, amount)>>
  BY SettleDisputeMoves DEF IsOpen
<1>2. Price = Cost[i + 1] - Cost[i]
  BY <1>1, PriceIs
<1>3. KindChosen(f) = KindOf(amount)
  BY <1>2 DEF KindChosen, KindOf
<1>4. /\ Len(events) + 1 \in DOMAIN events'
      /\ events'[Len(events) + 1] = Decision(i, amount)
  BY <1>1 DEF EventsTrue
<1> QED  BY <1>3, <1>4 DEF Decided, Decision

(* The dispute queue: its vote is mined while the dispute is open and       *)
(* decides it, with the amount the report is about.                         *)
LEMMA DisputeQueueKeepsAhead ==
  ASSUME PagesActAlone, BaseInv, AheadInv, DisputeQueue
  PROVE  AheadInv'
<1> DEFINE do == page["admin"]
           f(step) == [do EXCEPT !.at = step]
<1>t. /\ PagesTyped /\ rows \in Rows /\ ChainOK /\ EventsTrue /\ PagesOpened /\ CallsApart
      /\ "admin" \in Pages /\ AdminHolds(do, next, stage, events)
  BY DEF BaseInv, AheadInv, Pages
<1>o. do.at # "closed" => "admin" \in OpenPages
  BY <1>t DEF PagesOpened
<1>s. ASSUME do.at \in {"preflight", "vote", "report", "write"},
             NEW step \in {"vote", "report", "write"}
      PROVE  /\ f(step) \in Forms /\ f(step).at = step /\ f(step).amount = do.amount
             /\ f(step).milestone = do.milestone /\ do.milestone \in Milestones
             /\ "admin" \in OpenPages
  BY <1>t, <1>o, <1>s, FormGoesOn
<1>c. ASSUME OnRows("admin", Closed) PROVE AheadInv'
  BY <1>t, <1>c, ClosedIsForm, ClosedRelies, OnRowsKeepsAhead
<1>1. CASE OpenResolution
  <2>0. /\ "admin" \in OpenPages
        /\ \E i \in Milestones, a \in Arbiters :
           \E d \in OpenDisputes(rows, i), amount \in {0, 1, Cost[i + 1] - Cost[i]} :
             OnRows("admin", [at |-> "preflight", milestone |-> i, dispute |-> d,
                              arbiter |-> a, amount |-> amount])
    BY <1>1 DEF OpenResolution
  <2>1. PICK i \in Milestones, a \in Arbiters :
          \E d \in OpenDisputes(rows, i), amount \in {0, 1, Cost[i + 1] - Cost[i]} :
            OnRows("admin", [at |-> "preflight", milestone |-> i, dispute |-> d,
                             arbiter |-> a, amount |-> amount])
    BY <2>0
  <2>2. PICK d \in OpenDisputes(rows, i), amount \in {0, 1, Cost[i + 1] - Cost[i]} :
          OnRows("admin", [at |-> "preflight", milestone |-> i, dispute |-> d,
                           arbiter |-> a, amount |-> amount])
    BY <2>1
  <2> DEFINE g == [at |-> "preflight", milestone |-> i, dispute |-> d, arbiter |-> a,
                   amount |-> amount]
  <2>3. d \in Nat
    BY <1>t DEF OpenDisputes, Rows, DisputeRows, Disputes
  <2>4. amount \in Nat
    <3>1. Cost[i + 1] - Cost[i] \in Nat
      BY MilestoneConstants
    <3> QED  BY <3>1
  <2>5. g \in Forms
    BY <2>3, <2>4 DEF Forms, AdminForms
  <2>6. AdminHolds(g, next, stage, events)
    BY DEF AdminHolds
  <2>7. OnRows("admin", g)
    BY <2>2
  <2> HIDE DEF g
  <2> QED  BY <1>t, <2>0, <2>5, <2>6, <2>7, OnRowsKeepsAhead
<1>2. CASE CheckResolution
  <2>1. /\ do.at = "preflight"
        /\ \/ IsDisputed(do.milestone) /\ OnRows("admin", f("vote"))
           \/ OnRows("admin", Closed)
    BY <1>2 DEF CheckResolution, At, Advance, Refuse
  <2>2. /\ f("vote") \in Forms /\ f("vote").milestone = do.milestone /\ "admin" \in OpenPages
        /\ f("vote").at = "vote" /\ f("vote").amount = do.amount
    BY <1>s, <2>1
  <2>3. IsDisputed(do.milestone) => AdminHolds(f("vote"), next, stage, events)
    BY <1>t, <2>1, <2>2 DEF AdminHolds, IsDisputed
  <2> HIDE DEF f
  <2> QED  BY <1>t, <1>c, <2>1, <2>2, <2>3, OnRowsKeepsAhead
<1>3. CASE SignResolution
  <2>1. /\ do.at = "vote"
        /\ IF CanVote(do.milestone, do.arbiter, do.amount)
           THEN ResolveDispute(do.milestone, do.arbiter, do.amount)
           ELSE UNCHANGED chainVars
        /\ Go("admin", f("report")) /\ UNCHANGED rows
    BY <1>3 DEF SignResolution, At, Mined
  <2>2. /\ f("report") \in Forms /\ f("report").at = "report" /\ do.milestone \in Milestones
        /\ f("report").milestone = do.milestone /\ f("report").amount = do.amount
        /\ "admin" \in OpenPages
    BY <1>s, <2>1
  <2>3. /\ stage = "Disputed" /\ next = do.milestone /\ votes = {} /\ Threshold = 1
        /\ work # "Pending"
        /\ do.amount \in {0, 1, Cost[do.milestone + 1] - Cost[do.milestone]}
    BY <1>t, <2>1, <2>2 DEF AdminHolds, CallsApart, PagesActAlone
  <2>4. do.amount \in Amounts
    <3>1. Price = Cost[do.milestone + 1] - Cost[do.milestone]
      BY <1>t, <2>3, PriceIs DEF IsOpen
    <3> QED  BY <2>3, <3>1 DEF Amounts
  <2>5. ResolveDispute(do.milestone, do.arbiter, do.amount)
    BY <2>1, <2>3, <2>4 DEF CanVote, IsDisputed
  <2>6. SettleDispute(do.milestone, do.amount)
    BY <1>t, <2>2, <2>3, <2>5, ResolveDisputeMoves
  <2>7. /\ Moved /\ do.milestone < next' /\ stage' # "Disputed" /\ votes' = {}
    BY <1>t, <2>2, <2>4, <2>6, SettleDisputeMoves
  <2>8. Decided(do.milestone, ResolvedStatus(KindChosen(f("report"))), events')
    BY <1>t, <2>2, <2>4, <2>6, DecisionIsRecorded
  <2>9. AdminHolds(f("report"), next', stage', events')
    BY <2>2, <2>7, <2>8 DEF AdminHolds
  <2>10. CallsApart'
    BY <1>t, <2>7 DEF CallsApart
  <2>11. PagesOpened'
    BY <1>t, <2>1, <2>2, OpenedStays
  <2>12. page'["approve"] = page["approve"] /\ page'["dispute"] = page["dispute"]
         /\ page'["admin"] = f("report")
    BY <1>t, <2>1, <2>2, GoForm DEF Pages
  <2>13. ApprovalHolds(page["approve"], next', stage', work')
    <3>1. page["approve"] \in ApprovalForms
      BY <1>t DEF PagesTyped
    <3>2. page["approve"].at = "closed" \/ "approve" \in OpenPages
      BY <1>t DEF PagesOpened, Pages
    <3> QED  BY <1>t, <2>7, <2>10, <3>1, <3>2, ApprovalStays, ClosedRelies DEF AheadInv
  <2>14. DisputeHolds(page["dispute"], next', work')
    <3>1. page["dispute"] \in DisputeForms
      BY <1>t DEF PagesTyped
    <3> QED  BY <1>t, <2>7, <3>1, DisputeStays DEF AheadInv
  <2> HIDE DEF f
  <2> QED  BY <2>1, <2>7, <2>9, <2>10, <2>11, <2>12, <2>13, <2>14, ChainKeepsAhead
<1>4. CASE ReadResolution
  <2>1. do.at = "report" /\ (OnRows("admin", f("write")) \/ OnRows("admin", Closed))
    BY <1>4 DEF ReadResolution, At, Advance, Refuse
  <2>2. /\ f("write") \in Forms /\ f("write").at = "write" /\ "admin" \in OpenPages
        /\ f("write").milestone = do.milestone /\ f("write").amount = do.amount
    BY <1>s, <2>1
  <2>3. KindChosen(f("write")) = KindChosen(do)
    BY <2>2 DEF KindChosen
  <2>4. AdminHolds(f("write"), next, stage, events)
    BY <1>t, <2>1, <2>2, <2>3 DEF AdminHolds
  <2> HIDE DEF f
  <2> QED  BY <1>t, <1>c, <2>1, <2>2, <2>4, OnRowsKeepsAhead
<1>5. CASE StoreResolution
  <2>1. /\ do.at = "write"
        /\ rows' = WriteResolution(rows, do.milestone, do.dispute, KindChosen(do))
        /\ Go("admin", Closed) /\ UNCHANGED chainVars
    BY <1>5 DEF StoreResolution, At, KindChosen
  <2>2. do.milestone \in Milestones
    BY <1>t, <2>1, FormParts
  <2>3. do.milestone < next /\ Decided(do.milestone, ResolvedStatus(KindChosen(do)), events)
    BY <1>t, <2>1 DEF AdminHolds
  <2>4. AfterResolution(rows, rows', do.milestone, do.dispute, KindChosen(do))
    BY <1>t, <2>1, <2>2, WriteResolutionRow
  <2>5. NothingPaidAhead' /\ ResolvedMeansDecided'
    <3>1. \A i \in Milestones : rows'.milestone[i] \in Settled =>
            rows.milestone[i] \in Settled \/ i < next
      BY <2>3, <2>4 DEF AfterResolution
    <3>2. ASSUME NEW i \in Milestones, NEW d \in DOMAIN rows'.disputes[i],
                 rows'.disputes[i][d].status # "OPEN"
          PROVE  \/ d \in DOMAIN rows.disputes[i]
                    /\ rows'.disputes[i][d].status = rows.disputes[i][d].status
                 \/ Decided(i, rows'.disputes[i][d].status, events)
      BY <2>3, <2>4, <3>2 DEF AfterResolution
    <3> QED  BY <2>1, <3>1, <3>2, WrittenRowsStayBehind
  <2> QED  BY <1>t, <2>1, <2>5, ClosedIsForm, ClosedRelies, ServiceKeepsAhead
<1> QED  BY <1>1, <1>2, <1>3, <1>4, <1>5 DEF DisputeQueue

(* Event sync settles milestones and disputes for events that are true.     *)
LEMMA SyncEventKeepsAhead ==
  ASSUME BaseInv, AheadInv, SyncEvent
  PROVE  AheadInv'
<1> DEFINE e == events[applied + 1]
<1>t. PagesTyped /\ rows \in Rows /\ ChainOK /\ EventsTrue /\ PagesOpened
  BY DEF BaseInv, AheadInv
<1>1. /\ applied < Len(events) /\ rows' = ApplyEvent(rows, e)
      /\ UNCHANGED chainVars /\ page' = page
  BY DEF SyncEvent
<1>2. applied + 1 \in 1..Len(events) /\ applied + 1 \in DOMAIN events
  BY <1>t, <1>1 DEF BaseInv, EventsTrue
<1>3. e \in ChainEvents /\ EventTrue(e, funded, next)
  BY <1>t, <1>2 DEF EventsTrue
<1>4. Applies(e, rows, rows')
  BY <1>1, <1>3, <1>t, ApplyEventRow
<1>5. e.name = "DisputeResolved" =>
        Decided(e.milestone, ResolvedStatus(KindAsRead(e.kind)), events)
  BY <1>2 DEF Decided
<1> HIDE DEF e
<1>6. ASSUME NEW i \in Milestones, rows'.milestone[i] \in Settled
      PROVE  rows.milestone[i] \in Settled \/ i < next
  <2>1. CASE e.name = "ProjectFunded" /\ AfterFunded(rows, rows', e.funded) /\ e.funded \in Nat
    <3>1. rows.milestone \in MilestoneRows
      BY <1>t DEF Rows
    <3> QED  BY <1>6, <2>1, <3>1, FundedMilestonesRow DEF AfterFunded, Settled
  <2>2. CASE AfterSubmitted(rows, rows', e.milestone) \/ AfterApproved(rows, rows', e.milestone)
             \/ AfterDisputeRaised(rows, rows', e.milestone)
    BY <1>6, <2>2 DEF AfterSubmitted, AfterApproved, AfterDisputeRaised, Settled
  <2>3. CASE e.name = "MilestoneFundsReleased" /\ AfterReleased(rows, rows', e.milestone)
    BY <1>3, <1>6, <2>3 DEF AfterReleased, EventTrue
  <2>4. CASE AfterEvidence(rows, rows')
    BY <1>6, <2>4 DEF AfterEvidence
  <2>5. CASE /\ e.name = "DisputeResolved"
             /\ AfterDisputeResolved(rows, rows', e.milestone, KindAsRead(e.kind))
    BY <1>3, <1>6, <2>5 DEF AfterDisputeResolved, EventTrue
  <2>6. CASE e.name = "ProjectCancelled"
    <3>1. next = MilestoneCount
      BY <1>3, <2>6 DEF EventTrue
    <3> QED  BY <3>1, MilestoneConstants DEF Milestones
  <2> QED  BY <1>4, <2>1, <2>2, <2>3, <2>4, <2>5, <2>6 DEF Applies
<1>7. ASSUME NEW i \in Milestones, NEW d \in DOMAIN rows'.disputes[i],
             rows'.disputes[i][d].status # "OPEN"
      PROVE  \/ d \in DOMAIN rows.disputes[i]
                /\ rows'.disputes[i][d].status = rows.disputes[i][d].status
             \/ Decided(i, rows'.disputes[i][d].status, events)
  <2>1. CASE rows'.disputes = rows.disputes
    BY <1>7, <2>1
  <2>2. CASE e.milestone \in Milestones /\ AfterDisputeRaised(rows, rows', e.milestone)
    <3> DEFINE new == [status |-> "OPEN", evidence |-> "reason", related |-> FALSE]
    <3>1. rows.disputes \in [Milestones -> Disputes]
      BY <1>t DEF Rows, DisputeRows
    <3>2. \/ rows'.disputes = rows.disputes
          \/ rows'.disputes = [rows.disputes EXCEPT ![e.milestone] = Append(@, new)]
      BY <2>2 DEF AfterDisputeRaised
    <3>3. ASSUME NEW q \in Disputes, NEW c \in DOMAIN Append(q, new),
                 Append(q, new)[c].status # "OPEN"
          PROVE  c \in DOMAIN q /\ Append(q, new)[c] = q[c]
      BY <3>3 DEF Disputes
    <3>4. i # e.milestone => rows'.disputes[i] = rows.disputes[i]
      BY <3>1, <3>2
    <3>5. CASE rows'.disputes[i] = Append(rows.disputes[i], new)
      BY <1>7, <3>1, <3>3, <3>5
    <3> QED  BY <1>7, <2>2, <3>1, <3>2, <3>4, <3>5
  <2>3. CASE AfterEvidence(rows, rows')
    BY <1>7, <2>3 DEF AfterEvidence
  <2>4. CASE /\ e.name = "DisputeResolved" /\ e.milestone \in Milestones
             /\ AfterDisputeResolved(rows, rows', e.milestone, KindAsRead(e.kind))
    BY <1>5, <1>7, <2>4 DEF AfterDisputeResolved
  <2> QED  BY <1>4, <2>1, <2>2, <2>3, <2>4
           DEF Applies, AfterFunded, AfterSubmitted, AfterApproved, AfterReleased, AfterCancelled
<1>8. NothingPaidAhead' /\ ResolvedMeansDecided'
  BY <1>1, <1>6, <1>7, WrittenRowsStayBehind
<1>9. PagesOpened'
  BY <1>t, <1>1 DEF PagesOpened
<1> QED  BY <1>1, <1>8, <1>9, WritesKeepAhead DEF AheadInv

(* A page is left.                                                          *)
LEMMA LeaveKeepsAhead ==
  ASSUME BaseInv, AheadInv, NEW p \in Pages, Leave(p)
  PROVE  AheadInv'
<1>1. OnRows(p, Closed)
  BY DEF Leave, Refuse
<1> QED  BY <1>1, ClosedIsForm, ClosedRelies, OnRowsKeepsAhead

(* AheadInv is inductive, relative to BaseInv, where pages act alone.       *)
LEMMA StepKeepsAhead ==
  ASSUME PagesActAlone, BaseInv, AheadInv, [Next]_workflowVars
  PROVE  AheadInv'
<1>1. CASE DirectCall
  <2>1. MovedAlone /\ UNCHANGED <<rows, page>>
    BY <1>1, DirectCallAlone DEF AheadInv, DirectCall
  <2>2. PagesOpened'
    BY <2>1 DEF AheadInv, PagesOpened
  <2> QED  BY <2>1, <2>2, SoundStays, ChainKeepsAhead DEF MovedAlone
<1>2. CASE Reorg
  BY <1>2 DEF Reorg, PagesActAlone
<1>3. CASE SyncEvent
  BY <1>3, SyncEventKeepsAhead
<1>4. CASE PageStep
  BY <1>4, SubmitPageKeepsAhead, ApprovalPanelKeepsAhead, DisputePanelKeepsAhead,
     FundingPanelKeepsAhead, DisputeQueueKeepsAhead DEF PageStep
<1>5. ASSUME NEW p \in Pages, Leave(p) PROVE AheadInv'
  BY <1>5, LeaveKeepsAhead
<1>6. CASE UNCHANGED workflowVars
  <2>1. UNCHANGED <<chainVars, rows, page>>
    BY <1>6 DEF workflowVars
  <2>2. PagesOpened'
    BY <2>1 DEF AheadInv, PagesOpened
  <2> QED  BY <2>1, <2>2, PageKeepsAhead DEF AheadInv
<1> QED  BY <1>1, <1>2, <1>3, <1>4, <1>5, <1>6 DEF Next

(* A project that has just been bound.                                      *)
LEMMA InitIsBehind ==
  ASSUME Init
  PROVE  AheadInv
<1>1. /\ stage = "Active" /\ votes = {} /\ rows = NewRows
      /\ \A p \in Pages : page[p] = Closed
  BY DEF Init
<1>2. PagesOpened /\ CallsApart
  BY <1>1, ClosedIsForm DEF PagesOpened, CallsApart
<1>3. NothingPaidAhead /\ ResolvedMeansDecided
  BY <1>1 DEF NothingPaidAhead, ResolvedMeansDecided, NewRows, Settled
<1> QED  BY <1>1, <1>2, <1>3, ClosedIsForm, ClosedRelies DEF AheadInv, Pages

(* NothingIsAhead: a report that says a milestone is paid, or a dispute     *)
(* decided, is about something the registry has done, although the page     *)
(* looked at the chain and wrote the rows in different transactions, other  *)
(* pages, calls and event sync went on between, and its user may leave at   *)
(* any step.  PagesActAlone says what this takes; MilestoneWorkflow's pages *)
(* do not check it.                                                         *)
THEOREM RowsStayBehindChain ==
  ASSUME PagesActAlone
  PROVE  Spec => []NothingIsAhead
<1>1. Init => BaseInv /\ AheadInv
  BY InitIsBase, InitIsBehind
<1>2. BaseInv /\ AheadInv /\ [Next]_workflowVars => BaseInv' /\ AheadInv'
  BY StepKeepsBase, StepKeepsAhead DEF PagesActAlone
<1>3. BaseInv /\ AheadInv => NothingIsAhead
  BY DEF BaseInv, AheadInv, NothingIsAhead
<1> QED  BY <1>1, <1>2, <1>3, PTL DEF Spec

-----------------------------------------------------------------------------
(* While event sync alone writes the rows, they are what the events make of *)
(* new rows, one after the other, and the last of them is what the registry *)
(* says: with n milestones settled with outcomes o, the project in stage s, *)
(* work w on the next one, and so much funded in total.                     *)

(* The row of a milestone.                                                  *)
RowFor(i, n, s, w, o, total) ==
  IF i < n THEN IF o[i] = "Refunded" THEN "VOIDED" ELSE "RELEASED"
  ELSE IF i = n /\ s = "Disputed" THEN "DISPUTED"
  ELSE IF i = n /\ w = "Submitted" THEN "SUBMITTED"
  ELSE IF i = n /\ w = "Approved" THEN "APPROVED"
  ELSE IF total >= Cost[i + 1] THEN "FUNDED" ELSE "PLANNED"

(* Rows with these milestones,                                              *)
MilestonesAre(r, n, s, w, o, total) ==
  \A i \in Milestones : r.milestone[i] = RowFor(i, n, s, w, o, total)

(* this project,                                                            *)
StatusIs(r, s, total) ==
  \/ s = "Disputed" /\ r.status = "DISPUTED"
  \/ s = "Completed" /\ r.status = "COMPLETED"
  \/ s = "Cancelled" /\ r.status = "CANCELLED"
  \/ s = "Active" /\ r.status = "ACTIVE"
  \/ s = "Active" /\ r.status = "AWAITING_ESCROW" /\ total < TotalValue

(* and the open disputes the registry has.                                  *)
DisputesAre(r, n, s) ==
  s # "Cancelled" =>
    \A i \in Milestones :
      IF i = n /\ s = "Disputed" THEN \E d \in OpenDisputes(r, i) : OpenDisputes(r, i) = {d}
      ELSE OpenDisputes(r, i) = {}

Mirrors(r, n, s, w, o, total) ==
  /\ r \in Rows /\ MilestonesAre(r, n, s, w, o, total)
  /\ StatusIs(r, s, total) /\ DisputesAre(r, n, s)

(* The new rows after each event of a log.                                  *)
IsReplay(f, log) ==
  /\ f \in [0..Len(log) -> Rows] /\ f[0] = NewRows
  /\ \A n \in 0..Len(log) : n < Len(log) =>
       f[n + 1] = ApplyEvent(f[n], log[n + 1])

(* Rows r are what the first k events of the log come to, and what all of   *)
(* them come to mirrors the chain.                                          *)
Replays(log, k, r, n, s, w, o, total) ==
  \E f \in [0..Len(log) -> Rows] :
    IsReplay(f, log) /\ f[k] = r /\ Mirrors(f[Len(log)], n, s, w, o, total)

(* What is shown of the outcomes: a decided milestone counts as paid out.   *)
OutcomeShown == [i \in Milestones |-> IF IsDecided(i) THEN "Released" ELSE outcome[i]]

ReplayInv == Replays(events, applied, rows, next, stage, work, OutcomeShown, funded)

(* Milestones that were not settled are refunded.                           *)
VoidsTheRest(o, n, o2) ==
  \A j \in Milestones : o2[j] = IF j < n THEN o[j] ELSE "Refunded"

(* How milestones may have been settled.                                    *)
Outcomes == [Milestones -> {"Pending", "Released", "Refunded"}]

(* Each kind of write of event sync, on rows that mirror the chain before   *)
(* the event: more is deposited,                                            *)
LEMMA MirrorsFunded ==
  ASSUME NEW r, NEW q, NEW n \in Nat, NEW s \in {"Active", "Disputed"}, NEW w, NEW o,
         NEW t \in Nat, NEW a \in Nat, t <= a, Mirrors(r, n, s, w, o, t), AfterFunded(r, q, a)
  PROVE  Mirrors(q, n, s, w, o, a)
<1>1. r \in Rows /\ q \in Rows /\ r.milestone \in MilestoneRows /\ q.disputes = r.disputes
  BY DEF Mirrors, AfterFunded, Rows
<1>2. \A i \in Milestones :
        q.milestone[i] = IF r.milestone[i] = "PLANNED" /\ a >= Cost[i + 1] THEN "FUNDED"
                         ELSE r.milestone[i]
  <2>1. q.milestone = FundedMilestones(r.milestone, a)
    BY DEF AfterFunded
  <2>2. \A i \in Milestones :
          FundedMilestones(r.milestone, a)[i] =
            IF r.milestone[i] = "PLANNED" /\ a >= Cost[i + 1] THEN "FUNDED" ELSE r.milestone[i]
    BY <1>1, FundedMilestonesRow
  <2> QED  BY <2>1, <2>2
<1>3. MilestonesAre(q, n, s, w, o, a)
  <2>1. ASSUME NEW i \in Milestones PROVE q.milestone[i] = RowFor(i, n, s, w, o, a)
    <3>1. r.milestone[i] = RowFor(i, n, s, w, o, t) /\ Cost[i + 1] \in Nat
      BY MilestoneConstants DEF Mirrors, MilestonesAre
    <3> QED  BY <1>2, <3>1 DEF RowFor
  <2> QED  BY <2>1 DEF MilestonesAre
<1>4. StatusIs(q, s, a)
  <2>1. TotalValue \in Nat
    BY MilestoneConstants DEF TotalValue
  <2> QED  BY <2>1 DEF Mirrors, StatusIs, AfterFunded, FundingStatus
<1>5. DisputesAre(q, n, s)
  BY <1>1 DEF Mirrors, DisputesAre, OpenDisputes
<1> QED  BY <1>1, <1>3, <1>4, <1>5 DEF Mirrors

(* the next milestone is delivered,                                         *)
LEMMA MirrorsSubmitted ==
  ASSUME NEW r, NEW q, NEW n \in Milestones, NEW o, NEW t,
         Mirrors(r, n, "Active", "Pending", o, t), AfterSubmitted(r, q, n)
  PROVE  Mirrors(q, n, "Active", "Submitted", o, t)
<1>1. /\ q \in Rows /\ q.disputes = r.disputes /\ q.status = "ACTIVE"
      /\ \A j \in Milestones : q.milestone[j] = IF j = n THEN "SUBMITTED" ELSE r.milestone[j]
      /\ \A j \in Milestones : r.milestone[j] = RowFor(j, n, "Active", "Pending", o, t)
  BY DEF Mirrors, MilestonesAre, AfterSubmitted
<1>2. MilestonesAre(q, n, "Active", "Submitted", o, t)
  BY <1>1 DEF MilestonesAre, RowFor, Milestones
<1>3. StatusIs(q, "Active", t) /\ DisputesAre(q, n, "Active")
  BY <1>1 DEF Mirrors, StatusIs, DisputesAre, OpenDisputes
<1> QED  BY <1>1, <1>2, <1>3 DEF Mirrors

(* approved,                                                                *)
LEMMA MirrorsApproved ==
  ASSUME NEW r, NEW q, NEW n \in Milestones, NEW o, NEW t,
         Mirrors(r, n, "Active", "Submitted", o, t), AfterApproved(r, q, n)
  PROVE  Mirrors(q, n, "Active", "Approved", o, t)
<1>1. /\ q \in Rows /\ q.disputes = r.disputes /\ q.status = r.status
      /\ \A j \in Milestones : q.milestone[j] = IF j = n THEN "APPROVED" ELSE r.milestone[j]
      /\ \A j \in Milestones : r.milestone[j] = RowFor(j, n, "Active", "Submitted", o, t)
  BY DEF Mirrors, MilestonesAre, AfterApproved
<1>2. MilestonesAre(q, n, "Active", "Approved", o, t)
  BY <1>1 DEF MilestonesAre, RowFor, Milestones
<1>3. StatusIs(q, "Active", t) /\ DisputesAre(q, n, "Active")
  BY <1>1 DEF Mirrors, StatusIs, DisputesAre, OpenDisputes
<1> QED  BY <1>1, <1>2, <1>3 DEF Mirrors

(* disputed: its row gets the one open dispute there is,                    *)
LEMMA MirrorsRaised ==
  ASSUME NEW r, NEW q, NEW n \in Milestones, NEW w, NEW o, NEW t,
         Mirrors(r, n, "Active", w, o, t), AfterDisputeRaised(r, q, n)
  PROVE  Mirrors(q, n, "Disputed", w, o, t)
<1> DEFINE new == [status |-> "OPEN", evidence |-> "reason", related |-> FALSE]
<1>1. /\ q \in Rows /\ r \in Rows /\ q.status = "DISPUTED"
      /\ \A j \in Milestones : q.milestone[j] = IF j = n THEN "DISPUTED" ELSE r.milestone[j]
      /\ \A j \in Milestones : r.milestone[j] = RowFor(j, n, "Active", w, o, t)
      /\ \A j \in Milestones : OpenDisputes(r, j) = {}
  BY DEF Mirrors, MilestonesAre, DisputesAre, AfterDisputeRaised
<1>2. MilestonesAre(q, n, "Disputed", w, o, t)
  BY <1>1 DEF MilestonesAre, RowFor, Milestones
<1>3. q.disputes = [r.disputes EXCEPT ![n] = Append(@, new)] /\ r.disputes \in [Milestones -> Disputes]
  BY <1>1 DEF AfterDisputeRaised, Rows, DisputeRows
<1>4. \A j \in Milestones : j # n => OpenDisputes(q, j) = {}
  BY <1>1, <1>3 DEF OpenDisputes
<1>5. \E d \in OpenDisputes(q, n) : OpenDisputes(q, n) = {d}
  <2>1. q.disputes[n] = Append(r.disputes[n], new) /\ r.disputes[n] \in Disputes
    BY <1>3
  <2>2. \A c \in 1..Len(r.disputes[n]) : r.disputes[n][c].status # "OPEN"
    BY <1>1, <2>1 DEF OpenDisputes, Disputes
  <2> DEFINE d == Len(r.disputes[n]) + 1
  <2>3. /\ Len(r.disputes[n]) \in Nat /\ DOMAIN q.disputes[n] = 1..d
        /\ q.disputes[n][d] = new
        /\ \A c \in 1..Len(r.disputes[n]) : q.disputes[n][c] = r.disputes[n][c]
    BY <2>1 DEF Disputes
  <2>4. \A c \in 1..d : c = d \/ c \in 1..Len(r.disputes[n])
    BY <2>3
  <2>5. d \in DOMAIN q.disputes[n] /\ q.disputes[n][d].status = "OPEN"
    BY <2>3
  <2>6. \A c \in DOMAIN q.disputes[n] : c # d => q.disputes[n][c].status # "OPEN"
    BY <2>2, <2>3, <2>4
  <2> HIDE DEF d
  <2>7. OpenDisputes(q, n) = {d}
    BY <2>5, <2>6 DEF OpenDisputes
  <2> QED  BY <2>7
<1>6. StatusIs(q, "Disputed", t) /\ DisputesAre(q, n, "Disputed")
  BY <1>1, <1>4, <1>5 DEF StatusIs, DisputesAre
<1> QED  BY <1>1, <1>2, <1>6 DEF Mirrors

(* and given more evidence.                                                 *)
LEMMA MirrorsEvidence ==
  ASSUME NEW r, NEW q, NEW n, NEW s, NEW w, NEW o, NEW t,
         Mirrors(r, n, s, w, o, t), AfterEvidence(r, q)
  PROVE  Mirrors(q, n, s, w, o, t)
<1>1. \A j \in Milestones : OpenDisputes(q, j) = OpenDisputes(r, j)
  BY DEF AfterEvidence, OpenDisputes
<1> QED  BY <1>1 DEF Mirrors, MilestonesAre, StatusIs, DisputesAre, AfterEvidence

(* The next milestone is settled: on the chain,                             *)
OutcomeAfter(o, n, to) == [o EXCEPT ![n] = to]
(* in the rows,                                                             *)
SettlesTo(r, q, n, to) ==
  \A j \in Milestones :
    q.milestone[j] = IF j # n THEN r.milestone[j]
                     ELSE IF to = "Refunded" THEN "VOIDED" ELSE "RELEASED"

(* and the rows are still those of the chain.                               *)
AfterSettlement(r, q, n, s2, o2, t) ==
  /\ MilestonesAre(q, n + 1, s2, "Pending", o2, t)
  /\ (\A j \in Milestones : q.milestone[j] \in Settled) <=> n + 1 = MilestoneCount

(* The milestone after the one that is settled is not settled yet.          *)
LEMMA MirrorsSettled ==
  ASSUME NEW r, NEW q \in Rows, NEW n \in Milestones, NEW s, NEW w, NEW o \in Outcomes, NEW t,
         NEW to \in {"Released", "Refunded"}, NEW o2, o2 = OutcomeAfter(o, n, to),
         MilestonesAre(r, n, s, w, o, t), SettlesTo(r, q, n, to),
         NEW s2 \in {"Active", "Completed"}
  PROVE  AfterSettlement(r, q, n, s2, o2, t)
<1>1. /\ \A j \in Milestones : r.milestone[j] = RowFor(j, n, s, w, o, t)
      /\ \A j \in Milestones :
           q.milestone[j] = IF j # n THEN r.milestone[j]
                            ELSE IF to = "Refunded" THEN "VOIDED" ELSE "RELEASED"
  BY DEF MilestonesAre, SettlesTo
<1>2. /\ n \in Nat /\ MilestoneCount \in Nat /\ n < MilestoneCount
      /\ \A j \in Milestones : j \in Nat /\ j < MilestoneCount
  BY MilestoneConstants DEF Milestones
<1>3. \A j \in Milestones : j < n + 1 <=> j = n \/ j < n
  BY <1>2
<1>4. ASSUME NEW j \in Milestones
      PROVE  q.milestone[j] = RowFor(j, n + 1, s2, "Pending", o2, t)
  BY <1>1, <1>2, <1>3 DEF RowFor, Outcomes, OutcomeAfter
<1>5. (\A j \in Milestones : q.milestone[j] \in Settled) <=> n + 1 = MilestoneCount
  <2>1. CASE n + 1 = MilestoneCount
    BY <1>1, <1>2, <2>1 DEF RowFor, Settled
  <2>2. CASE n + 1 # MilestoneCount
    <3>1. n + 1 \in Milestones
      BY <1>2, <2>2 DEF Milestones
    <3>2. q.milestone[n + 1] \notin Settled
      BY <1>4, <1>2, <3>1 DEF RowFor, Settled
    <3> QED  BY <2>2, <3>1, <3>2
  <2> QED  BY <2>1, <2>2
<1> QED  BY <1>4, <1>5 DEF MilestonesAre, AfterSettlement

(* The project goes on with the next milestone, or is complete.             *)
StageAfter(n) == IF n + 1 = MilestoneCount THEN "Completed" ELSE "Active"

(* Settled by a payment.                                                    *)
LEMMA MirrorsReleased ==
  ASSUME NEW r, NEW q, NEW o2,  NEW n \in Milestones, NEW w, NEW o \in Outcomes, NEW t,
         o2 = OutcomeAfter(o, n, "Released"), Mirrors(r, n, "Active", w, o, t), AfterReleased(r, q, n)
  PROVE  Mirrors(q, n + 1, StageAfter(n), "Pending", o2, t)
<1>1. /\ q \in Rows /\ q.disputes = r.disputes
      /\ \A j \in Milestones : q.milestone[j] = IF j = n THEN "RELEASED" ELSE r.milestone[j]
      /\ q.status = IF \A j \in Milestones : q.milestone[j] \in Settled
                    THEN "COMPLETED" ELSE "ACTIVE"
      /\ MilestonesAre(r, n, "Active", w, o, t)
      /\ \A j \in Milestones : OpenDisputes(r, j) = {}
  BY DEF Mirrors, DisputesAre, AfterReleased
<1>2. /\ MilestonesAre(q, n + 1, StageAfter(n), "Pending", o2, t)
      /\ (\A j \in Milestones : q.milestone[j] \in Settled) <=> n + 1 = MilestoneCount
  <2>1. SettlesTo(r, q, n, "Released") /\ StageAfter(n) \in {"Active", "Completed"}
    BY <1>1 DEF SettlesTo, StageAfter
  <2>2. "Released" \in {"Released", "Refunded"} /\ o2 = OutcomeAfter(o, n, "Released")
    OBVIOUS
  <2>3. AfterSettlement(r, q, n, StageAfter(n), o2, t)
    BY <1>1, <2>1, <2>2, MirrorsSettled
  <2> QED  BY <2>3 DEF AfterSettlement
<1>3. \A j \in Milestones : OpenDisputes(q, j) = {}
  BY <1>1 DEF OpenDisputes
<1>4. StatusIs(q, StageAfter(n), t) /\ DisputesAre(q, n + 1, StageAfter(n))
  BY <1>1, <1>2, <1>3 DEF StatusIs, DisputesAre, StageAfter
<1> QED  BY <1>1, <1>2, <1>4 DEF Mirrors

(* Settled by a decision, which closes the open dispute.                    *)
LEMMA MirrorsResolved ==
  ASSUME NEW r, NEW q, NEW o2,  NEW n \in Milestones, NEW w, NEW o \in Outcomes, NEW t, NEW kind,
         NEW to, to = (IF kind = "RefundToClient" THEN "Refunded" ELSE "Released"),
         o2 = OutcomeAfter(o, n, to), Mirrors(r, n, "Disputed", w, o, t), AfterDisputeResolved(r, q, n, kind)
  PROVE  Mirrors(q, n + 1, StageAfter(n), "Pending", o2, t)
<1>1. /\ q \in Rows /\ q.status = StatusAfterDispute(q)
      /\ \A j \in Milestones : q.milestone[j] = IF j = n THEN SettledAs(kind) ELSE r.milestone[j]
      /\ MilestonesAre(r, n, "Disputed", w, o, t)
      /\ \A j \in Milestones : j # n => OpenDisputes(r, j) = {}
  BY DEF Mirrors, DisputesAre, AfterDisputeResolved
<1>2. /\ MilestonesAre(q, n + 1, StageAfter(n), "Pending", o2, t)
      /\ (\A j \in Milestones : q.milestone[j] \in Settled) <=> n + 1 = MilestoneCount
  <2>1. SettlesTo(r, q, n, to) /\ StageAfter(n) \in {"Active", "Completed"}
    BY <1>1 DEF SettlesTo, SettledAs, StageAfter
  <2>2. to \in {"Released", "Refunded"} /\ o2 = OutcomeAfter(o, n, to)
    OBVIOUS
  <2>3. AfterSettlement(r, q, n, StageAfter(n), o2, t)
    BY <1>1, <2>1, <2>2, MirrorsSettled
  <2> QED  BY <2>3 DEF AfterSettlement
<1>3. PICK d \in OpenDisputes(r, n) : OpenDisputes(r, n) = {d}
  BY DEF Mirrors, DisputesAre
<1>4. LatestOpen(r, n) = d
  <2>1. \A e \in OpenDisputes(r, n) : e <= d
    <3>1. d \in Nat
      BY DEF Mirrors, Rows, DisputeRows, Disputes, OpenDisputes
    <3> QED  BY <1>3, <3>1
  <2> QED  BY <1>3, <2>1 DEF LatestOpen
<1>5. \A j \in Milestones : OpenDisputes(q, j) = {}
  <2>1. OpenDisputes(q, n) = {}
    BY <1>3, <1>4, ResolvedStatusIsStatus DEF AfterDisputeResolved, OpenDisputes
  <2>2. \A j \in Milestones : j # n => OpenDisputes(q, j) = {}
    BY <1>1 DEF AfterDisputeResolved, OpenDisputes
  <2> QED  BY <2>1, <2>2
<1>6. StatusIs(q, StageAfter(n), t) /\ DisputesAre(q, n + 1, StageAfter(n))
  BY <1>1, <1>2, <1>5 DEF StatusIs, DisputesAre, StageAfter, StatusAfterDispute, NoOpenDispute, AllIn
<1> QED  BY <1>1, <1>2, <1>6 DEF Mirrors

(* Every milestone not settled before is voided.                            *)
LEMMA MirrorsCancelled ==
  ASSUME NEW r, NEW q, NEW n \in 0..MilestoneCount, NEW s, NEW w, NEW o, NEW t, NEW o2,
         Mirrors(r, n, s, w, o, t), AfterCancelled(r, q), VoidsTheRest(o, n, o2)
  PROVE  Mirrors(q, MilestoneCount, "Cancelled", "Pending", o2, t)
<1>1. /\ q \in Rows /\ q.status = "CANCELLED"
      /\ \A j \in Milestones :
           q.milestone[j] = IF r.milestone[j] \in Settled THEN r.milestone[j] ELSE "VOIDED"
      /\ \A j \in Milestones : r.milestone[j] = RowFor(j, n, s, w, o, t)
  BY DEF AfterCancelled, Mirrors, MilestonesAre
<1>2. /\ \A j \in Milestones : j \in Nat /\ j < MilestoneCount
      /\ n \in Nat /\ MilestoneCount \in Nat
  BY MilestoneConstants DEF Milestones
<1>3. MilestonesAre(q, MilestoneCount, "Cancelled", "Pending", o2, t)
  BY <1>1, <1>2 DEF MilestonesAre, RowFor, Settled, VoidsTheRest
<1> QED  BY <1>1, <1>3 DEF Mirrors, StatusIs, DisputesAre

-----------------------------------------------------------------------------
(* An event carries rows that mirror the chain before it to rows that       *)
(* mirror the chain after it.                                               *)
Carries(e, n, s, w, o, t, n2, s2, w2, o2, t2) ==
  \A r, q : Mirrors(r, n, s, w, o, t) /\ q = ApplyEvent(r, e) =>
              Mirrors(q, n2, s2, w2, o2, t2)

(* So each kind of event carries rows on: ProjectFunded,                    *)
LEMMA FundingCarries ==
  ASSUME NEW e \in ChainEvents, e.name = "ProjectFunded", NEW n \in Nat,
         NEW s \in {"Active", "Disputed"}, NEW w, NEW o, NEW t \in Nat, t <= e.funded
  PROVE  Carries(e, n, s, w, o, t, n, s, w, o, e.funded)
<1>1. ASSUME NEW r, NEW q, Mirrors(r, n, s, w, o, t), q = ApplyEvent(r, e)
      PROVE  Mirrors(q, n, s, w, o, e.funded)
  <2> DEFINE a == e.funded
  <2>1. a \in Nat /\ AfterFunded(r, q, a) /\ t <= a
    BY <1>1, ApplyEventRow DEF Applies, Mirrors
  <2>2. a = e.funded
    OBVIOUS
  <2> HIDE DEF a
  <2>3. Mirrors(q, n, s, w, o, a)
    BY <1>1, <2>1, MirrorsFunded
  <2> QED  BY <2>2, <2>3
<1> QED  BY <1>1 DEF Carries

(* MilestoneSubmitted and MilestoneApproved,                                *)
LEMMA WorkCarries ==
  ASSUME NEW e \in ChainEvents, NEW n \in Milestones, NEW o, NEW t,
         e.name \in {"MilestoneSubmitted", "MilestoneApproved"}, e.milestone = n
  PROVE  /\ e.name = "MilestoneSubmitted" =>
              Carries(e, n, "Active", "Pending", o, t, n, "Active", "Submitted", o, t)
         /\ e.name = "MilestoneApproved" =>
              Carries(e, n, "Active", "Submitted", o, t, n, "Active", "Approved", o, t)
<1>1. ASSUME NEW r, NEW q, r \in Rows, q = ApplyEvent(r, e)
      PROVE  /\ e.name = "MilestoneSubmitted" => AfterSubmitted(r, q, n)
             /\ e.name = "MilestoneApproved" => AfterApproved(r, q, n)
  BY <1>1, ApplyEventRow DEF Applies
<1>2. ASSUME NEW r, NEW s, NEW w, Mirrors(r, n, s, w, o, t) PROVE r \in Rows
  BY <1>2 DEF Mirrors
<1>3. CASE e.name = "MilestoneSubmitted"
  BY <1>1, <1>2, <1>3, MirrorsSubmitted DEF Carries
<1>4. CASE e.name = "MilestoneApproved"
  BY <1>1, <1>2, <1>4, MirrorsApproved DEF Carries
<1> QED  BY <1>3, <1>4

(* DisputeRaised,                                                           *)
LEMMA DisputeCarries ==
  ASSUME NEW e \in ChainEvents, e.name = "DisputeRaised", NEW n \in Milestones,
         e.milestone = n, NEW w, NEW o, NEW t
  PROVE  Carries(e, n, "Active", w, o, t, n, "Disputed", w, o, t)
<1>1. ASSUME NEW r, NEW q, Mirrors(r, n, "Active", w, o, t), q = ApplyEvent(r, e)
      PROVE  AfterDisputeRaised(r, q, n)
  BY <1>1, ApplyEventRow DEF Applies, Mirrors
<1> QED  BY <1>1, MirrorsRaised DEF Carries

(* DisputeEvidenceAppended,                                                 *)
LEMMA EvidenceCarries ==
  ASSUME NEW e \in ChainEvents, e.name = "DisputeEvidenceAppended",
         NEW n, NEW s, NEW w, NEW o, NEW t
  PROVE  Carries(e, n, s, w, o, t, n, s, w, o, t)
<1>1. ASSUME NEW r, NEW q, Mirrors(r, n, s, w, o, t), q = ApplyEvent(r, e)
      PROVE  AfterEvidence(r, q)
  BY <1>1, ApplyEventRow DEF Applies, Mirrors
<1> QED  BY <1>1, MirrorsEvidence DEF Carries

(* MilestoneFundsReleased,                                                  *)
LEMMA PaymentCarries ==
  ASSUME NEW e \in ChainEvents, e.name = "MilestoneFundsReleased", NEW n \in Milestones,
         e.milestone = n, NEW w, NEW o \in Outcomes, NEW t,
         NEW o2, o2 = OutcomeAfter(o, n, "Released")
  PROVE  Carries(e, n, "Active", w, o, t, n + 1, StageAfter(n), "Pending", o2, t)
<1>1. ASSUME NEW r, NEW q, Mirrors(r, n, "Active", w, o, t), q = ApplyEvent(r, e)
      PROVE  AfterReleased(r, q, n)
  BY <1>1, ApplyEventRow DEF Applies, Mirrors
<1> QED  BY <1>1, MirrorsReleased DEF Carries

(* DisputeResolved, whose kind is lost,                                     *)
LEMMA DecisionCarries ==
  ASSUME NEW e \in ChainEvents, e.name = "DisputeResolved", NEW n \in Milestones,
         e.milestone = n, NEW w, NEW o \in Outcomes, NEW t,
         NEW o2, o2 = OutcomeAfter(o, n, "Released")
  PROVE  Carries(e, n, "Disputed", w, o, t, n + 1, StageAfter(n), "Pending", o2, t)
<1> DEFINE read == KindAsRead(e.kind)
<1>1. (IF read = "RefundToClient" THEN "Refunded" ELSE "Released") = "Released"
  BY DEF KindAsRead
<1>2. ASSUME NEW r, NEW q, Mirrors(r, n, "Disputed", w, o, t), q = ApplyEvent(r, e)
      PROVE  AfterDisputeResolved(r, q, n, read)
  BY <1>2, ApplyEventRow DEF Applies, Mirrors
<1> HIDE DEF read
<1> QED  BY <1>1, <1>2, MirrorsResolved DEF Carries

(* and ProjectCancelled.                                                    *)
LEMMA CancellationCarries ==
  ASSUME NEW e \in ChainEvents, e.name = "ProjectCancelled", NEW n \in 0..MilestoneCount,
         NEW s, NEW w, NEW o, NEW t, NEW o2, VoidsTheRest(o, n, o2)
  PROVE  Carries(e, n, s, w, o, t, MilestoneCount, "Cancelled", "Pending", o2, t)
<1>1. ASSUME NEW r, NEW q, Mirrors(r, n, s, w, o, t), q = ApplyEvent(r, e)
      PROVE  AfterCancelled(r, q)
  BY <1>1, ApplyEventRow DEF Applies, Mirrors
<1> QED  BY <1>1, MirrorsCancelled DEF Carries

(* One event more. *)
LEMMA ReplayGrows ==
  ASSUME NEW log \in Seq(ChainEvents), NEW e \in ChainEvents, NEW k \in 0..Len(log), NEW r,
         NEW n, NEW s, NEW w, NEW o, NEW t, NEW n2, NEW s2, NEW w2, NEW o2, NEW t2,
         Replays(log, k, r, n, s, w, o, t), Carries(e, n, s, w, o, t, n2, s2, w2, o2, t2),
         NEW log2, log2 = log \o <<e>>
  PROVE  Replays(log2, k, r, n2, s2, w2, o2, t2)
<1>1. PICK f \in [0..Len(log) -> Rows] :
        IsReplay(f, log) /\ f[k] = r /\ Mirrors(f[Len(log)], n, s, w, o, t)
  BY DEF Replays
<1> DEFINE L == Len(log)
           q == ApplyEvent(f[L], e)
           g == [i \in 0..(L + 1) |-> IF i <= L THEN f[i] ELSE q]
<1>2. /\ L \in Nat /\ Len(log2) = L + 1 /\ log2[L + 1] = e
      /\ \A i \in 1..L : log2[i] = log[i]
  OBVIOUS
<1>3. Mirrors(q, n2, s2, w2, o2, t2)
  BY <1>1 DEF Carries
<1>4. q \in Rows
  BY <1>3 DEF Mirrors
<1>5. q = ApplyEvent(f[L], e) /\ L = Len(log)
  OBVIOUS
<1> HIDE DEF q, L
<1>6. g \in [0..Len(log2) -> Rows]
  BY <1>1, <1>2, <1>4, <1>5
<1>7. \A i \in 0..L : g[i] = f[i]
  BY <1>2
<1>8. g[L + 1] = q
  BY <1>2
<1> HIDE DEF g
<1>9. ASSUME NEW i \in 0..Len(log2), i < Len(log2)
      PROVE  g[i + 1] = ApplyEvent(g[i], log2[i + 1])
  <2>1. CASE i = L
    BY <1>2, <1>3, <1>5, <1>7, <1>8, <2>1
  <2>2. CASE i # L
    <3>1. i \in 0..L /\ i + 1 \in 0..L /\ i < L /\ i + 1 \in 1..L
      BY <1>2, <1>9, <2>2
    <3>2. f[i + 1] = ApplyEvent(f[i], log[i + 1])
      BY <1>1, <1>5, <3>1 DEF IsReplay
    <3> QED  BY <1>2, <1>7, <3>1, <3>2
  <2> QED  BY <2>1, <2>2
<1>10. IsReplay(g, log2)
  BY <1>1, <1>2, <1>6, <1>7, <1>9 DEF IsReplay
<1>11. g[k] = r /\ Mirrors(g[Len(log2)], n2, s2, w2, o2, t2)
  BY <1>1, <1>2, <1>3, <1>5, <1>7, <1>8
<1> QED  BY <1>6, <1>10, <1>11 DEF Replays

(* Outcomes are shown as outcomes.                                          *)
LEMMA OutcomeShownIs ==
  ASSUME ChainOK
  PROVE  OutcomeShown \in Outcomes
BY DEF ChainOK, OutcomeShown, Outcomes

(* An event that is no decision decides nothing,                            *)
LEMMA DecidedBefore ==
  ASSUME events \in Seq(ChainEvents), NEW e \in ChainEvents, e.name # "DisputeResolved",
         NEW log \in Seq(ChainEvents), log = events \/ log = events \o <<e>>,
         NEW i, NEW n \in DOMAIN log, log[n].name = "DisputeResolved", log[n].milestone = i
  PROVE  IsDecided(i)
<1>1. n \in DOMAIN events /\ log[n] = events[n]
  <2>1. CASE log = events
    BY <2>1
  <2>2. CASE log = events \o <<e>>
    <3>1. n \in 1..(Len(events) + 1)
      BY <2>2
    <3>2. n # Len(events) + 1
      BY <2>2
    <3> QED  BY <2>2, <3>1, <3>2
  <2> QED  BY <2>1, <2>2
<1> QED  BY <1>1 DEF IsDecided

(* so outcomes are shown as before.                                         *)
LEMMA ShownStays ==
  ASSUME events \in Seq(ChainEvents), NEW e \in ChainEvents, e.name # "DisputeResolved",
         events' = events \o <<e>>
  PROVE  /\ \A i : IsDecided(i)' <=> IsDecided(i)
         /\ outcome' = outcome => OutcomeShown' = OutcomeShown
<1>1. events' \in Seq(ChainEvents)
  OBVIOUS
<1>2. ASSUME NEW i, IsDecided(i)' PROVE IsDecided(i)
  BY <1>1, <1>2, DecidedBefore DEF IsDecided
<1>3. ASSUME NEW i, IsDecided(i) PROVE IsDecided(i)'
  BY <1>3 DEF IsDecided
<1> QED  BY <1>2, <1>3 DEF OutcomeShown

(* Rows that are written meanwhile by event sync only.                      *)
LEMMA FundProjectReplays ==
  ASSUME BaseInv, ReplayInv, NEW amount \in Deposits, FundProject(amount),
         UNCHANGED <<applied, rows>>
  PROVE  ReplayInv'
<1> DEFINE e == [name |-> "ProjectFunded", amount |-> amount, funded |-> funded + amount]
<1>1. /\ amount \in Nat /\ funded \in Nat /\ next \in Nat /\ events \in Seq(ChainEvents)
      /\ applied \in 0..Len(events)
  BY MilestoneConstants DEF BaseInv, ChainOK, EventsTrue
<1>2. /\ stage \in {"Active", "Disputed"} /\ funded' = funded + amount
      /\ events' = events \o <<e>>
      /\ UNCHANGED <<stage, next, work, outcome>>
  BY DEF FundProject, Deposit, IsOpen, Emit
<1>3. e \in ChainEvents /\ e.name = "ProjectFunded" /\ e.funded = funded' /\ funded <= e.funded
  BY <1>1, <1>2 DEF ChainEvents, FundedEvents
<1> HIDE DEF e
<1>4. Carries(e, next, stage, work, OutcomeShown, funded, next, stage, work, OutcomeShown, e.funded)
  BY <1>1, <1>2, <1>3, FundingCarries
<1>5. Replays(events', applied, rows, next, stage, work, OutcomeShown, e.funded)
  BY <1>1, <1>2, <1>3, <1>4, ReplayGrows DEF ReplayInv
<1>6. OutcomeShown' = OutcomeShown
  BY <1>1, <1>2, <1>3, ShownStays
<1> QED  BY <1>2, <1>3, <1>5, <1>6 DEF ReplayInv

(* A delivery, an approval, a dispute.                                      *)
LEMMA WorkReplays ==
  ASSUME BaseInv, ReplayInv, NEW i \in Milestones, NEW uri \in Nat,
         SubmitMilestone(i, uri) \/ ApproveMilestone(i) \/ RaiseDispute(i),
         UNCHANGED <<applied, rows>>
  PROVE  ReplayInv'
<1>1. events \in Seq(ChainEvents) /\ applied \in 0..Len(events)
  BY DEF BaseInv, EventsTrue
<1>2. CASE SubmitMilestone(i, uri)
  <2> DEFINE e == [name |-> "MilestoneSubmitted", milestone |-> i, uri |-> uri]
  <2>1. /\ stage = "Active" /\ work = "Pending" /\ work' = "Submitted" /\ next = i
        /\ events' = events \o <<e>> /\ UNCHANGED <<stage, next, outcome, funded>>
    BY <1>2 DEF SubmitMilestone, CanSubmit, Deliver, Emit
  <2>2. e \in ChainEvents /\ e.name = "MilestoneSubmitted" /\ e.milestone = next
    BY <2>1 DEF ChainEvents, SubmittedEvents
  <2> HIDE DEF e
  <2>3. Carries(e, next, "Active", "Pending", OutcomeShown, funded,
                next, "Active", "Submitted", OutcomeShown, funded)
    BY <2>1, <2>2, WorkCarries
  <2>4. Replays(events, applied, rows, next, "Active", "Pending", OutcomeShown, funded)
    BY <2>1 DEF ReplayInv
  <2>5. Replays(events', applied, rows, next, "Active", "Submitted", OutcomeShown, funded)
    BY <1>1, <2>1, <2>2, <2>3, <2>4, ReplayGrows
  <2>6. OutcomeShown' = OutcomeShown
    BY <1>1, <2>1, <2>2, ShownStays
  <2> QED  BY <2>1, <2>5, <2>6 DEF ReplayInv
<1>3. CASE ApproveMilestone(i)
  <2> DEFINE e == Event("MilestoneApproved", i)
  <2>1. /\ stage = "Active" /\ work = "Submitted" /\ work' = "Approved" /\ next = i
        /\ events' = events \o <<e>> /\ UNCHANGED <<stage, next, outcome, funded>>
    BY <1>3 DEF ApproveMilestone, CanApprove, Approve, Emit
  <2>2. e \in ChainEvents /\ e.name = "MilestoneApproved" /\ e.milestone = next
    BY <2>1 DEF ChainEvents, WorkEvents, Event
  <2> HIDE DEF e
  <2>3. Carries(e, next, "Active", "Submitted", OutcomeShown, funded,
                next, "Active", "Approved", OutcomeShown, funded)
    BY <2>1, <2>2, WorkCarries
  <2>4. Replays(events, applied, rows, next, "Active", "Submitted", OutcomeShown, funded)
    BY <2>1 DEF ReplayInv
  <2>5. Replays(events', applied, rows, next, "Active", "Approved", OutcomeShown, funded)
    BY <1>1, <2>1, <2>2, <2>3, <2>4, ReplayGrows
  <2>6. OutcomeShown' = OutcomeShown
    BY <1>1, <2>1, <2>2, ShownStays
  <2> QED  BY <2>1, <2>5, <2>6 DEF ReplayInv
<1>4. CASE RaiseDispute(i)
  <2> DEFINE e == Event("DisputeRaised", i)
  <2>1. /\ stage = "Active" /\ stage' = "Disputed" /\ next = i
        /\ events' = events \o <<e>> /\ UNCHANGED <<work, next, outcome, funded>>
    BY <1>4 DEF RaiseDispute, CanRaise, Contest, Emit
  <2>2. e \in ChainEvents /\ e.name = "DisputeRaised" /\ e.milestone = next
    BY <2>1 DEF ChainEvents, WorkEvents, Event
  <2> HIDE DEF e
  <2>3. Carries(e, next, "Active", work, OutcomeShown, funded,
                next, "Disputed", work, OutcomeShown, funded)
    BY <2>1, <2>2, DisputeCarries
  <2>4. Replays(events, applied, rows, next, "Active", work, OutcomeShown, funded)
    BY <2>1 DEF ReplayInv
  <2>5. Replays(events', applied, rows, next, "Disputed", work, OutcomeShown, funded)
    BY <1>1, <2>1, <2>2, <2>3, <2>4, ReplayGrows
  <2>6. OutcomeShown' = OutcomeShown
    BY <1>1, <2>1, <2>2, ShownStays
  <2> QED  BY <2>1, <2>5, <2>6 DEF ReplayInv
<1> QED  BY <1>2, <1>3, <1>4

(* More evidence.                                                           *)
LEMMA AppendDisputeEvidenceReplays ==
  ASSUME BaseInv, ReplayInv, NEW i \in Milestones, AppendDisputeEvidence(i),
         UNCHANGED <<applied, rows>>
  PROVE  ReplayInv'
<1> DEFINE e == Event("DisputeEvidenceAppended", i)
<1>1. events \in Seq(ChainEvents) /\ applied \in 0..Len(events)
  BY DEF BaseInv, EventsTrue
<1>2. events' = events \o <<e>> /\ UNCHANGED <<stage, next, work, outcome, funded>>
  BY DEF AppendDisputeEvidence, Emit, lifecycleVars
<1>3. e \in ChainEvents /\ e.name = "DisputeEvidenceAppended"
  BY DEF ChainEvents, WorkEvents, Event
<1> HIDE DEF e
<1>4. Carries(e, next, stage, work, OutcomeShown, funded, next, stage, work, OutcomeShown, funded)
  BY <1>3, EvidenceCarries
<1>5. Replays(events', applied, rows, next, stage, work, OutcomeShown, funded)
  BY <1>1, <1>2, <1>3, <1>4, ReplayGrows DEF ReplayInv
<1>6. OutcomeShown' = OutcomeShown
  BY <1>1, <1>2, <1>3, ShownStays
<1> QED  BY <1>2, <1>5, <1>6 DEF ReplayInv

(* A payment.                                                               *)
LEMMA ReleaseMilestoneReplays ==
  ASSUME BaseInv, ReplayInv, NEW i \in Milestones, ReleaseMilestone(i),
         UNCHANGED <<applied, rows>>
  PROVE  ReplayInv'
<1> DEFINE e == Payment(i)
<1>1. /\ events \in Seq(ChainEvents) /\ applied \in 0..Len(events) /\ outcome \in Outcomes
      /\ agreement.count = MilestoneCount
      /\ OutcomeShown \in Outcomes
  BY OutcomeShownIs DEF BaseInv, EventsTrue, ChainOK, Outcomes
<1>2. /\ stage = "Active" /\ next = i /\ Settle(Price, 0) /\ events' = events \o <<e>>
  BY DEF ReleaseMilestone, CanRelease, Release, Emit
<1>3. Price \in Nat /\ Price > 0
  BY <1>2, PriceIs DEF BaseInv, IsOpen
<1>4. /\ outcome' = OutcomeAfter(outcome, next, "Released") /\ next' = next + 1
      /\ work' = "Pending" /\ stage' = StageAfter(next) /\ funded' = funded
  <2> DEFINE price == Price
  <2>1. price > 0 /\ price \in Nat
    BY <1>3
  <2>2. Settle(price, 0)
    BY <1>2
  <2> HIDE DEF price
  <2>3. price # 0
    BY <2>1
  <2>4. (IF price = 0 THEN "Refunded" ELSE "Released") = "Released"
    BY <2>3
  <2> QED  BY <1>1, <2>2, <2>4 DEF Settle, OutcomeAfter, StageAfter
<1>5. e \in ChainEvents /\ e.name = "MilestoneFundsReleased" /\ e.milestone = next
  BY <1>2, <1>3 DEF ChainEvents, PaymentEvents, Payment
<1> HIDE DEF e
<1>s. OutcomeShown' = OutcomeAfter(OutcomeShown, next, "Released")
  <2>1. \A j : IsDecided(j)' <=> IsDecided(j)
    BY <1>1, <1>2, <1>5, ShownStays
  <2> QED  BY <1>1, <1>4, <2>1 DEF OutcomeShown, OutcomeAfter, Outcomes
<1>6. Carries(e, next, "Active", work, OutcomeShown, funded, next + 1, StageAfter(next), "Pending",
              OutcomeShown', funded)
  BY <1>1, <1>2, <1>5, <1>s, PaymentCarries
<1>7. Replays(events, applied, rows, next, "Active", work, OutcomeShown, funded)
  BY <1>2 DEF ReplayInv
<1>8. Replays(events', applied, rows, next + 1, StageAfter(next), "Pending", OutcomeShown', funded)
  BY <1>1, <1>2, <1>5, <1>6, <1>7, ReplayGrows
<1> QED  BY <1>4, <1>8 DEF ReplayInv

(* A decision.                                                              *)
LEMMA SettleDisputeReplays ==
  ASSUME BaseInv, ReplayInv, NEW i \in Milestones, NEW amount \in Amounts,
         SettleDispute(i, amount), UNCHANGED <<applied, rows>>
  PROVE  ReplayInv'
<1> DEFINE e == Decision(i, amount)
           to == IF e.kind = "RefundToClient" THEN "Refunded" ELSE "Released"
<1>1. /\ events \in Seq(ChainEvents) /\ applied \in 0..Len(events) /\ outcome \in Outcomes
      /\ agreement.count = MilestoneCount /\ ChainOK /\ OutcomeShown \in Outcomes
  BY OutcomeShownIs DEF BaseInv, EventsTrue, ChainOK, Outcomes
<1>2. /\ stage = "Disputed" /\ next = i /\ Settle(amount, Price - amount)
      /\ events' = events \o <<e>>
  BY DEF SettleDispute, IsDisputed, Decide, Decision, Emit
<1>3. /\ Price \in Nat /\ Price > 0 /\ amount \in Nat /\ KindOf(amount) \in ResolutionKind
  BY <1>1, <1>2, PriceIs, AmountsArePartsOfThePrice DEF IsOpen
<1>4. e.kind = KindOf(amount) /\ (KindOf(amount) = "RefundToClient" <=> amount = 0)
  BY <1>3 DEF Decision, KindOf
<1>5. /\ outcome' = OutcomeAfter(outcome, next, to) /\ next' = next + 1
      /\ work' = "Pending" /\ stage' = StageAfter(next) /\ funded' = funded
  BY <1>1, <1>2, <1>4 DEF Settle, OutcomeAfter, StageAfter
<1>6. e \in ChainEvents /\ e.name = "DisputeResolved" /\ e.milestone = next
  BY <1>2, <1>3 DEF ChainEvents, DecisionEvents, Decision
<1> HIDE DEF e, to
<1>7. OutcomeShown' = OutcomeAfter(OutcomeShown, next, "Released")
  <2>1. ASSUME NEW j \in Milestones PROVE IsDecided(j)' <=> IsDecided(j) \/ j = next
    <3>1. /\ DOMAIN events = 1..Len(events) /\ DOMAIN events' = 1..(Len(events) + 1)
          /\ Len(events) \in Nat /\ events'[Len(events) + 1] = e
          /\ \A n \in 1..Len(events) : events'[n] = events[n]
      BY <1>1, <1>2
    <3>2. ASSUME IsDecided(j)' PROVE IsDecided(j) \/ j = next
      <4>1. PICK n \in DOMAIN events' :
              events'[n].name = "DisputeResolved" /\ events'[n].milestone = j
        BY <3>2 DEF IsDecided
      <4>2. CASE n = Len(events) + 1
        BY <1>6, <3>1, <4>1, <4>2
      <4>3. CASE n # Len(events) + 1
        BY <3>1, <4>1, <4>3 DEF IsDecided
      <4> QED  BY <4>2, <4>3
    <3>3. IsDecided(j) => IsDecided(j)'
      BY <3>1 DEF IsDecided
    <3>4. j = next => IsDecided(j)'
      BY <1>6, <3>1 DEF IsDecided
    <3> QED  BY <3>2, <3>3, <3>4
  <2>2. \A j \in Milestones : j # next => outcome'[j] = outcome[j]
    BY <1>1, <1>5 DEF OutcomeAfter, Outcomes
  <2> QED  BY <2>1, <2>2 DEF OutcomeShown, OutcomeAfter
<1>8. Carries(e, next, "Disputed", work, OutcomeShown, funded, next + 1, StageAfter(next), "Pending",
              OutcomeShown', funded)
  BY <1>1, <1>2, <1>6, <1>7, DecisionCarries
<1>9. Replays(events, applied, rows, next, "Disputed", work, OutcomeShown, funded)
  BY <1>2 DEF ReplayInv
<1>10. Replays(events', applied, rows, next + 1, StageAfter(next), "Pending", OutcomeShown', funded)
  BY <1>1, <1>2, <1>6, <1>8, <1>9, ReplayGrows
<1> QED  BY <1>5, <1>10 DEF ReplayInv

(* A project is called off: a payment of delivered work, then the end.      *)
LEMMA CancelProjectReplays ==
  ASSUME BaseInv, ReplayInv, CancelProject, UNCHANGED <<applied, rows>>
  PROVE  ReplayInv'
<1> DEFINE end == [name |-> "ProjectCancelled"]
           pay == Payment(next)
<1>1. /\ events \in Seq(ChainEvents) /\ applied \in 0..Len(events) /\ outcome \in Outcomes
      /\ agreement.count = MilestoneCount /\ ChainOK /\ OutcomeShown \in Outcomes
      /\ work \in {"Pending", "Submitted", "Approved"}
  BY OutcomeShownIs DEF BaseInv, EventsTrue, ChainOK, Outcomes
<1>2. /\ stage = "Active" \/ (stage = "Disputed" /\ work = "Pending")
      /\ outcome' = [i \in MilestoneIndexes |->
           IF i \notin next..(agreement.count - 1) THEN outcome[i]
           ELSE IF i = next /\ work = "Submitted" THEN "Released" ELSE "Refunded"]
      /\ next' = MilestoneCount /\ work' = "Pending" /\ stage' = "Cancelled"
      /\ funded' = funded
      /\ events' = events \o ((IF work = "Submitted" THEN <<pay>> ELSE <<>>) \o <<end>>)
  BY <1>1 DEF CancelProject, CallOff, Emit
<1>3. next \in Milestones /\ Price \in Nat /\ MilestoneIndexes = Milestones
  BY <1>1, <1>2, PriceIs DEF IsOpen
<1>4. /\ MilestoneCount \in Nat /\ next \in Nat /\ next < MilestoneCount
      /\ \A i \in Milestones : i \in Nat /\ i < MilestoneCount
      /\ next \in 0..MilestoneCount /\ next + 1 \in 0..MilestoneCount
  BY <1>3, MilestoneConstants DEF Milestones
<1>5. \A i \in Milestones :
        outcome'[i] = IF i < next THEN outcome[i]
                      ELSE IF i = next /\ work = "Submitted" THEN "Released" ELSE "Refunded"
  BY <1>1, <1>2, <1>3, <1>4
<1>6. end \in ChainEvents /\ end.name = "ProjectCancelled"
  BY DEF ChainEvents, CancelEvents
<1>7. /\ pay \in ChainEvents /\ pay.name = "MilestoneFundsReleased" /\ pay.milestone = next
  BY <1>3 DEF ChainEvents, PaymentEvents, Payment
<1> HIDE DEF end, pay
<1>d. \A i \in Milestones : (IsDecided(i)' <=> IsDecided(i)) /\ (IsDecided(i) => i < next)
  <2>1. ASSUME NEW i \in Milestones, NEW n \in DOMAIN events,
               events[n].name = "DisputeResolved", events[n].milestone = i
        PROVE  i < next
    <3>1. EventTrue(events[n], funded, next)
      BY <1>1 DEF BaseInv, EventsTrue
    <3> QED  BY <2>1, <3>1 DEF EventTrue
  <2>2. /\ DOMAIN events = 1..Len(events) /\ Len(events) \in Nat
        /\ DOMAIN events' = 1..Len(events') /\ Len(events) <= Len(events')
        /\ \A n \in 1..Len(events) : events'[n] = events[n]
        /\ \A n \in DOMAIN events' : n \notin 1..Len(events) =>
             events'[n].name # "DisputeResolved"
    <3>1. CASE work = "Submitted"
      <4>1. events' = events \o <<pay, end>>
        BY <1>2, <3>1
      <4> QED  BY <1>1, <1>6, <1>7, <4>1
    <3>2. CASE work # "Submitted"
      <4>1. events' = events \o <<end>>
        BY <1>2, <3>2
      <4> QED  BY <1>1, <1>6, <4>1
    <3> QED  BY <3>1, <3>2
  <2>3. ASSUME NEW i \in Milestones PROVE IsDecided(i)' <=> IsDecided(i)
    BY <2>2 DEF IsDecided
  <2> QED  BY <2>1, <2>3 DEF IsDecided
<1>s. \A i \in Milestones :
        OutcomeShown'[i] = IF i < next THEN OutcomeShown[i]
                           ELSE IF i = next /\ work = "Submitted" THEN "Released" ELSE "Refunded"
  BY <1>5, <1>d DEF OutcomeShown
<1>8. CASE work # "Submitted"
  <2>1. events' = events \o <<end>>
    BY <1>2, <1>8
  <2>2. VoidsTheRest(OutcomeShown, next, OutcomeShown')
    BY <1>1, <1>3, <1>4, <1>8, <1>s DEF VoidsTheRest
  <2>3. Carries(end, next, stage, work, OutcomeShown, funded,
                MilestoneCount, "Cancelled", "Pending", OutcomeShown', funded)
    BY <1>4, <1>6, <2>2, CancellationCarries
  <2>4. Replays(events', applied, rows, MilestoneCount, "Cancelled", "Pending", OutcomeShown', funded)
    BY <1>1, <1>6, <2>1, <2>3, ReplayGrows DEF ReplayInv
  <2> QED  BY <1>2, <2>4 DEF ReplayInv
<1>9. CASE work = "Submitted"
  <2> DEFINE log == events \o <<pay>>
             o == OutcomeAfter(OutcomeShown, next, "Released")
  <2>1. /\ stage = "Active" /\ events' = log \o <<end>> /\ log \in Seq(ChainEvents)
        /\ Len(log) = Len(events) + 1
    BY <1>1, <1>2, <1>7, <1>9
  <2>2. log = events \o <<pay>> /\ o = OutcomeAfter(OutcomeShown, next, "Released")
    OBVIOUS
  <2> HIDE DEF log, o
  <2>3. Carries(pay, next, "Active", work, OutcomeShown, funded,
                next + 1, StageAfter(next), "Pending", o, funded)
    BY <1>1, <1>3, <1>7, <2>2, PaymentCarries
  <2>4. Replays(events, applied, rows, next, "Active", work, OutcomeShown, funded)
    BY <2>1 DEF ReplayInv
  <2>5. Replays(log, applied, rows, next + 1, StageAfter(next), "Pending", o, funded)
    BY <1>1, <1>7, <2>2, <2>3, <2>4, ReplayGrows
  <2>6. VoidsTheRest(o, next + 1, OutcomeShown')
    BY <1>1, <1>3, <1>4, <1>9, <1>s, <2>2 DEF VoidsTheRest, OutcomeAfter, Outcomes
  <2>7. Carries(end, next + 1, StageAfter(next), "Pending", o, funded,
                MilestoneCount, "Cancelled", "Pending", OutcomeShown', funded)
    BY <1>4, <1>6, <2>6, CancellationCarries
  <2>8. applied \in 0..Len(log)
    BY <1>1, <2>1
  <2>9. Replays(events', applied, rows, MilestoneCount, "Cancelled", "Pending", OutcomeShown', funded)
    BY <1>6, <2>1, <2>5, <2>7, <2>8, ReplayGrows
  <2> QED  BY <1>2, <2>9 DEF ReplayInv
<1> QED  BY <1>8, <1>9

(* Any call.                                                                *)
LEMMA DirectCallReplays ==
  ASSUME BaseInv, ReplayInv, DirectCall
  PROVE  ReplayInv'
<1>t. UNCHANGED <<applied, rows>>
  BY DEF DirectCall
<1>1. ASSUME NEW amount \in Deposits, FundProject(amount) PROVE ReplayInv'
  BY <1>t, <1>1, FundProjectReplays
<1>2. ASSUME NEW i \in Milestones, SubmitMilestone(i, 0) \/ ApproveMilestone(i) \/ RaiseDispute(i)
      PROVE  ReplayInv'
  BY <1>t, <1>2, WorkReplays
<1>3. ASSUME NEW i \in Milestones, ReleaseMilestone(i) PROVE ReplayInv'
  BY <1>t, <1>3, ReleaseMilestoneReplays
<1>4. ASSUME NEW i \in Milestones, AppendDisputeEvidence(i) PROVE ReplayInv'
  BY <1>t, <1>4, AppendDisputeEvidenceReplays
<1>5. ASSUME NEW i \in Milestones, NEW amount \in Amounts, SettleDispute(i, amount)
      PROVE  ReplayInv'
  BY <1>t, <1>5, SettleDisputeReplays
<1>6. ASSUME NEW i \in Milestones, NEW a, NEW amount \in Amounts, ResolveDispute(i, a, amount)
      PROVE  ReplayInv'
  <2>1. SettleDispute(i, amount) \/ UNCHANGED <<lifecycleVars, events, undo>>
    BY <1>6, ResolveDisputeMoves DEF BaseInv
  <2>2. CASE UNCHANGED <<lifecycleVars, events, undo>>
    BY <1>t, <2>2 DEF ReplayInv, OutcomeShown, IsDecided, lifecycleVars
  <2> QED  BY <1>5, <2>1, <2>2
<1>7. CASE CancelProject
  BY <1>t, <1>7, CancelProjectReplays
<1> QED  BY <1>1, <1>2, <1>3, <1>4, <1>5, <1>6, <1>7 DEF DirectCall

(* Event sync takes the next step of the replay.                            *)
LEMMA SyncEventReplays ==
  ASSUME BaseInv, ReplayInv, SyncEvent
  PROVE  ReplayInv'
<1>1. /\ applied < Len(events) /\ applied' = applied + 1
      /\ rows' = ApplyEvent(rows, events[applied + 1])
      /\ UNCHANGED <<stage, next, work, outcome, funded, events>>
  BY DEF SyncEvent, chainVars, lifecycleVars
<1>2. PICK f \in [0..Len(events) -> Rows] :
        /\ IsReplay(f, events) /\ f[applied] = rows
        /\ Mirrors(f[Len(events)], next, stage, work, OutcomeShown, funded)
  BY DEF ReplayInv, Replays
<1>3. applied \in 0..Len(events)
  BY DEF BaseInv
<1>4. f[applied + 1] = ApplyEvent(f[applied], events[applied + 1])
  BY <1>1, <1>2, <1>3 DEF IsReplay
<1>5. f[applied'] = rows'
  BY <1>1, <1>2, <1>4
<1>6. Replays(events, applied', rows', next, stage, work, OutcomeShown, funded)
  BY <1>2, <1>5 DEF Replays
<1> QED  BY <1>1, <1>6 DEF ReplayInv, OutcomeShown, IsDecided

(* Without pages, calls and event sync are all that happens.                *)
LEMMA NoPageMoves ==
  ASSUME OpenPages = {}, \A p \in Pages : page[p].at = "closed"
  PROVE  ~PageStep /\ \A p \in Pages : ~Leave(p)
<1>1. /\ page["submit"].at = "closed" /\ page["approve"].at = "closed"
      /\ page["dispute"].at = "closed" /\ page["fund"].at = "closed"
      /\ page["admin"].at = "closed"
  BY DEF Pages
<1>2. ~SubmitPage
  BY <1>1 DEF SubmitPage, OpenSubmit, ReadSubmission, StoreSubmission, SignSubmission, At
<1>3. ~ApprovalPanel
  BY <1>1 DEF ApprovalPanel, OpenApproval, CheckApproval, SignApproval, CheckRelease,
              SignRelease, ReadReview, StoreReview, CountReleased, StoreReviewStatus, At
<1>4. ~DisputePanel
  BY <1>1 DEF DisputePanel, OpenDispute, CheckDispute, SignDispute, ReadDispute,
              StoreDispute, At
<1>5. ~FundingPanel
  BY <1>1 DEF FundingPanel, OpenFunding, SignFunding, ReadFunded, ReadMilestones,
              StoreFunding, At
<1>6. ~DisputeQueue
  BY <1>1 DEF DisputeQueue, OpenResolution, CheckResolution, SignResolution,
              ReadResolution, StoreResolution, At
<1>7. \A p \in Pages : ~Leave(p)
  BY DEF Leave, At
<1> QED  BY <1>2, <1>3, <1>4, <1>5, <1>6, <1>7 DEF PageStep

(* ReplayInv is inductive relative to the invariants above.                 *)
LEMMA StepReplays ==
  ASSUME ~MayReorg, OpenPages = {}, BaseInv, AheadInv, ReplayInv, [Next]_workflowVars
  PROVE  ReplayInv'
<1>1. \A p \in Pages : page[p].at = "closed"
  BY DEF AheadInv, PagesOpened
<1>2. ~PageStep /\ \A p \in Pages : ~Leave(p)
  BY <1>1, NoPageMoves
<1>3. CASE DirectCall
  BY <1>3, DirectCallReplays
<1>4. CASE Reorg
  BY <1>4 DEF Reorg
<1>5. CASE SyncEvent
  BY <1>5, SyncEventReplays
<1>6. CASE UNCHANGED workflowVars
  <2>1. UNCHANGED <<events, applied, rows, next, stage, work, outcome, funded>>
    BY <1>6 DEF workflowVars, chainVars, lifecycleVars
  <2> QED  BY <2>1 DEF ReplayInv, OutcomeShown, IsDecided
<1> QED  BY <1>2, <1>3, <1>4, <1>5, <1>6 DEF Next

(* The rows of a project that has just been bound mirror it,                *)
LEMMA NewRowsMirror ==
  ASSUME Init
  PROVE  Mirrors(NewRows, 0, "Active", "Pending", outcome, 0)
<1>1. NewRows \in Rows
  BY InitIsBase DEF BaseInv, Init
<1>2. 0 < TotalValue
  <2>1. MilestoneCount - 1 \in Milestones /\ (MilestoneCount - 1) + 1 = MilestoneCount
    BY MilestoneConstants DEF Milestones
  <2> QED  BY <2>1, MilestoneConstants DEF TotalValue
<1>3. MilestonesAre(NewRows, 0, "Active", "Pending", outcome, 0)
  <2>1. ASSUME NEW i \in Milestones
        PROVE  i \in Nat /\ ~(0 >= Cost[i + 1]) /\ NewRows.milestone[i] = "PLANNED"
    <3>1. NewRows.milestone[i] = "PLANNED"
      BY DEF NewRows
    <3>2. Cost[i] \in Nat /\ Cost[i + 1] \in Nat /\ Cost[i] < Cost[i + 1] /\ i \in Nat
      BY MilestoneConstants DEF Milestones
    <3> QED  BY <3>1, <3>2
  <2> QED  BY <2>1 DEF MilestonesAre, RowFor
<1>4. StatusIs(NewRows, "Active", 0)
  BY <1>2 DEF StatusIs, NewRows
<1>5. DisputesAre(NewRows, 0, "Active")
  BY DEF DisputesAre, OpenDisputes, NewRows
<1> QED  BY <1>1, <1>3, <1>4, <1>5 DEF Mirrors

(* and are what no events come to.                                          *)
LEMMA InitReplays ==
  ASSUME Init
  PROVE  ReplayInv
<1> DEFINE f == [n \in {0} |-> NewRows]
<1>1. /\ stage = "Active" /\ funded = 0 /\ next = 0 /\ work = "Pending" /\ events = <<>>
      /\ applied = 0 /\ rows = NewRows
  BY DEF Init
<1>2. NewRows \in Rows
  BY NewRowsMirror DEF Mirrors
<1>3. Len(events) = 0 /\ 0..Len(events) = {0}
  BY <1>1
<1>4. f \in [0..Len(events) -> Rows] /\ f[0] = NewRows
  BY <1>2, <1>3
<1> HIDE DEF f
<1>5. IsReplay(f, events)
  BY <1>3, <1>4 DEF IsReplay
<1>6. Mirrors(f[Len(events)], next, stage, work, OutcomeShown, funded)
  <2>1. OutcomeShown = outcome
    BY <1>1, InitIsBase DEF OutcomeShown, IsDecided, BaseInv, ChainOK
  <2> QED  BY <1>1, <1>3, <1>4, <2>1, NewRowsMirror
<1>7. f[applied] = rows
  BY <1>1, <1>4
<1> QED  BY <1>4, <1>5, <1>6, <1>7 DEF ReplayInv, Replays

(* With every event applied the rows are the last of the replay.            *)
LEMMA CaughtUpMirrors ==
  ASSUME ReplayInv, CaughtUp
  PROVE  Mirrors(rows, next, stage, work, OutcomeShown, funded)
<1> QED  BY DEF ReplayInv, Replays, CaughtUp

(* The row of a milestone is the one ShownOf asks for.                      *)
LEMMA RowForIsMirror ==
  ASSUME ChainOK, EventsTrue, NEW i \in Milestones
  PROVE  RowFor(i, next, stage, work, OutcomeShown, funded) = ShownOf(i)
<1>1. i \in Nat /\ i < MilestoneCount /\ next \in Nat
  BY MilestoneConstants DEF ChainOK, Milestones
<1>d. /\ IsDecided(i) => i < next
      /\ OutcomeShown[i] = IF IsDecided(i) THEN "Released" ELSE outcome[i]
  <2>1. ASSUME NEW n \in DOMAIN events, events[n].name = "DisputeResolved",
               events[n].milestone = i
        PROVE  i < next
    <3>1. EventTrue(events[n], funded, next)
      BY DEF EventsTrue
    <3> QED  BY <2>1, <3>1 DEF EventTrue
  <2> QED  BY <2>1 DEF IsDecided, OutcomeShown
<1>2. CASE i < next
  <2>0. CASE IsDecided(i)
    BY <1>2, <1>d, <2>0 DEF RowFor, ShownOf
  <2>1. outcome[i] \in {"Released", "Refunded"}
    BY <1>2 DEF ChainOK
  <2>2. MilestoneStatus(i) = outcome[i] /\ ~IsDisputed(i)
    BY <1>1, <1>2 DEF MilestoneStatus, IsDisputed
  <2>3. CASE ~IsDecided(i) /\ outcome[i] = "Released"
    BY <1>2, <1>d, <2>2, <2>3 DEF RowFor, ShownOf, MirrorOf
  <2>4. CASE ~IsDecided(i) /\ outcome[i] = "Refunded"
    BY <1>2, <1>d, <2>2, <2>4 DEF RowFor, ShownOf, MirrorOf
  <2> QED  BY <2>0, <2>1, <2>3, <2>4
<1>3. CASE i = next
  <2>1. MilestoneStatus(i) = work /\ (IsDisputed(i) <=> stage = "Disputed") /\ ~(i < next)
    BY <1>1, <1>3 DEF MilestoneStatus, IsDisputed
  <2>2. CASE stage = "Disputed"
    BY <1>d, <1>3, <2>1, <2>2 DEF RowFor, ShownOf, MirrorOf
  <2>3. CASE stage # "Disputed" /\ work = "Submitted"
    BY <1>d, <1>3, <2>1, <2>3 DEF RowFor, ShownOf, MirrorOf
  <2>4. CASE stage # "Disputed" /\ work = "Approved"
    BY <1>d, <1>3, <2>1, <2>4 DEF RowFor, ShownOf, MirrorOf
  <2>5. CASE stage # "Disputed" /\ work = "Pending"
    BY <1>d, <1>3, <2>1, <2>5 DEF RowFor, ShownOf, MirrorOf
  <2> QED  BY <2>2, <2>3, <2>4, <2>5 DEF ChainOK
<1>4. CASE i > next
  <2>1. MilestoneStatus(i) = "Pending" /\ ~IsDisputed(i) /\ ~(i < next) /\ i # next
    BY <1>1, <1>4 DEF MilestoneStatus, IsDisputed
  <2> QED  BY <1>d, <2>1 DEF RowFor, ShownOf, MirrorOf
<1> QED  BY <1>1, <1>2, <1>3, <1>4

(* So the rows mirror the chain, as it is shown,                            *)
LEMMA RowsAreMirrored ==
  ASSUME ChainOK, EventsTrue, ReplayInv
  PROVE  MilestonesAreShown /\ ProjectMirrorsChain
<1> SUFFICES ASSUME AtRest
             PROVE  /\ \A i \in Milestones : rows.milestone[i] = ShownOf(i)
                    /\ ProjectMirrorsChain
  BY DEF MilestonesAreShown, ProjectMirrorsChain
<1>1. Mirrors(rows, next, stage, work, OutcomeShown, funded)
  BY CaughtUpMirrors DEF AtRest, CaughtUp
<1>2. \A i \in Milestones : rows.milestone[i] = ShownOf(i)
  BY <1>1, RowForIsMirror DEF Mirrors, MilestonesAre
<1>3. ProjectMirrorsChain
  BY <1>1 DEF Mirrors, StatusIs, ProjectMirrorsChain, ChainOK
<1> QED  BY <1>2, <1>3

(* and the lists made from them miss nothing and ask for nothing in vain.   *)
LEMMA ListsAreDue ==
  ASSUME ChainOK, ReplayInv
  PROVE  WorkIsListed /\ ActionsAreDue
<1> SUFFICES ASSUME CaughtUp PROVE WorkIsListed /\ ActionsAreDue
  BY DEF WorkIsListed, ActionsAreDue
<1>1. Mirrors(rows, next, stage, work, OutcomeShown, funded)
  BY CaughtUpMirrors
<1>2. /\ next \in Nat /\ funded \in Nat /\ paid \in Nat /\ refunded \in Nat
      /\ \A i \in Milestones : i \in Nat /\ i < MilestoneCount
      /\ MilestoneCount \in Nat
  BY MilestoneConstants DEF ChainOK, Milestones
<1>3. \A i \in Milestones : rows.milestone[i] = RowFor(i, next, stage, work, OutcomeShown, funded)
  BY <1>1 DEF Mirrors, MilestonesAre
<1>4. ASSUME NEW i \in Milestones
      PROVE  /\ CanApprove(i) => i \in ClientActions.reviews
             /\ CanSubmit(i)  => i \in FreelancerActions.deliveries
             /\ IsDisputed(i) => /\ i \in ClientActions.disputes
                                 /\ i \in FreelancerActions.disputes
  <2>1. CASE CanApprove(i)
    <3>1. rows.milestone[i] = "SUBMITTED"
      BY <1>2, <1>3, <2>1 DEF CanApprove, RowFor
    <3> QED  BY <2>1, <3>1 DEF CanApprove, CanSubmit, IsDisputed, ClientActions, PendingReviews
  <2>2. CASE CanSubmit(i)
    <3>1. IsOpen
      BY <2>2 DEF CanSubmit, IsOpen
    <3>2. funded >= Cost[i + 1]
      BY <1>2, <2>2, <3>1, PriceIs DEF CanSubmit
    <3>3. rows.milestone[i] = "FUNDED"
      BY <1>2, <1>3, <2>2, <3>2 DEF CanSubmit, RowFor
    <3> QED  BY <2>2, <3>3 DEF CanApprove, CanSubmit, IsDisputed, FreelancerActions,
                               MilestonesToDeliver
  <2>3. CASE IsDisputed(i)
    <3>1. OpenDisputes(rows, i) # {}
      BY <1>1, <2>3 DEF Mirrors, DisputesAre, IsDisputed
    <3> QED  BY <2>3, <3>1 DEF CanApprove, CanSubmit, IsDisputed, ClientActions,
                               FreelancerActions, OpenDisputeItems
  <2> QED  BY <2>1, <2>2, <2>3
<1>5. ClientActions.escrow => IsOpen /\ funded < TotalValue
  BY <1>1 DEF Mirrors, StatusIs, ClientActions, IsOpen
<1>6. ASSUME NEW i \in ClientActions.reviews
      PROVE  i = next /\ work = "Submitted" /\ Held >= Price
  <2>1. i \in Milestones /\ rows.milestone[i] = "SUBMITTED"
    BY <1>6 DEF ClientActions, PendingReviews
  <2>2. i = next /\ work = "Submitted"
    BY <1>2, <1>3, <2>1 DEF RowFor
  <2>3. IsOpen /\ funded >= Cost[next + 1]
    BY <2>2 DEF ChainOK
  <2>4. Held >= Price
    BY <1>2, <2>3, PriceIs
  <2> QED  BY <2>2, <2>4
<1>7. ASSUME NEW i \in FreelancerActions.deliveries
      PROVE  IsOpen /\ i >= next /\ funded >= Cost[i + 1]
  <2>1. i \in Milestones /\ rows.milestone[i] = "FUNDED"
    BY <1>7 DEF FreelancerActions, MilestonesToDeliver
  <2>2. ~(i < next) /\ funded >= Cost[i + 1]
    BY <1>2, <1>3, <2>1 DEF RowFor
  <2>3. IsOpen
    BY <1>2, <2>1, <2>2 DEF ChainOK
  <2> QED  BY <1>2, <2>1, <2>2, <2>3
<1>8. WorkIsListed
  BY <1>4 DEF WorkIsListed
<1>9. ActionsAreDue
  BY <1>5, <1>6, <1>7 DEF ActionsAreDue
<1> QED  BY <1>8, <1>9

(* One step, with all that is needed of it.                                 *)
LEMMA QuietStep ==
  ASSUME ~MayReorg, OpenPages = {}, BaseInv, AheadInv, ReplayInv, [Next]_workflowVars
  PROVE  BaseInv' /\ AheadInv' /\ ReplayInv'
<1>1. PagesActAlone
  BY DEF PagesActAlone
<1> QED  BY <1>1, StepKeepsBase, StepKeepsAhead, StepReplays

-----------------------------------------------------------------------------

(* The largest total the first k events of a log report is this one.        *)
TotalIs(log, k, total) ==
  /\ total \in Nat
  /\ \A n \in 1..k : log[n].name = "ProjectFunded" => log[n].funded \in 0..total
  /\ total # 0 => \E n \in 1..k : log[n].name = "ProjectFunded" /\ log[n].funded = total

(* Some sequence, of whatever events.                                       *)
IsLog(log) == \E S : log \in Seq(S)

(* The events report the total of the chain, and those before the last      *)
(* transaction the total to go back to.                                     *)
TotalsInv ==
  /\ IsLog(events) /\ TotalIs(events, Len(events), funded)
  /\ undo # <<>> => undo[2] \in 0..Len(events) /\ TotalIs(events, undo[2], undo[1][3])

(* What the funding panel deposits is an amount.                            *)
FundFormOK ==
  /\ DOMAIN page = Pages
  /\ page["fund"].at = "fund" => page["fund"].amount \in Deposits

(* A log and new events: where each of them is.                             *)
LEMMA LogGrows ==
  ASSUME NEW log, IsLog(log), NEW new, IsLog(new)
  PROVE  /\ IsLog(log \o new) /\ Len(log \o new) = Len(log) + Len(new)
         /\ Len(log) \in Nat /\ Len(new) \in Nat
         /\ \A n \in 1..Len(log) : (log \o new)[n] = log[n]
         /\ \A n \in 1..Len(log \o new) :
              n \in 1..Len(log) \/ (n - Len(log) \in 1..Len(new)
                                      /\ (log \o new)[n] = new[n - Len(log)])
         /\ \A n \in 1..Len(new) : (log \o new)[Len(log) + n] = new[n]
<1>1. PICK S : log \in Seq(S)
  BY DEF IsLog
<1>2. PICK T : new \in Seq(T)
  BY DEF IsLog
<1>3. log \in Seq(S \cup T) /\ new \in Seq(S \cup T)
  BY <1>1, <1>2
<1>4. log \o new \in Seq(S \cup T)
  BY <1>3
<1>5. IsLog(log \o new)
  BY <1>4 DEF IsLog
<1> QED  BY <1>3, <1>5

(* The first events keep the total they report.                             *)
LEMMA TotalStays ==
  ASSUME NEW log, IsLog(log), NEW new, IsLog(new), NEW k \in 0..Len(log), NEW total,
         TotalIs(log, k, total)
  PROVE  TotalIs(log \o new, k, total)
<1>1. \A n \in 1..k : (log \o new)[n] = log[n]
  BY LogGrows
<1> QED  BY <1>1 DEF TotalIs

(* Events that are not deposits report no other total.                      *)
LEMMA TotalKept ==
  ASSUME NEW log, IsLog(log), NEW new, IsLog(new), NEW total, TotalIs(log, Len(log), total),
         \A n \in 1..Len(new) : new[n].name # "ProjectFunded"
  PROVE  TotalIs(log \o new, Len(log \o new), total)
<1> DEFINE all == log \o new
<1>1. /\ Len(log) \in Nat /\ Len(all) = Len(log) + Len(new) /\ Len(new) \in Nat
      /\ \A n \in 1..Len(log) : all[n] = log[n]
      /\ \A n \in 1..Len(all) :
           n \in 1..Len(log) \/ (n - Len(log) \in 1..Len(new) /\ all[n] = new[n - Len(log)])
  BY LogGrows
<1> HIDE DEF all
<1>2. ASSUME NEW n \in 1..Len(all), all[n].name = "ProjectFunded"
      PROVE  all[n].funded \in 0..total
  BY <1>1, <1>2 DEF TotalIs
<1>3. ASSUME total # 0
      PROVE  \E n \in 1..Len(all) : all[n].name = "ProjectFunded" /\ all[n].funded = total
  <2>1. PICK n \in 1..Len(log) : log[n].name = "ProjectFunded" /\ log[n].funded = total
    BY <1>3 DEF TotalIs
  <2>2. n \in 1..Len(all) /\ all[n] = log[n]
    BY <1>1
  <2> QED  BY <2>1, <2>2
<1>4. TotalIs(all, Len(all), total)
  BY <1>2, <1>3 DEF TotalIs
<1> QED  BY <1>4 DEF all

(* A deposit reports the new one.                                           *)
LEMMA TotalRaised ==
  ASSUME NEW log, IsLog(log), NEW e, NEW total, TotalIs(log, Len(log), total),
         NEW more \in Nat, total <= more, e.name = "ProjectFunded", e.funded = more
  PROVE  TotalIs(log \o <<e>>, Len(log \o <<e>>), more)
<1> DEFINE new == <<e>>
           all == log \o new
<1>0. new \in Seq({e}) /\ Len(new) = 1 /\ new[1] = e
  OBVIOUS
<1>1. IsLog(new)
  BY <1>0 DEF IsLog
<1> HIDE DEF new
<1>2. /\ Len(log) \in Nat /\ Len(all) = Len(log) + 1
      /\ \A n \in 1..Len(log) : all[n] = log[n]
      /\ \A n \in 1..Len(all) : n \in 1..Len(log) \/ n = Len(log) + 1
      /\ all[Len(log) + 1] = e
  <2>1. /\ Len(log) \in Nat /\ Len(all) = Len(log) + Len(new)
        /\ \A n \in 1..Len(log) : all[n] = log[n]
        /\ \A n \in 1..Len(new) : all[Len(log) + n] = new[n]
    BY <1>1, LogGrows
  <2> HIDE DEF all
  <2>2. all[Len(log) + 1] = e
    BY <1>0, <2>1
  <2> QED  BY <1>0, <2>1, <2>2
<1> HIDE DEF all
<1>3. total \in Nat
  BY DEF TotalIs
<1>4. ASSUME NEW n \in 1..Len(all), all[n].name = "ProjectFunded"
      PROVE  all[n].funded \in 0..more
  <2>1. CASE n \in 1..Len(log)
    <3>1. all[n].funded \in 0..total
      BY <1>2, <1>4, <2>1 DEF TotalIs
    <3> QED  BY <1>3, <3>1
  <2>2. CASE n = Len(log) + 1
    BY <1>2, <2>2
  <2> QED  BY <1>2, <2>1, <2>2
<1>5. \E n \in 1..Len(all) : all[n].name = "ProjectFunded" /\ all[n].funded = more
  <2>1. Len(log) + 1 \in 1..Len(all)
    BY <1>2
  <2> QED  BY <1>2, <2>1
<1>6. TotalIs(all, Len(all), more)
  BY <1>4, <1>5 DEF TotalIs
<1> QED  BY <1>6 DEF all, new

(* A transaction remembers the total before it.                             *)
LEMMA EmitRemembers ==
  ASSUME TotalsInv, NEW new, IsLog(new), Emit(new)
  PROVE  /\ IsLog(events')
         /\ undo' # <<>> =>
              undo'[2] \in 0..Len(events') /\ TotalIs(events', undo'[2], undo'[1][3])
<1>1. IsLog(events) /\ events' = events \o new
  BY DEF TotalsInv, Emit
<1>2. IsLog(events') /\ Len(events) \in 0..Len(events')
  BY <1>1, LogGrows
<1>3. TotalIs(events', Len(events), funded)
  <2>1. Len(events) \in Nat /\ Len(events) \in 0..Len(events)
    BY <1>1, LogGrows
  <2>2. TotalIs(events, Len(events), funded)
    BY DEF TotalsInv
  <2> QED  BY <1>1, <2>1, <2>2, TotalStays
<1>4. undo' # <<>> => undo'[2] = Len(events) /\ undo'[1][3] = funded
  BY DEF Emit, lifecycleVars
<1> QED  BY <1>2, <1>3, <1>4

(* A transaction that is not a deposit,                                     *)
LEMMA EmitKeepsTotals ==
  ASSUME TotalsInv, NEW new, IsLog(new), Emit(new), funded' = funded,
         \A n \in 1..Len(new) : new[n].name # "ProjectFunded"
  PROVE  TotalsInv'
<1>1. events' = events \o new /\ IsLog(events) /\ TotalIs(events, Len(events), funded)
  BY DEF Emit, TotalsInv
<1>2. TotalIs(events', Len(events'), funded)
  BY <1>1, TotalKept
<1> QED  BY <1>2, EmitRemembers DEF TotalsInv

(* with one event,                                                          *)
LEMMA OneEventKeepsTotals ==
  ASSUME TotalsInv, NEW e, Emit(<<e>>), funded' = funded, e.name # "ProjectFunded"
  PROVE  TotalsInv'
<1> DEFINE new == <<e>>
<1>1. new \in Seq({e}) /\ Len(new) = 1 /\ new[1] = e /\ Emit(new)
  OBVIOUS
<1> HIDE DEF new
<1>2. IsLog(new) /\ \A n \in 1..Len(new) : new[n].name # "ProjectFunded"
  BY <1>1 DEF IsLog
<1> QED  BY <1>1, <1>2, EmitKeepsTotals

(* and a deposit.                                                           *)
LEMMA FundProjectKeepsTotals ==
  ASSUME TotalsInv, NEW amount \in Deposits, FundProject(amount)
  PROVE  TotalsInv'
<1> DEFINE e == [name |-> "ProjectFunded", amount |-> amount, funded |-> funded + amount]
           new == <<e>>
<1>1. new \in Seq({e}) /\ e.name = "ProjectFunded" /\ e.funded = funded + amount
  OBVIOUS
<1>2. Emit(new) /\ funded' = funded + amount
  BY DEF FundProject, Deposit
<1>3. amount \in Nat /\ IsLog(events) /\ TotalIs(events, Len(events), funded)
  BY MilestoneConstants DEF TotalsInv
<1>4. funded \in Nat
  BY <1>3 DEF TotalIs
<1> HIDE DEF e
<1>5. IsLog(new)
  BY <1>1 DEF IsLog
<1>6. events' = events \o <<e>>
  BY <1>2 DEF Emit
<1> HIDE DEF new
<1>7. funded' \in Nat /\ funded <= funded' /\ e.funded = funded'
  BY <1>1, <1>2, <1>3, <1>4
<1>8. TotalIs(events', Len(events'), funded')
  BY <1>1, <1>3, <1>6, <1>7, TotalRaised
<1> QED  BY <1>2, <1>5, <1>8, EmitRemembers DEF TotalsInv

(* Calls about milestones and disputes deposit nothing.                     *)
LEMMA CallsKeepTotals ==
  ASSUME TotalsInv, NEW i, NEW uri, NEW a, NEW amount,
         \/ SubmitMilestone(i, uri) \/ ApproveMilestone(i) \/ ReleaseMilestone(i)
         \/ RaiseDispute(i) \/ AppendDisputeEvidence(i) \/ SettleDispute(i, amount)
         \/ ResolveDispute(i, a, amount) \/ UNCHANGED chainVars
  PROVE  TotalsInv'
<1>1. CASE SubmitMilestone(i, uri)
  <2> DEFINE e == [name |-> "MilestoneSubmitted", milestone |-> i, uri |-> uri]
  <2>1. Emit(<<e>>) /\ funded' = funded /\ e.name # "ProjectFunded"
    BY <1>1 DEF SubmitMilestone, Deliver
  <2> QED  BY <2>1, OneEventKeepsTotals
<1>2. CASE ApproveMilestone(i)
  <2>1. Emit(<<Event("MilestoneApproved", i)>>) /\ funded' = funded
    BY <1>2 DEF ApproveMilestone, Approve
  <2>2. Event("MilestoneApproved", i).name # "ProjectFunded"
    BY DEF Event
  <2> QED  BY <2>1, <2>2, OneEventKeepsTotals
<1>3. CASE ReleaseMilestone(i)
  <2>1. Emit(<<Payment(i)>>) /\ funded' = funded
    BY <1>3 DEF ReleaseMilestone, Release, Settle
  <2>2. Payment(i).name # "ProjectFunded"
    BY DEF Payment
  <2> QED  BY <2>1, <2>2, OneEventKeepsTotals
<1>4. CASE RaiseDispute(i)
  <2>1. Emit(<<Event("DisputeRaised", i)>>) /\ funded' = funded
    BY <1>4 DEF RaiseDispute, Contest
  <2>2. Event("DisputeRaised", i).name # "ProjectFunded"
    BY DEF Event
  <2> QED  BY <2>1, <2>2, OneEventKeepsTotals
<1>5. CASE AppendDisputeEvidence(i)
  <2>1. Emit(<<Event("DisputeEvidenceAppended", i)>>) /\ funded' = funded
    BY <1>5 DEF AppendDisputeEvidence, lifecycleVars
  <2>2. Event("DisputeEvidenceAppended", i).name # "ProjectFunded"
    BY DEF Event
  <2> QED  BY <2>1, <2>2, OneEventKeepsTotals
<1>6. ASSUME SettleDispute(i, amount) PROVE TotalsInv'
  <2> DEFINE e == [name |-> "DisputeResolved", milestone |-> i, kind |-> KindOf(amount),
                   freelancerAmount |-> amount]
  <2>1. Emit(<<e>>) /\ funded' = funded
    BY <1>6 DEF SettleDispute, Decide, Settle
  <2>2. e.name # "ProjectFunded"
    OBVIOUS
  <2> QED  BY <2>1, <2>2, OneEventKeepsTotals
<1>7. CASE UNCHANGED <<lifecycleVars, events, undo>>
  BY <1>7 DEF TotalsInv, lifecycleVars
<1>8. CASE ResolveDispute(i, a, amount)
  <2>1. SettleDispute(i, amount) \/ UNCHANGED <<lifecycleVars, events, undo>>
    BY <1>8 DEF ResolveDispute
  <2> QED  BY <1>6, <1>7, <2>1
<1>9. CASE UNCHANGED chainVars
  BY <1>7, <1>9 DEF chainVars
<1> QED  BY <1>1, <1>2, <1>3, <1>4, <1>5, <1>6, <1>8, <1>9

(* Nor does calling the project off.                                        *)
LEMMA CancelKeepsTotals ==
  ASSUME TotalsInv, CancelProject
  PROVE  TotalsInv'
<1> DEFINE end == [name |-> "ProjectCancelled"]
           pay == Payment(next)
           new == (IF work = "Submitted" THEN <<pay>> ELSE <<>>) \o <<end>>
<1>1. end.name # "ProjectFunded" /\ pay.name # "ProjectFunded"
  BY DEF Payment
<1>2. Emit(new) /\ funded' = funded
  BY DEF CancelProject, CallOff
<1> HIDE DEF end, pay
<1>3. /\ new \in Seq({end, pay}) /\ Len(new) \in {1, 2}
      /\ \A n \in 1..Len(new) : new[n] \in {end, pay}
  <2>1. CASE work = "Submitted"
    <3>1. new = <<pay>> \o <<end>>
      BY <2>1
    <3> HIDE DEF new
    <3>2. /\ <<pay>> \in Seq({end, pay}) /\ Len(<<pay>>) = 1 /\ <<pay>>[1] = pay
          /\ <<end>> \in Seq({end, pay}) /\ Len(<<end>>) = 1 /\ <<end>>[1] = end
      OBVIOUS
    <3>3. new \in Seq({end, pay}) /\ Len(new) = 2
      BY <3>1, <3>2
    <3>4. \A n \in 1..Len(new) : new[n] \in {end, pay}
      BY <3>3
    <3> QED  BY <3>3, <3>4
  <2>2. CASE work # "Submitted"
    <3>1. new = <<>> \o <<end>>
      BY <2>2
    <3> HIDE DEF new
    <3>2. new = <<end>>
      BY <3>1
    <3> QED  BY <3>2
  <2> QED  BY <2>1, <2>2
<1>4. IsLog(new)
  BY <1>3 DEF IsLog
<1>5. \A n \in 1..Len(new) : new[n].name # "ProjectFunded"
  BY <1>1, <1>3
<1> HIDE DEF new
<1> QED  BY <1>2, <1>4, <1>5, EmitKeepsTotals

(* An orphaned transaction takes total and events back together.            *)
LEMMA ReorgKeepsTotals ==
  ASSUME TotalsInv, Reorg
  PROVE  TotalsInv'
<1> DEFINE k == undo[2]
           total == undo[1][3]
<1>1. /\ k \in 0..Len(events) /\ TotalIs(events, k, total) /\ IsLog(events)
      /\ funded' = total /\ undo' = <<>> /\ events' = SubSeq(events, 1, k)
  BY DEF TotalsInv, Reorg
<1> HIDE DEF k, total
<1>2. PICK S : events \in Seq(S)
  BY <1>1 DEF IsLog
<1>3. events' \in Seq(S) /\ Len(events') = k /\ \A n \in 1..k : events'[n] = events[n]
  BY <1>1, <1>2
<1>4. TotalIs(events', Len(events'), total)
  BY <1>1, <1>3 DEF TotalIs
<1>5. IsLog(events')
  BY <1>3 DEF IsLog
<1> QED  BY <1>1, <1>4, <1>5 DEF TotalsInv

(* Another page moves.                                                      *)
LEMMA OtherPagesKeepForm ==
  ASSUME FundFormOK, NEW p, p # "fund", NEW record, Go(p, record)
  PROVE  FundFormOK'
<1> QED  BY DEF FundFormOK, Go, Pages

(* The funding panel moves.                                                 *)
LEMMA FundFormMoves ==
  ASSUME FundFormOK, NEW record, Go("fund", record),
         record.at = "fund" => record.amount \in Deposits
  PROVE  FundFormOK'
<1>1. page'["fund"] = record /\ DOMAIN page' = Pages
  BY DEF FundFormOK, Go, Pages
<1> QED  BY <1>1 DEF FundFormOK

(* Any call no page reports.                                                *)
LEMMA DirectCallKeepsTotals ==
  ASSUME TotalsInv, DirectCall
  PROVE  TotalsInv'
<1>1. ASSUME NEW amount \in Deposits, FundProject(amount) PROVE TotalsInv'
  BY <1>1, FundProjectKeepsTotals
<1>2. ASSUME NEW i, NEW a, NEW amount,
             \/ SubmitMilestone(i, 0) \/ ApproveMilestone(i) \/ ReleaseMilestone(i)
             \/ RaiseDispute(i) \/ AppendDisputeEvidence(i) \/ SettleDispute(i, amount)
             \/ ResolveDispute(i, a, amount)
      PROVE  TotalsInv'
  BY <1>2, CallsKeepTotals
<1>3. CASE CancelProject
  BY <1>3, CancelKeepsTotals
<1> QED  BY <1>1, <1>2, <1>3 DEF DirectCall

(* The transactions of the pages are calls like those.                      *)
LEMMA PagesKeepTotals ==
  ASSUME TotalsInv, FundFormOK, PageStep
  PROVE  TotalsInv' /\ FundFormOK'
<1>1. CASE SubmitPage
  <2>1. \E record : Go("submit", record)
    BY <1>1 DEF SubmitPage, OpenSubmit, ReadSubmission, StoreSubmission, SignSubmission,
                OnRows, Refuse, Mined
  <2>2. \E i, uri : SubmitMilestone(i, uri) \/ UNCHANGED chainVars
    BY <1>1 DEF SubmitPage, OpenSubmit, ReadSubmission, StoreSubmission, SignSubmission,
                OnRows, Refuse, Mined
  <2> QED  BY <2>1, <2>2, OtherPagesKeepForm, CallsKeepTotals
<1>2. CASE ApprovalPanel
  <2>1. \E record : Go("approve", record)
    BY <1>2 DEF ApprovalPanel, OpenApproval, CheckApproval, SignApproval, CheckRelease,
                SignRelease, ReadReview, StoreReview, CountReleased, StoreReviewStatus,
                OnRows, Refuse, Mined, Advance
  <2>2. \E i : ApproveMilestone(i) \/ ReleaseMilestone(i) \/ UNCHANGED chainVars
    BY <1>2 DEF ApprovalPanel, OpenApproval, CheckApproval, SignApproval, CheckRelease,
                SignRelease, ReadReview, StoreReview, CountReleased, StoreReviewStatus,
                OnRows, Refuse, Mined, Advance
  <2> QED  BY <2>1, <2>2, OtherPagesKeepForm, CallsKeepTotals
<1>3. CASE DisputePanel
  <2>1. \E record : Go("dispute", record)
    BY <1>3 DEF DisputePanel, OpenDispute, CheckDispute, SignDispute, ReadDispute,
                StoreDispute, OnRows, Refuse, Mined, Advance
  <2>2. \E i : RaiseDispute(i) \/ UNCHANGED chainVars
    BY <1>3 DEF DisputePanel, OpenDispute, CheckDispute, SignDispute, ReadDispute,
                StoreDispute, OnRows, Refuse, Mined, Advance
  <2> QED  BY <2>1, <2>2, OtherPagesKeepForm, CallsKeepTotals
<1>4. CASE FundingPanel
  <2>1. CASE OpenFunding
    <3>1. PICK amount \in Deposits : OnRows("fund", [at |-> "fund", amount |-> amount])
      BY <2>1 DEF OpenFunding
    <3>2. FundFormOK'
      BY <3>1, FundFormMoves DEF OnRows
    <3> QED  BY <3>1, <3>2, CallsKeepTotals DEF OnRows
  <2>2. CASE SignFunding
    <3> DEFINE amount == page["fund"].amount
    <3>1. amount \in Deposits
      BY <2>2 DEF SignFunding, At, FundFormOK
    <3>2. FundProject(amount) \/ UNCHANGED chainVars
      BY <2>2 DEF SignFunding, Mined
    <3>3. Go("fund", [at |-> "total"])
      BY <2>2 DEF SignFunding, Mined
    <3> HIDE DEF amount
    <3>4. FundFormOK'
      BY <3>3, FundFormMoves
    <3> QED  BY <3>1, <3>2, <3>4, FundProjectKeepsTotals, CallsKeepTotals
  <2>3. CASE ReadFunded \/ ReadMilestones \/ StoreFunding
    <3>1. UNCHANGED chainVars /\ \E record : record.at # "fund" /\ Go("fund", record)
      BY <2>3 DEF ReadFunded, ReadMilestones, StoreFunding, OnRows, Closed
    <3> QED  BY <3>1, FundFormMoves, CallsKeepTotals
  <2> QED  BY <1>4, <2>1, <2>2, <2>3 DEF FundingPanel
<1>5. CASE DisputeQueue
  <2>1. \E record : Go("admin", record)
    BY <1>5 DEF DisputeQueue, OpenResolution, CheckResolution, SignResolution,
                ReadResolution, StoreResolution, OnRows, Refuse, Mined, Advance
  <2>2. \E i, a, amount : ResolveDispute(i, a, amount) \/ UNCHANGED chainVars
    BY <1>5 DEF DisputeQueue, OpenResolution, CheckResolution, SignResolution,
                ReadResolution, StoreResolution, OnRows, Refuse, Mined, Advance
  <2> QED  BY <2>1, <2>2, OtherPagesKeepForm, CallsKeepTotals
<1> QED  BY <1>1, <1>2, <1>3, <1>4, <1>5 DEF PageStep

(* TotalsInv is inductive, with FundFormOK.                                 *)
LEMMA StepKeepsTotals ==
  ASSUME TotalsInv, FundFormOK, [Next]_workflowVars
  PROVE  TotalsInv' /\ FundFormOK'
<1>1. CASE DirectCall
  <2>1. FundFormOK'
    BY <1>1 DEF DirectCall, FundFormOK
  <2> QED  BY <1>1, <2>1, DirectCallKeepsTotals
<1>2. CASE Reorg
  <2>1. FundFormOK'
    BY <1>2 DEF Reorg, FundFormOK
  <2> QED  BY <1>2, <2>1, ReorgKeepsTotals
<1>3. CASE SyncEvent \/ UNCHANGED workflowVars
  <2>1. UNCHANGED <<chainVars, page>>
    BY <1>3 DEF SyncEvent, workflowVars
  <2> QED  BY <2>1, CallsKeepTotals DEF FundFormOK
<1>4. CASE PageStep
  BY <1>4, PagesKeepTotals
<1>5. ASSUME NEW p \in Pages, Leave(p) PROVE TotalsInv' /\ FundFormOK'
  <2>1. UNCHANGED chainVars /\ Go(p, Closed)
    BY <1>5 DEF Leave, Refuse, OnRows
  <2>2. Closed.at # "fund"
    BY DEF Closed
  <2> QED  BY <2>1, <2>2, OtherPagesKeepForm, FundFormMoves, CallsKeepTotals
<1> QED  BY <1>1, <1>2, <1>3, <1>4, <1>5 DEF Next

(* Nothing deposited, nothing reported.                                     *)
LEMMA InitTotals ==
  ASSUME Init
  PROVE  TotalsInv /\ FundFormOK
<1>1. events = <<>> /\ funded = 0 /\ undo = <<>> /\ page = [p \in Pages |-> Closed]
  BY DEF Init
<1>2. events \in Seq({}) /\ Len(events) = 0
  BY <1>1
<1>3. IsLog(events)
  BY <1>2 DEF IsLog
<1>4. FundFormOK
  BY <1>1 DEF FundFormOK, Pages, Closed
<1> QED  BY <1>1, <1>2, <1>3, <1>4 DEF TotalsInv, TotalIs

(* With every event applied, the largest of the totals is the chain's.      *)
LEMMA TotalIsShown ==
  ASSUME TotalsInv, CaughtUp
  PROVE  FundedAmount = funded
<1> DEFINE shown == {0} \cup {Field(Ledger[e], "fundedAmountAfter") : e \in RowsOf("ProjectFunded")}
<1>1. IsLog(events) /\ TotalIs(events, Len(events), funded) /\ funded \in Nat
  BY DEF TotalsInv, TotalIs
<1>2. PICK S : events \in Seq(S)
  BY <1>1 DEF IsLog
<1>3. /\ Len(Ledger) = Len(events) /\ DOMAIN Ledger = 1..Len(events)
      /\ \A n \in 1..Len(events) : Ledger[n] = events[n]
  BY <1>2 DEF Ledger, CaughtUp
<1>4. RowsOf("ProjectFunded") = {n \in 1..Len(events) : events[n].name = "ProjectFunded"}
  BY <1>3 DEF RowsOf
<1>5. ASSUME NEW n \in RowsOf("ProjectFunded")
      PROVE  Field(Ledger[n], "fundedAmountAfter") = events[n].funded
  <2>1. Ledger[n] = events[n] /\ events[n].name = "ProjectFunded"
    BY <1>3, <1>4
  <2>2. Payload(Ledger[n]) = [amount |-> events[n].amount, fundedAmountAfter |-> events[n].funded]
    BY <2>1 DEF Payload
  <2> QED  BY <2>2 DEF Field
<1>6. \A x \in shown : x \in 0..funded
  BY <1>1, <1>4, <1>5 DEF TotalIs
<1>7. funded \in shown
  <2>1. CASE funded = 0
    BY <2>1
  <2>2. CASE funded # 0
    <3>1. PICK n \in 1..Len(events) : events[n].name = "ProjectFunded" /\ events[n].funded = funded
      BY <1>1, <2>2 DEF TotalIs
    <3>2. n \in RowsOf("ProjectFunded")
      BY <1>4, <3>1
    <3> QED  BY <1>5, <3>1, <3>2
  <2> QED  BY <2>1, <2>2
<1>8. FundedAmount = Max(shown)
  BY DEF FundedAmount
<1> HIDE DEF shown
<1>9. Max(shown) = funded
  <2>1. \A x \in shown : funded >= x
    BY <1>1, <1>6
  <2>2. Max(shown) \in shown /\ \A x \in shown : Max(shown) >= x
    BY <1>7, <2>1 DEF Max
  <2>3. Max(shown) \in 0..funded /\ Max(shown) >= funded
    BY <1>6, <1>7, <2>2
  <2> QED  BY <1>1, <2>3
<1> QED  BY <1>8, <1>9

(* FundedShown: the funded amount the project page and the dashboards show  *)
(* (the maximum over the ledger's fundedAmountAfter) is the contract's once *)
(* event sync has caught up, after any deposits, reports and orphaned       *)
(* transactions.  Nothing is assumed of who acts: here the rows do not      *)
(* matter.                                                                  *)
THEOREM FundedAmountIsShown == Spec => []FundedShown
<1>1. Init => TotalsInv /\ FundFormOK
  BY InitTotals
<1>2. TotalsInv /\ FundFormOK /\ [Next]_workflowVars => TotalsInv' /\ FundFormOK'
  BY StepKeepsTotals
<1>3. TotalsInv => FundedShown
  BY TotalIsShown DEF FundedShown
<1> QED  BY <1>1, <1>2, <1>3, PTL DEF Spec

(* ShownAsOnChain: where event sync alone writes the rows (OpenPages = {})  *)
(* and no transaction is orphaned, then, each time it has caught up, rows,  *)
(* amounts and lists say what the registry says, but for the milestones     *)
(* that were decided, which are shown as paid out; for any number of        *)
(* milestones and any calls in any order.  The strengthening is ReplayInv.  *)
(* The hypotheses are those of a run: with open pages a report may come     *)
(* late, and TLC checks which clauses hold then.                            *)
THEOREM SyncedProjectIsShown ==
  ASSUME ~MayReorg, OpenPages = {}
  PROVE  Spec => []ShownAsOnChain
<1>1. Init => BaseInv /\ AheadInv /\ ReplayInv /\ TotalsInv /\ FundFormOK
  BY InitIsBase, InitIsBehind, InitReplays, InitTotals
<1>2. BaseInv /\ AheadInv /\ ReplayInv /\ TotalsInv /\ FundFormOK /\ [Next]_workflowVars
        => BaseInv' /\ AheadInv' /\ ReplayInv' /\ TotalsInv' /\ FundFormOK'
  BY QuietStep, StepKeepsTotals
<1>3. BaseInv /\ ReplayInv /\ TotalsInv => ShownAsOnChain
  BY RowsAreMirrored, ListsAreDue, TotalIsShown DEF BaseInv, ShownAsOnChain, FundedShown
<1> QED  BY <1>1, <1>2, <1>3, PTL DEF Spec
-----------------------------------------------------------------------------
(* Event sync is behind, but the events it applies after a settlement do    *)
(* not reopen the milestone: the chain emits no more work on it.            *)
IsWorkOn(e, i) ==
  /\ e.name \in {"MilestoneSubmitted", "MilestoneApproved", "DisputeRaised"}
  /\ e.milestone = i

WorkEnds ==
  \A i \in Milestones : \A m, n \in 1..Len(events) :
    m < n /\ SettledBy(m, i) => ~IsWorkOn(events[n], i)

(* The pages that open milestones again are closed.                         *)
OthersClosed == At("submit", "closed") /\ At("dispute", "closed") /\ At("fund", "closed")

(* What is emitted is work on the next milestone, if it is work at all.     *)
LEMMA WorkStaysEnded ==
  ASSUME ChainOK, EventsTrue, WorkEnds, NEW new \in Seq(ChainEvents),
         events' = events \o new,
         \A i \in Milestones : \A n \in 1..Len(new) :
           IsWorkOn(new[n], i) => n = 1 /\ i = next /\ next # MilestoneCount
  PROVE  WorkEnds'
<1>1. /\ Len(events) \in Nat /\ Len(new) \in Nat /\ Len(events') = Len(events) + Len(new)
      /\ \A n \in 1..Len(events') :
           events'[n] = IF n <= Len(events) THEN events[n] ELSE new[n - Len(events)]
  BY DEF EventsTrue
<1>2. SUFFICES ASSUME NEW i \in Milestones, NEW m \in 1..Len(events'), NEW n \in 1..Len(events'),
                      m < n, SettledBy(m, i)', IsWorkOn(events'[n], i)
               PROVE  FALSE
  BY DEF WorkEnds
<1>3. m <= Len(events) => SettledBy(m, i)
  BY <1>1, <1>2 DEF SettledBy
<1>4. CASE n <= Len(events)
  <2>1. m \in 1..Len(events) /\ n \in 1..Len(events) /\ events'[n] = events[n]
    BY <1>1, <1>2, <1>4
  <2> QED  BY <1>2, <1>3, <2>1 DEF WorkEnds
<1>5. CASE ~(n <= Len(events))
  <2>1. n - Len(events) \in 1..Len(new) /\ events'[n] = new[n - Len(events)]
    BY <1>1, <1>5
  <2>2. n - Len(events) = 1 /\ i = next /\ next # MilestoneCount
    BY <1>2, <2>1
  <2>3. m \in 1..Len(events)
    BY <1>1, <1>2, <2>2
  <2>4. EventTrue(events[m], funded, next) /\ SettledBy(m, i)
    BY <1>3, <2>3 DEF EventsTrue
  <2>5. i < next \/ next = MilestoneCount
    BY <2>4 DEF EventTrue, SettledBy
  <2> QED  BY <2>2, <2>5, MilestoneConstants DEF Milestones
<1> QED  BY <1>4, <1>5

(* One event.                                                               *)
LEMMA OneEventEndsWork ==
  ASSUME ChainOK, EventsTrue, WorkEnds, NEW e \in ChainEvents, events' = events \o <<e>>,
         \A i \in Milestones : IsWorkOn(e, i) => i = next /\ IsOpen
  PROVE  WorkEnds'
<1> DEFINE new == <<e>>
<1>1. new \in Seq(ChainEvents) /\ Len(new) = 1 /\ new[1] = e /\ events' = events \o new
  OBVIOUS
<1>2. IsOpen => next # MilestoneCount
  BY DEF ChainOK
<1> HIDE DEF new
<1> QED  BY <1>1, <1>2, WorkStaysEnded

(* Calls leave settled rows alone.                                          *)
LEMMA CallsKeepSettled ==
  ASSUME BaseInv, SettledRowsStay, Moved, UNCHANGED <<applied, rows>>
  PROVE  SettledRowsStay'
<1>1. \A n \in 1..applied : events'[n] = events[n]
  BY DEF Moved, Grows, BaseInv, EventsTrue
<1> QED  BY <1>1 DEF SettledRowsStay, SettledBy

(* So do writes that settle rows, or leave their milestones as they are.    *)
LEMMA WritesKeepSettled ==
  ASSUME SettledRowsStay, UNCHANGED <<events, applied>>,
         \A i \in Milestones : rows.milestone[i] \in Settled => rows'.milestone[i] \in Settled
  PROVE  SettledRowsStay'
BY DEF SettledRowsStay, SettledBy

(* The transactions end work: deposits and work,                            *)
LEMMA WorkCallsEndWork ==
  ASSUME ChainOK, EventsTrue, WorkEnds, NEW i \in Milestones,
         \/ SubmitMilestone(i, 0) \/ ApproveMilestone(i) \/ ReleaseMilestone(i)
         \/ RaiseDispute(i) \/ AppendDisputeEvidence(i)
         \/ \E amount \in Deposits : FundProject(amount)
  PROVE  WorkEnds'
<1>1. CASE SubmitMilestone(i, 0)
  <2> DEFINE e == [name |-> "MilestoneSubmitted", milestone |-> i, uri |-> 0]
  <2>1. e \in ChainEvents /\ e.milestone = next /\ IsOpen /\ events' = events \o <<e>>
    BY <1>1 DEF SubmitMilestone, CanSubmit, Emit, IsOpen, ChainEvents, SubmittedEvents
  <2> HIDE DEF e
  <2> QED  BY <2>1, OneEventEndsWork DEF IsWorkOn
<1>2. CASE ApproveMilestone(i)
  <2> DEFINE e == Event("MilestoneApproved", i)
  <2>1. e \in ChainEvents /\ e.milestone = next /\ IsOpen /\ events' = events \o <<e>>
    BY <1>2 DEF ApproveMilestone, CanApprove, Emit, IsOpen, ChainEvents, WorkEvents, Event
  <2> HIDE DEF e
  <2> QED  BY <2>1, OneEventEndsWork DEF IsWorkOn
<1>3. CASE RaiseDispute(i)
  <2> DEFINE e == Event("DisputeRaised", i)
  <2>1. e \in ChainEvents /\ e.milestone = next /\ IsOpen /\ events' = events \o <<e>>
    BY <1>3 DEF RaiseDispute, CanRaise, Emit, IsOpen, ChainEvents, WorkEvents, Event
  <2> HIDE DEF e
  <2> QED  BY <2>1, OneEventEndsWork DEF IsWorkOn
<1>4. CASE AppendDisputeEvidence(i)
  <2> DEFINE e == Event("DisputeEvidenceAppended", i)
  <2>1. /\ e \in ChainEvents /\ e.name = "DisputeEvidenceAppended"
        /\ events' = events \o <<e>>
    BY <1>4 DEF AppendDisputeEvidence, Emit, ChainEvents, WorkEvents, Event
  <2> HIDE DEF e
  <2> QED  BY <2>1, OneEventEndsWork DEF IsWorkOn
<1>5. CASE ReleaseMilestone(i)
  <2> DEFINE e == Payment(i)
  <2>1. IsOpen /\ events' = events \o <<e>>
    BY <1>5 DEF ReleaseMilestone, CanRelease, Emit, IsOpen
  <2>2. e \in ChainEvents /\ e.name = "MilestoneFundsReleased"
    BY <2>1, PriceIs DEF ChainEvents, PaymentEvents, Payment
  <2> HIDE DEF e
  <2> QED  BY <2>1, <2>2, OneEventEndsWork DEF IsWorkOn
<1>6. ASSUME NEW amount \in Deposits, FundProject(amount) PROVE WorkEnds'
  <2> DEFINE e == [name |-> "ProjectFunded", amount |-> amount, funded |-> funded + amount]
  <2>1. events' = events \o <<e>>
    BY <1>6 DEF FundProject, Emit
  <2>2. e \in ChainEvents /\ e.name = "ProjectFunded"
    BY MilestoneConstants DEF ChainEvents, FundedEvents, ChainOK
  <2> HIDE DEF e
  <2> QED  BY <2>1, <2>2, OneEventEndsWork DEF IsWorkOn
<1> QED  BY <1>1, <1>2, <1>3, <1>4, <1>5, <1>6

(* decisions,                                                               *)
LEMMA DecisionEndsWork ==
  ASSUME ChainOK, EventsTrue, WorkEnds, NEW i \in Milestones, NEW amount \in Amounts,
         SettleDispute(i, amount)
  PROVE  WorkEnds'
<1> DEFINE e == Decision(i, amount)
<1>1. IsOpen /\ events' = events \o <<e>>
  BY SettleDisputeMoves DEF IsOpen
<1>2. e \in ChainEvents /\ e.name = "DisputeResolved"
  BY <1>1, AmountsArePartsOfThePrice DEF ChainEvents, DecisionEvents, Decision
<1> HIDE DEF e
<1> QED  BY <1>1, <1>2, OneEventEndsWork DEF IsWorkOn

(* and the end of the project.                                              *)
LEMMA CancelEndsWork ==
  ASSUME ChainOK, EventsTrue, WorkEnds, CancelProject
  PROVE  WorkEnds'
<1> DEFINE end == [name |-> "ProjectCancelled"]
           pay == Payment(next)
           new == (IF work = "Submitted" THEN <<pay>> ELSE <<>>) \o <<end>>
<1>1. events' = events \o new /\ IsOpen
  BY DEF CancelProject, CallOff, Emit, IsOpen
<1>2. /\ end \in ChainEvents /\ end.name = "ProjectCancelled"
      /\ pay \in ChainEvents /\ pay.name = "MilestoneFundsReleased"
  BY <1>1, PriceIs DEF ChainEvents, CancelEvents, PaymentEvents, Payment
<1> HIDE DEF end, pay
<1>3. /\ new \in Seq(ChainEvents)
      /\ \A n \in 1..Len(new) : new[n].name \in {"ProjectCancelled", "MilestoneFundsReleased"}
  BY <1>2
<1> HIDE DEF new
<1> QED  BY <1>1, <1>3, WorkStaysEnded DEF IsWorkOn

(* Any call.                                                                *)
LEMMA DirectCallEndsWork ==
  ASSUME ChainOK, EventsTrue, WorkEnds, DirectCall
  PROVE  WorkEnds'
<1>1. 0 \in Milestones
  BY MilestoneConstants DEF Milestones
<1>2. ASSUME NEW i \in Milestones, NEW a, NEW amount \in Amounts, ResolveDispute(i, a, amount)
      PROVE  WorkEnds'
  <2>1. SettleDispute(i, amount) \/ events' = events
    BY <1>2, ResolveDisputeMoves
  <2> QED  BY <2>1, DecisionEndsWork DEF WorkEnds, SettledBy
<1> QED  BY <1>1, <1>2, WorkCallsEndWork, DecisionEndsWork, CancelEndsWork DEF DirectCall

(* Event sync: an event it applies settles its milestone, or is not about   *)
(* one that is settled.                                                     *)
LEMMA SyncEventKeepsSettled ==
  ASSUME BaseInv, WorkEnds, SettledRowsStay, SyncEvent
  PROVE  SettledRowsStay'
<1> DEFINE k == applied + 1
           e == events[k]
<1>1. /\ applied < Len(events) /\ applied' = k /\ events' = events
      /\ rows' = ApplyEvent(rows, e)
  BY DEF SyncEvent, chainVars
<1>2. k \in 1..Len(events) /\ applied \in Nat /\ Len(events) \in Nat
  BY <1>1 DEF BaseInv, EventsTrue
<1>3. Applies(e, rows, rows')
  BY <1>1, <1>2, ApplyEventRow DEF BaseInv, EventsTrue
<1>4. SUFFICES ASSUME NEW i \in Milestones, NEW m \in 1..applied', SettledBy(m, i)'
               PROVE  rows'.milestone[i] \in Settled
  BY DEF SettledRowsStay
<1>5. SettledBy(m, i)
  BY <1>1, <1>4 DEF SettledBy
<1>6. CASE m = k
  <2>1. \/ e.name \in {"MilestoneFundsReleased", "DisputeResolved"} /\ e.milestone = i
        \/ e.name = "ProjectCancelled"
    BY <1>5, <1>6 DEF SettledBy
  <2> HIDE DEF k, e
  <2>2. CASE e.name = "MilestoneFundsReleased" /\ e.milestone = i
    BY <1>3, <2>2 DEF Applies, AfterReleased, Settled
  <2>3. CASE e.name = "DisputeResolved" /\ e.milestone = i
    BY <1>3, <2>3, SettledAsIsSettled DEF Applies, AfterDisputeResolved, Settled
  <2>4. CASE e.name = "ProjectCancelled"
    BY <1>3, <2>4 DEF Applies, AfterCancelled, Settled
  <2> QED  BY <2>1, <2>2, <2>3, <2>4
<1>7. CASE m # k
  <2>1. m \in 1..applied /\ m < k /\ m \in 1..Len(events)
    BY <1>1, <1>2, <1>4, <1>7
  <2>2. rows.milestone[i] \in Settled
    BY <1>5, <2>1 DEF SettledRowsStay
  <2>3. ~IsWorkOn(e, i)
    BY <1>2, <1>5, <2>1 DEF WorkEnds
  <2> HIDE DEF k, e
  <2>4. CASE e.name = "ProjectFunded"
    <3>1. rows.milestone \in MilestoneRows
      BY DEF BaseInv, Rows
    <3>2. e.funded \in Nat /\ rows'.milestone = FundedMilestones(rows.milestone, e.funded)
      BY <1>3, <2>4 DEF Applies, AfterFunded
    <3>3. rows'.milestone[i] = IF rows.milestone[i] = "PLANNED" /\ e.funded >= Cost[i + 1]
                               THEN "FUNDED" ELSE rows.milestone[i]
      BY <3>1, <3>2, FundedMilestonesRow
    <3> QED  BY <2>2, <3>3 DEF Settled
  <2>5. CASE e.name \in {"MilestoneSubmitted", "MilestoneApproved", "DisputeRaised"}
    BY <1>3, <2>2, <2>3, <2>5
       DEF Applies, IsWorkOn, AfterSubmitted, AfterApproved, AfterDisputeRaised
  <2>6. CASE e.name \in {"MilestoneFundsReleased", "DisputeEvidenceAppended", "DisputeResolved"}
    BY <1>3, <2>2, <2>6, SettledAsIsSettled
       DEF Applies, AfterReleased, AfterEvidence, AfterDisputeResolved, Settled
  <2>7. CASE e.name = "ProjectCancelled"
    BY <1>3, <2>2, <2>7 DEF Applies, AfterCancelled
  <2> QED  BY <1>3, <2>4, <2>5, <2>6, <2>7 DEF Applies
<1> QED  BY <1>6, <1>7

(* The approval panel writes RELEASED, and signs no new work on what is     *)
(* settled.                                                                 *)
LEMMA ApprovalPanelKeepsSettled ==
  ASSUME BaseInv, WorkEnds, SettledRowsStay, ApprovalPanel
  PROVE  WorkEnds' /\ SettledRowsStay'
<1> DEFINE do == page["approve"]
<1>t. PagesTyped /\ rows \in Rows /\ ChainOK /\ EventsTrue
  BY DEF BaseInv
<1>1. ASSUME UNCHANGED <<chainVars, applied>>,
             \A i \in Milestones : rows.milestone[i] \in Settled => rows'.milestone[i] \in Settled
      PROVE  WorkEnds' /\ SettledRowsStay'
  BY <1>1, WritesKeepSettled DEF chainVars, WorkEnds, SettledBy
<1>2. CASE OpenApproval \/ CheckApproval \/ CheckRelease \/ ReadReview \/ CountReleased
  <2>1. UNCHANGED <<chainVars, applied, rows>>
    BY <1>2 DEF OpenApproval, CheckApproval, CheckRelease, ReadReview, CountReleased,
                Advance, Refuse, OnRows
  <2> QED  BY <1>1, <2>1
<1>3. CASE SignApproval \/ SignRelease
  <2>1. /\ do.at \in {"approve", "release"}
        /\ \/ ApproveMilestone(do.milestone) \/ ReleaseMilestone(do.milestone)
           \/ UNCHANGED chainVars
        /\ UNCHANGED <<applied, rows>>
    BY <1>3 DEF SignApproval, SignRelease, At, Mined
  <2>2. do.milestone \in Milestones
    BY <1>t, <2>1, FormParts
  <2>3. CASE ApproveMilestone(do.milestone)
    BY <1>t, <2>1, <2>2, <2>3, ApproveMilestoneMoves, WorkCallsEndWork, CallsKeepSettled
  <2>4. CASE ReleaseMilestone(do.milestone)
    BY <1>t, <2>1, <2>2, <2>4, ReleaseMilestoneMoves, WorkCallsEndWork, CallsKeepSettled
  <2>5. CASE UNCHANGED chainVars
    BY <1>1, <2>1, <2>5
  <2> QED  BY <2>1, <2>3, <2>4, <2>5
<1>4. CASE StoreReview
  <2>1. /\ do.at = "write" /\ rows' = WriteApproval(rows, do.milestone, do.submission)
        /\ UNCHANGED <<chainVars, applied>>
    BY <1>4 DEF StoreReview, At
  <2>2. do.milestone \in Milestones
    BY <1>t, <2>1, FormParts
  <2>3. AfterReview(rows, rows', do.milestone)
    BY <1>t, <2>1, <2>2, WriteApprovalRow
  <2> QED  BY <1>1, <2>1, <2>3 DEF AfterReview, Settled
<1>5. CASE StoreReviewStatus
  <2>1. UNCHANGED <<chainVars, applied>> /\ rows' = [rows EXCEPT !.status = do.status]
    BY <1>5 DEF StoreReviewStatus
  <2>2. rows'.milestone = rows.milestone
    BY <1>t, <2>1 DEF Rows
  <2> QED  BY <1>1, <2>1, <2>2
<1> QED  BY <1>2, <1>3, <1>4, <1>5 DEF ApprovalPanel

(* The dispute queue decides, and settles the row of what it decided.       *)
LEMMA DisputeQueueKeepsSettled ==
  ASSUME BaseInv, WorkEnds, SettledRowsStay, DisputeQueue
  PROVE  WorkEnds' /\ SettledRowsStay'
<1> DEFINE do == page["admin"]
<1>t. PagesTyped /\ rows \in Rows /\ ChainOK /\ EventsTrue
  BY DEF BaseInv
<1>1. ASSUME UNCHANGED <<events, applied>>,
             \A i \in Milestones : rows.milestone[i] \in Settled => rows'.milestone[i] \in Settled
      PROVE  WorkEnds' /\ SettledRowsStay'
  BY <1>1, WritesKeepSettled DEF WorkEnds, SettledBy
<1>2. CASE OpenResolution \/ CheckResolution \/ ReadResolution
  <2>1. UNCHANGED <<events, applied, rows>>
    BY <1>2 DEF OpenResolution, CheckResolution, ReadResolution, Advance, Refuse, OnRows, chainVars
  <2> QED  BY <1>1, <2>1
<1>3. CASE SignResolution
  <2>1. /\ do.at = "vote"
        /\ ResolveDispute(do.milestone, do.arbiter, do.amount) \/ UNCHANGED chainVars
        /\ UNCHANGED <<applied, rows>>
    BY <1>3 DEF SignResolution, At, Mined
  <2>2. do.milestone \in Milestones
    BY <1>t, <2>1, FormParts
  <2>3. \/ do.amount \in Amounts /\ SettleDispute(do.milestone, do.amount)
        \/ events' = events
    BY <1>t, <2>1, <2>2, ResolveDisputeMoves DEF chainVars
  <2>4. CASE do.amount \in Amounts /\ SettleDispute(do.milestone, do.amount)
    BY <1>t, <2>1, <2>2, <2>4, SettleDisputeMoves, DecisionEndsWork, CallsKeepSettled
  <2> QED  BY <1>1, <2>1, <2>3, <2>4
<1>4. CASE StoreResolution
  <2>1. /\ do.at = "write" /\ UNCHANGED <<chainVars, applied>>
        /\ rows' = WriteResolution(rows, do.milestone, do.dispute, KindChosen(do))
    BY <1>4 DEF StoreResolution, At, KindChosen
  <2>2. do.milestone \in Milestones
    BY <1>t, <2>1, FormParts
  <2>3. AfterResolution(rows, rows', do.milestone, do.dispute, KindChosen(do))
    BY <1>t, <2>1, <2>2, WriteResolutionRow
  <2> QED  BY <1>1, <2>1, <2>3, SettledAsIsSettled DEF AfterResolution, Settled, chainVars
<1> QED  BY <1>2, <1>3, <1>4 DEF DisputeQueue

(* The other pages stay closed if they are never opened.                    *)
LEMMA OthersStayClosed ==
  ASSUME PagesTyped, OpenPages \subseteq {"approve", "admin"}, OthersClosed, PageStep
  PROVE  OthersClosed' /\ (ApprovalPanel \/ DisputeQueue)
<1>1. /\ page["submit"].at = "closed" /\ page["dispute"].at = "closed"
      /\ page["fund"].at = "closed"
  BY DEF OthersClosed, At
<1>2. ~SubmitPage
  BY <1>1 DEF SubmitPage, OpenSubmit, ReadSubmission, StoreSubmission, SignSubmission, At
<1>3. ~DisputePanel
  BY <1>1 DEF DisputePanel, OpenDispute, CheckDispute, SignDispute, ReadDispute,
              StoreDispute, At
<1>4. ~FundingPanel
  BY <1>1 DEF FundingPanel, OpenFunding, SignFunding, ReadFunded, ReadMilestones,
              StoreFunding, At
<1>5. ASSUME ApprovalPanel PROVE \E f : Go("approve", f)
  BY <1>5 DEF ApprovalPanel, OpenApproval, CheckApproval, SignApproval, CheckRelease,
       SignRelease, ReadReview, StoreReview, CountReleased, StoreReviewStatus,
       Mined, Advance, Refuse, OnRows
<1>6. ASSUME DisputeQueue PROVE \E f : Go("admin", f)
  BY <1>6 DEF DisputeQueue, OpenResolution, CheckResolution, SignResolution,
       ReadResolution, StoreResolution, Mined, Advance, Refuse, OnRows
<1>7. ApprovalPanel \/ DisputeQueue
  BY <1>2, <1>3, <1>4 DEF PageStep
<1>8. page'["submit"] = page["submit"] /\ page'["dispute"] = page["dispute"]
      /\ page'["fund"] = page["fund"]
  BY <1>5, <1>6, <1>7 DEF Go, PagesTyped, Pages
<1> QED  BY <1>1, <1>7, <1>8 DEF OthersClosed, At

(* Every step keeps settled rows settled.                                   *)
LEMMA StepKeepsSettled ==
  ASSUME ~MayReorg, OpenPages \subseteq {"approve", "admin"}, BaseInv,
         WorkEnds, OthersClosed, SettledRowsStay, [Next]_workflowVars
  PROVE  WorkEnds' /\ OthersClosed' /\ SettledRowsStay'
<1>t. PagesTyped /\ ChainOK /\ EventsTrue
  BY DEF BaseInv
<1>1. CASE DirectCall
  <2>1. Moved /\ UNCHANGED <<applied, rows, page>>
    BY <1>t, <1>1, DirectCallMoves DEF DirectCall
  <2> QED  BY <1>t, <1>1, <2>1, DirectCallEndsWork, CallsKeepSettled DEF OthersClosed, At
<1>2. CASE Reorg
  BY <1>2 DEF Reorg
<1>3. CASE SyncEvent
  <2>1. UNCHANGED <<events, page>>
    BY <1>3 DEF SyncEvent, chainVars
  <2> QED  BY <1>3, <2>1, SyncEventKeepsSettled DEF WorkEnds, SettledBy, OthersClosed, At
<1>4. CASE PageStep
  BY <1>t, <1>4, OthersStayClosed, ApprovalPanelKeepsSettled, DisputeQueueKeepsSettled
<1>5. ASSUME NEW p \in Pages, Leave(p) PROVE WorkEnds' /\ OthersClosed' /\ SettledRowsStay'
  <2>1. Go(p, Closed) /\ UNCHANGED <<events, applied, rows>>
    BY <1>5 DEF Leave, Refuse, OnRows, chainVars
  <2>2. OthersClosed'
    BY <1>t, <2>1 DEF OthersClosed, At, Go, Closed, PagesTyped, Pages
  <2> QED  BY <2>1, <2>2 DEF WorkEnds, SettledRowsStay, SettledBy
<1>6. CASE UNCHANGED workflowVars
  <2>1. UNCHANGED <<events, applied, rows, page>>
    BY <1>6 DEF workflowVars, chainVars
  <2> QED  BY <2>1 DEF WorkEnds, SettledRowsStay, SettledBy, OthersClosed, At
<1> QED  BY <1>1, <1>2, <1>3, <1>4, <1>5, <1>6 DEF Next

(* SettledRowsStay: once event sync has applied the payment, the decision   *)
(* or the cancellation that settles a milestone, its row stays RELEASED or  *)
(* VOIDED, beside the late reports of the approval panel and the dispute    *)
(* queue and any calls in any order.  Neither writer locks or looks at the  *)
(* row: it holds because the chain emits no more work on the milestone, and *)
(* what these two pages write settles it too.  The other pages' reports do  *)
(* take rows back.                                                          *)
THEOREM SettledRowsAreFinal ==
  ASSUME ~MayReorg, OpenPages \subseteq {"approve", "admin"}
  PROVE  Spec => []SettledRowsStay
<1>1. Init => BaseInv /\ WorkEnds /\ OthersClosed /\ SettledRowsStay
  <2>1. Init => BaseInv
    BY InitIsBase
  <2>2. Init => WorkEnds /\ SettledRowsStay
    BY DEF Init, WorkEnds, SettledRowsStay
  <2>3. Init => OthersClosed
    BY DEF Init, OthersClosed, At, Closed, Pages
  <2> QED  BY <2>1, <2>2, <2>3
<1>2. BaseInv /\ WorkEnds /\ OthersClosed /\ SettledRowsStay /\ [Next]_workflowVars
        => BaseInv' /\ WorkEnds' /\ OthersClosed' /\ SettledRowsStay'
  BY StepKeepsBase, StepKeepsSettled
<1> QED  BY <1>1, <1>2, PTL DEF Spec
=============================================================================
