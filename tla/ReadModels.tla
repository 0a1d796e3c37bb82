----------------------------- MODULE ReadModels -----------------------------
(***************************************************************************)
(* What the project page, the dashboards and the dispute queue report of   *)
(* one project: amounts summed over the ledger (transaction_logs, a row    *)
(* for each event event sync has applied) and lists selected by status     *)
(* from the rows.  Every figure is one query of the services.              *)
(***************************************************************************)
EXTENDS MilestoneWorkflow, SequencesExt, FiniteSetsExt

Ledger == SubSeq(events, 1, applied)

-----------------------------------------------------------------------------
(* The payload of a ledger row.                                             *)

(* toTxPayload spells out deposits; of any other event the arguments go     *)
(* into a field of their own.                                               *)
Payload(event) ==
  IF event.name = "ProjectFunded"
  THEN [amount |-> event.amount, fundedAmountAfter |-> event.funded]
  ELSE [args |-> event]

(* payload->>'key', with COALESCE: a missing field counts as nothing.       *)
Field(event, key) == IF key \in DOMAIN Payload(event) THEN Payload(event)[key] ELSE 0

SumOfRows(Amount(_)) == FoldLeft(LAMBDA sum, event : sum + Amount(event), 0, Ledger)
RowsOf(name) == {e \in DOMAIN Ledger : Ledger[e].name = name}

(* Mutant: the running totals are added up.                                 *)
FundedAmount_AddsTotals ==
  SumOfRows(LAMBDA event : Field(event, "fundedAmountAfter"))

FundedAmount ==
  Max({0} \cup {Field(Ledger[e], "fundedAmountAfter") : e \in RowsOf("ProjectFunded")})

(* The released amount of a project, and the freelancer's earnings from it. *)
ReleasedAmount ==
  SumOfRows(LAMBDA event :
    CASE event.name = "MilestoneFundsReleased" -> Field(event, "amount")
      [] event.name = "DisputeResolved"        -> Field(event, "freelancerAmount")
      [] OTHER                                 -> 0)

(* What the client's dashboard adds up over the projects that are on.       *)
EscrowLocked == IF rows.status \in {"AWAITING_ESCROW", "ACTIVE"} THEN TotalValue ELSE 0

(* The resolution the dispute queue shows: the payload's kind, of a ledger  *)
(* row linked to the milestone.  The rows event sync writes are linked to   *)
(* the project only, and keep the kind, a number, among the arguments.      *)
LinkedTo(event) == {}
Resolution(i) ==
  {Field(Ledger[e], "kind") :
     e \in {f \in RowsOf("DisputeResolved") :
              i \in LinkedTo(Ledger[f]) /\ "kind" \in DOMAIN Payload(Ledger[f])}}

-----------------------------------------------------------------------------
(* The lists.                                                               *)

(* Mutant: work counts as up for review until it is paid.                   *)
PendingReviews_UntilPaid ==
  {i \in Milestones : rows.milestone[i] \in {"SUBMITTED", "APPROVED", "DISPUTED"}}

PendingReviews == {i \in Milestones : rows.milestone[i] = "SUBMITTED"}

MilestonesToDeliver == {i \in Milestones : rows.milestone[i] = "FUNDED"}

OpenDisputeItems == {i \in Milestones : OpenDisputes(rows, i) # {}}

(* The actions client and freelancer are asked for.                         *)
ClientActions ==
  [escrow   |-> rows.status = "AWAITING_ESCROW",
   reviews  |-> PendingReviews,
   disputes |-> OpenDisputeItems]

FreelancerActions ==
  [deliveries |-> MilestonesToDeliver, disputes |-> OpenDisputeItems]

-----------------------------------------------------------------------------
CaughtUp == applied = Len(events)

(* The funded amount the pages show is the contract's, once event sync has  *)
(* caught up, after any number of deposits and orphaned transactions.       *)
FundedShown == CaughtUp => FundedAmount = funded

(* No work waits unseen: a delivery the registry lets the client approve is *)
(* among the pending reviews, a milestone it lets the freelancer deliver is *)
(* on the delivery list, a dispute is on both lists.                        *)
WorkIsListed ==
  CaughtUp =>
    \A i \in Milestones :
      /\ CanApprove(i)  => i \in ClientActions.reviews
      /\ CanSubmit(i)   => i \in FreelancerActions.deliveries
      /\ IsDisputed(i)  => /\ i \in ClientActions.disputes
                           /\ i \in FreelancerActions.disputes

(* Nothing is asked for in vain: escrow is awaited only while the contract  *)
(* takes deposits, the registry holds the money of every delivery up for    *)
(* review, and covers the milestones that are to be delivered.              *)
ActionsAreDue ==
  CaughtUp =>
    /\ ClientActions.escrow => IsOpen /\ funded < TotalValue
    /\ \A i \in ClientActions.reviews :
         i = next /\ work = "Submitted" /\ Held >= Price
    /\ \A i \in FreelancerActions.deliveries :
         IsOpen /\ i >= next /\ funded >= Cost[i + 1]

(* Once event sync has caught up and nobody is half way, milestones and     *)
(* project are shown as they are on the chain: their rows, the funded       *)
(* amount, and what each party is asked for.  Only what arbitrators decided *)
(* is not: it is shown as paid out.                                         *)
ShownAsOnChain ==
  /\ MilestonesAreShown /\ ProjectMirrorsChain
  /\ FundedShown /\ WorkIsListed /\ ActionsAreDue

(* The released amount is what the registry has sent to the freelancer.     *)
ReleasedShown == CaughtUp => ReleasedAmount = paid

(* The escrow reported as locked is at least what the registry holds.       *)
HeldIsReported == CaughtUp => EscrowLocked >= Held

(* A settled dispute is shown with what was decided.                        *)
ResolutionShown ==
  CaughtUp =>
    \A i \in Milestones : \A d \in DOMAIN rows.disputes[i] :
      rows.disputes[i][d].status # "OPEN" => Resolution(i) # {}
=============================================================================
