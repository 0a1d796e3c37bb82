-------------------------- MODULE EscrowRefinement --------------------------
(***************************************************************************)
(* EscrowFlowRegistry keeps, for every project, the promise of             *)
(* EscrowLifecycle: its counters, reservations and per-milestone records   *)
(* amount to one pointer that moves over the milestone list.               *)
(***************************************************************************)
EXTENDS EscrowRegistry

AgreementOf(plan) == [count |-> plan.milestoneCount, cost |-> plan.runningTotal]

(* The milestone in work, and how the ones before it were settled. *)
NextOf(p) == project[p].settledMilestoneCount
WorkOf(p) ==
  IF NextOf(p) < project[p].plan.milestoneCount
  THEN milestone[p][NextOf(p)].status ELSE "Pending"
OutcomeOf(p) ==
  [i \in MilestoneIndexes |->
     IF i < NextOf(p) THEN milestone[p][i].status ELSE "Pending"]

Lifecycle(p) ==
  INSTANCE EscrowLifecycle WITH
    Deposits   <- FundingAmounts,
    Agreements <- {AgreementOf(plan) : plan \in Plans},
    stage      <- IF Exists(p) THEN project[p].status ELSE "None",
    agreement  <- AgreementOf(project[p].plan),
    funded     <- project[p].fundedAmount,
    paid       <- project[p].releasedAmount,
    refunded   <- project[p].refundedAmount,
    next       <- NextOf(p),
    work       <- WorkOf(p),
    outcome    <- OutcomeOf(p)

(* Whatever accounts, arbitrators, admins and the clock do, every step of   *)
(* the registry is, for each project, a step its lifecycle allows or none   *)
(* at all: work is paid in order, once and at its price, whoever decides,   *)
(* and what is called off is returned.                                      *)
KeepsLifecycle ==
  [][\A p \in Projects :
       /\ Exists(p) \/ Lifecycle(p)!LifecycleInit
       /\ [Lifecycle(p)!LifecycleNext]_(Lifecycle(p)!lifecycleVars)]_vars
=============================================================================
