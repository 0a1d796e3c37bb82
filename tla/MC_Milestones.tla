--------------------------- MODULE MC_Milestones ---------------------------
(***************************************************************************)
(* A project on the chain and in the database, in scenes.  In "calls" the  *)
(* .cfg says what is called, and event sync alone writes the rows.  In the *)
(* others a project beside that one is worked on through pages that report *)
(* what they have done, or has its transactions orphaned.                  *)
(***************************************************************************)
EXTENDS MilestoneWorkflow, ReadModels

CONSTANTS Scenes, a1

VARIABLES
  scene, stageB, agreementB, fundedB, paidB, refundedB, nextB, workB, outcomeB,
  eventsB, votesB, appliedB, rowsB, pageB, undoB

besideVars ==
  <<stageB, agreementB, fundedB, paidB, refundedB, nextB, workB, outcomeB,
    eventsB, votesB, appliedB, rowsB, pageB, undoB>>
sceneVars == <<scene, workflowVars, besideVars>>
In(s) == scene = s
InAny(S) == scene \in S

CostTwo == [k \in 0..2 |-> 2 * k]
AgreementTwo == {[count |-> 2, cost |-> CostTwo]}
IndexesTwo == {0, 1}
AllCalls == Calls

Beside(deposits, opened, called, leaves, orphans) == INSTANCE ReadModels WITH
  Deposits <- deposits, OpenPages <- opened, Direct <- called,
  MayLeave <- leaves, MayReorg <- orphans,
  stage <- stageB, agreement <- agreementB, funded <- fundedB, paid <- paidB,
  refunded <- refundedB, next <- nextB, work <- workB, outcome <- outcomeB,
  events <- eventsB, votes <- votesB, applied <- appliedB, rows <- rowsB,
  page <- pageB, undo <- undoB

(* Deliveries, approvals and payouts through their pages. *)
ReviewNext ==
  Beside({2, 4}, {"submit", "approve"}, {"fundProject"}, FALSE, FALSE)!Next

(* Deposits through the funding panel, all else without a page. *)
FundingNext ==
  Beside({2, 4}, {"fund"},
         {"submitMilestone", "approveMilestone", "releaseMilestone", "raiseDispute",
          "resolveDispute", "cancelProject"}, TRUE, FALSE)!Next

(* Approvals and decisions through their pages, late beside everything else. *)
CorrectingNext ==
  Beside({4}, {"approve", "admin"},
         {"fundProject", "submitMilestone", "approveMilestone", "releaseMilestone",
          "raiseDispute", "cancelProject"}, FALSE, FALSE)!Next

(* A dispute through its panel and the queue, either left half way. *)
DisputeNext ==
  Beside({4}, {"submit", "dispute", "admin"}, {"fundProject"}, TRUE, FALSE)!Next

(* Transactions are orphaned and mined again. *)
ReplayNext == Beside({4}, {}, AllCalls, FALSE, TRUE)!Next

(* So are deposits. *)
RedepositNext ==
  Beside({1, 2, 4}, {}, {"fundProject", "submitMilestone", "cancelProject"}, FALSE, TRUE)!Next

(* The beside project in whatever scene: what the properties tell of it. *)
B == INSTANCE ReadModels WITH
  stage <- stageB, agreement <- agreementB, funded <- fundedB, paid <- paidB,
  refunded <- refundedB, next <- nextB, work <- workB, outcome <- outcomeB,
  events <- eventsB, votes <- votesB, applied <- appliedB, rows <- rowsB,
  page <- pageB, undo <- undoB

SceneInit == scene \in Scenes /\ Init /\ B!Init

SceneNext ==
  /\ UNCHANGED scene
  /\ \/ In("calls") /\ Next /\ UNCHANGED besideVars
     \/ /\ UNCHANGED workflowVars
        /\ \/ In("reviewing") /\ ReviewNext
           \/ In("funding") /\ FundingNext
           \/ In("correcting") /\ CorrectingNext
           \/ In("disputing") /\ DisputeNext
           \/ In("replaying") /\ ReplayNext
           \/ In("redepositing") /\ RedepositNext

(* FairSpec of MilestoneWorkflow: event sync keeps running, and a handler   *)
(* that has started goes on.                                                *)
Syncs ==
  /\ UNCHANGED scene
  /\ \/ In("calls") /\ SyncEvent /\ UNCHANGED besideVars
     \/ In("reviewing") /\ B!SyncEvent /\ UNCHANGED workflowVars
HandlerGoesOn(p) ==
  /\ UNCHANGED <<scene, workflowVars>> /\ In("reviewing")
  /\ Beside({2, 4}, {"submit", "approve"}, {"fundProject"}, FALSE, FALSE)!Handle(p)

SceneSpec ==
  /\ SceneInit /\ [][SceneNext]_sceneVars
  /\ WF_sceneVars(Syncs)
  /\ \A p \in {"submit", "approve"} : WF_sceneVars(HandlerGoesOn(p))

-----------------------------------------------------------------------------
(* In "calls" the properties are those of MilestoneWorkflow and ReadModels  *)
(* themselves; of the beside project:                                       *)

(* Pages report nothing the registry has not done, and accept no work that  *)
(* is not approved; each delivery is one row, whoever wrote it, and a       *)
(* milestone has one open dispute at most, however often events are         *)
(* applied; at rest the rows of reviewed work are what the registry says;   *)
(* and the funded amount is right whatever is opened or orphaned.           *)
ReportsAreTrue ==
  /\ InAny({"reviewing", "funding", "disputing"}) => B!NothingIsAhead
  /\ In("disputing") => B!AcceptedMeansApproved
  /\ In("reviewing") => B!MilestonesMirrorChain
  /\ InAny({"reviewing", "correcting", "replaying"}) => B!SettledRowsStay
  /\ InAny({"reviewing", "replaying"}) => B!OneRowPerDelivery
  /\ In("replaying") => B!OneOpenDispute
  /\ B!FundedShown

(* What the registry has settled is shown so in the end and from then on,   *)
(* although event sync may first take a row back through every status.      *)
SettlementIsShown ==
  \A i \in {0, 1} :
    /\ (In("calls") /\ i < next) ~> [](rows.milestone[i] = ShownOf(i))
    /\ (In("reviewing") /\ i < nextB) ~> [](rowsB.milestone[i] = B!MirrorOf(i))
=============================================================================
