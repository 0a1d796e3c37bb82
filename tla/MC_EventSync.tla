---------------------------- MODULE MC_EventSync ----------------------------
(***************************************************************************)
(* Event synchronisation in scenes: in "given" the .cfg says how the chain *)
(* and its runs are, in "unstorable" an event does not fit its column.     *)
(***************************************************************************)
EXTENDS EventSync, TLC

CONSTANTS Scenes, pause, unpause, redirect, r1, r2

VARIABLE scene

sceneVars == <<scene, vars>>
In(s) == scene = s

Pauses == {pause, unpause}
NoRedirects == <<>>
Redirected == redirect :> 1

(* Blocks of none, one or two transactions. *)
OverlapBlocks == {<<>>, <<pause>>, <<unpause>>, <<pause, unpause>>}
ReorgBlocks   == {<<>>, <<pause>>, <<redirect>>, <<pause, unpause>>}
MixedBlocks   == {<<>>, <<pause>>, <<redirect>>, <<redirect, pause>>}

(* The chain's first block, the confirmations and how deep it reorganises   *)
(* are those of the .cfg.                                                   *)
Unstorable == INSTANCE EventSync WITH
  Txs <- {pause, redirect}, PauseTxs <- {pause}, OnChainProject <- Redirected,
  UnstorableTxs <- {redirect}, BlockContents <- MixedBlocks, Runs <- {r1, r2},
  EVENT_SYNC_BATCH_SIZE <- 2, EVENT_SYNC_REWIND_DEPTH <- 1, ReorgDuringRuns <- TRUE,
  MaxHead <- 3, MaxForks <- 1, MaxFailures <- 1

SceneInit ==
  /\ scene \in Scenes
  /\ IF In("unstorable") THEN Unstorable!Init ELSE Init

SceneNext ==
  /\ UNCHANGED scene
  /\ \/ In("given") /\ Next
     \/ In("unstorable") /\ Unstorable!Next

(* FairSpec of EventSync, where everything can be stored. *)
GoesOn(r) == UNCHANGED scene /\ In("given") /\ RunStep(r)
IsTriggered(r) == UNCHANGED scene /\ In("given") /\ Trigger(r)

SceneSpec == SceneInit /\ [][SceneNext]_sceneVars
FairSceneSpec ==
  /\ SceneSpec
  /\ \A r \in Runs : WF_sceneVars(GoesOn(r)) /\ WF_sceneVars(IsTriggered(r))

-----------------------------------------------------------------------------
(* Events with enough confirmations reach the ledger, as long as runs are   *)
(* triggered: the chain being bounded, that again and again none is missing.*)
LedgerCatchesUp ==
  []<>(In("given") => \A t \in Txs : Confirmed(t) => Stored(t))
=============================================================================
