----------------------------- MODULE EventSync -----------------------------
(***************************************************************************)
(* The event synchronisation of the web application: runs of               *)
(* syncEscrowEventsOnce copy the registry's events from a chain that grows *)
(* and reorganises into the ledger (transaction_logs) and into projections *)
(* of it.                                                                  *)
(*                                                                         *)
(* A run is an asynchronous function: it awaits the node and the database  *)
(* between the actions below, nothing locks the checkpoint, and any number *)
(* of triggered runs overlap.  A database call is one action, and so is    *)
(* the transaction that rewinds; the transaction that stores a log is two, *)
(* for it reads what another run may change before it writes.  A           *)
(* transaction of the chain emits one event; a block holds several.        *)
(***************************************************************************)
EXTENDS Integers, Sequences, FiniteSets

CONSTANTS
  Txs,                   \* transactions that call the registry
  PauseTxs,              \* those that emit Paused or Unpaused
  OnChainProject,        \* projectId of the event of each other transaction
  UnstorableTxs,         \* those about a whole project: their milestoneIndex is
                         \* 2^256 - 1, beyond the column's 32 bits
  BlockContents,         \* sequences of transactions a block may hold
  Runs,                  \* runs that may be in progress at once
  None,                  \* SQL null
  EVENT_SYNC_START_BLOCK, EVENT_SYNC_BATCH_SIZE,
  EVENT_SYNC_CONFIRMATIONS, EVENT_SYNC_REWIND_DEPTH,
  MaxReorgDepth,         \* blocks a reorganisation may replace
  ReorgDuringRuns,       \* whether one may happen while a run is in progress
  MaxHead, MaxForks,     \* bounds: blocks mined, reorganisations
  MaxFailures            \* bound: runs that fail or crash

RecipientTxs == Txs \ PauseTxs      \* they emit AlternativeRecipientSet
ProjectKeys == {OnChainProject[t] : t \in RecipientTxs} \cup {0}

ASSUME EventsAssumption ==
  /\ IsFiniteSet(Txs) /\ PauseTxs \subseteq Txs
  /\ OnChainProject \in [RecipientTxs -> Nat \ {0}]
  /\ UnstorableTxs \subseteq RecipientTxs
  /\ BlockContents \subseteq Seq(Txs) /\ <<>> \in BlockContents
  /\ None \notin Txs \cup Nat
ASSUME EnvAssumption ==
  /\ EVENT_SYNC_START_BLOCK \in Nat \ {0} /\ EVENT_SYNC_BATCH_SIZE \in Nat \ {0}
  /\ EVENT_SYNC_CONFIRMATIONS \in Nat /\ EVENT_SYNC_REWIND_DEPTH \in Nat \ {0}
ASSUME BoundsAssumption ==
  /\ {MaxReorgDepth, MaxHead, MaxForks, MaxFailures} \subseteq Nat
  /\ ReorgDuringRuns \in BOOLEAN

VARIABLES
  chain,        \* the canonical chain the node reports: its blocks in order
  forks,        \* reorganisations so far; with the number it hashes a block
  ledger,       \* rows of transaction_logs with sourceType chain_event
  projection,   \* rows of contract_pause_states, alternative_recipient_states
  checkpoint,   \* row of event_sync_checkpoints, None before the first run
  run,          \* [run]: where it stands and what it has read
  failures

dbVars == <<ledger, projection, checkpoint>>
vars == <<chain, forks, dbVars, run, failures>>

-----------------------------------------------------------------------------
(* Events and what is projected from them.                                 *)

NoProjection ==
  [pause |-> None, recipient |-> [k \in ProjectKeys |-> None]]

(* Each cell holds the transaction that changed it last. *)
Project(state, tx, key) ==
  IF tx \in PauseTxs THEN [state EXCEPT !.pause = tx]
                     ELSE [state EXCEPT !.recipient[key] = tx]

(* The key of a decoded log, and of one parsed back from the ledger, where  *)
(* the number has become a string that asBigInt does not read.              *)
LiveKey(tx) == IF tx \in PauseTxs THEN 0 ELSE OnChainProject[tx]
StoredKey(tx) == 0

(* blockNumber, then logIndex *)
Before(l, m) ==
  l.block < m.block \/ (l.block = m.block /\ l.logIndex < m.logIndex)

LastTx(rows) ==
  IF rows = {} THEN None
  ELSE (CHOOSE l \in rows : \A m \in rows : ~Before(l, m)).tx

(* Mutant: the rewind clears the pause state and does not replay it. *)
Replayed_ForgetsPause(rows) ==
  [pause |-> None,
   recipient |-> [k \in ProjectKeys |->
     LastTx({l \in rows : l.tx \in RecipientTxs /\ StoredKey(l.tx) = k})]]

(* Replaying rows in order leaves in each cell the last that writes it. *)
Replayed(rows) ==
  [pause |-> LastTx({l \in rows : l.tx \in PauseTxs}),
   recipient |-> [k \in ProjectKeys |->
     LastTx({l \in rows : l.tx \in RecipientTxs /\ StoredKey(l.tx) = k})]]

-----------------------------------------------------------------------------
(* The chain.  Blocks are numbered from 1; a block's hash is its number     *)
(* with the fork that mined it; a log is identified by its transaction.     *)

HeadBlock == Len(chain)

BlockLogs(b) ==
  {[tx |-> chain[b].txs[i], logIndex |-> i, block |-> b] : i \in DOMAIN chain[b].txs}
ChainLogs(from, to) == UNION {BlockLogs(b) : b \in from..to}

Valid(blocks) ==
  \A b, c \in DOMAIN blocks : \A i \in DOMAIN blocks[b].txs, j \in DOMAIN blocks[c].txs :
    blocks[b].txs[i] = blocks[c].txs[j] => b = c /\ i = j

Mine ==
  /\ HeadBlock < MaxHead
  /\ \E txs \in BlockContents :
       chain' = Append(chain, [fork |-> forks, txs |-> txs])
  /\ Valid(chain')
  /\ UNCHANGED <<forks, dbVars, run, failures>>

Idle(r) == run[r].at = "idle"

(* Other blocks replace the last ones, as many of them. *)
Reorganise ==
  /\ forks < MaxForks
  /\ ReorgDuringRuns \/ \A r \in Runs : Idle(r)
  /\ forks' = forks + 1
  /\ \E depth \in 1..MaxReorgDepth :
       /\ depth <= HeadBlock
       /\ \E txs \in [1..depth -> BlockContents] :
            chain' = [b \in 1..HeadBlock |->
              IF b <= HeadBlock - depth THEN chain[b]
              ELSE [fork |-> forks + 1, txs |-> txs[b - (HeadBlock - depth)]]]
  /\ Valid(chain')
  /\ UNCHANGED <<dbVars, run, failures>>

-----------------------------------------------------------------------------
(* A run of syncEscrowEventsOnce.                                          *)

IdleRun ==
  [at |-> "idle", safeHead |-> 0, seen |-> None, pending |-> {},
   state |-> NoProjection, shouldApply |-> FALSE, toBlock |-> 0, blockHash |-> None]

NewCheckpoint(block, hash, logIndex, state) ==
  [block |-> block, hash |-> hash, logIndex |-> logIndex, cursorState |-> state]

Init ==
  /\ chain = <<>> /\ forks = 0
  /\ ledger = {} /\ projection = NoProjection /\ checkpoint = None
  /\ run = [r \in Runs |-> IdleRun]
  /\ failures = 0

(* Mutant: the confirmations are not waited for. *)
SafeHeadBlock_Latest == HeadBlock

SafeHeadBlock ==
  IF HeadBlock > EVENT_SYNC_CONFIRMATIONS
  THEN HeadBlock - EVENT_SYNC_CONFIRMATIONS ELSE 0

Trigger(r) ==
  /\ Idle(r)
  /\ run' = [run EXCEPT ![r].at = "checkpoint", ![r].safeHead = SafeHeadBlock]
  /\ UNCHANGED <<chain, forks, dbVars, failures>>

(* A checkpoint without a hash, or beyond the safe head, is not verified. *)
ReadCheckpoint(r) ==
  /\ run[r].at = "checkpoint"
  /\ LET verify == checkpoint # None /\ checkpoint.hash # None
                     /\ checkpoint.block <= run[r].safeHead
     IN  run' = [run EXCEPT ![r].seen = checkpoint,
                            ![r].at = IF verify THEN "verify" ELSE "fetch"]
  /\ UNCHANGED <<chain, forks, dbVars, failures>>

HashMismatch(seen) == seen.hash # None /\ chain[seen.block].fork # seen.hash

VerifyCheckpoint(r) ==
  /\ run[r].at = "verify"
  /\ run' = [run EXCEPT ![r].at = IF HashMismatch(run[r].seen) THEN "rewind"
                                                              ELSE "fetch"]
  /\ UNCHANGED <<chain, forks, dbVars, failures>>

(* Mutant: rewinds to the checkpoint's own block only. *)
RewindFromBlock_NoDepth(lastProcessedBlock) ==
  IF lastProcessedBlock > EVENT_SYNC_START_BLOCK
  THEN lastProcessedBlock ELSE EVENT_SYNC_START_BLOCK

RewindFromBlock(lastProcessedBlock) ==
  LET candidate == lastProcessedBlock - EVENT_SYNC_REWIND_DEPTH
  IN  IF candidate > EVENT_SYNC_START_BLOCK THEN candidate
                                            ELSE EVENT_SYNC_START_BLOCK

LastBlock(rows) ==
  CHOOSE b \in {EVENT_SYNC_START_BLOCK - 1} \cup {l.block : l \in rows} :
    \A l \in rows : l.block <= b

(* Mutant: the projection state is carried over the rewind. *)
RebuiltCheckpoint_KeepsState(retained, replayed) ==
  NewCheckpoint(LastBlock(retained), None, None, checkpoint.cursorState)

RebuiltCheckpoint(retained, replayed) ==
  NewCheckpoint(LastBlock(retained), None, None, replayed)

(* One transaction: forget the ledger from the rewind block on, clear the   *)
(* projections and replay what is left of the ledger into them.             *)
Rewind(r) ==
  /\ run[r].at = "rewind"
  /\ LET from     == RewindFromBlock(run[r].seen.block)
         retained == {l \in ledger : l.block < from}
         replayed == Replayed(retained)
         rebuilt  == RebuiltCheckpoint(retained, replayed)
     IN  /\ ledger' = retained
         /\ projection' = replayed
         /\ checkpoint' = rebuilt
         /\ run' = [run EXCEPT ![r].at = "fetch", ![r].seen = rebuilt]
  /\ UNCHANGED <<chain, forks, failures>>

(* Mutant: a checkpoint inside a block resumes after the block. *)
FromBlock_SkipsRestOfBlock(seen) ==
  IF seen = None THEN EVENT_SYNC_START_BLOCK ELSE seen.block + 1

FromBlock(seen) ==
  IF seen = None THEN EVENT_SYNC_START_BLOCK
  ELSE IF seen.logIndex = None THEN seen.block + 1 ELSE seen.block

NothingToSync(r) ==
  /\ run[r].at = "fetch"
  /\ FromBlock(run[r].seen) > run[r].safeHead
  /\ run' = [run EXCEPT ![r] = IdleRun]
  /\ UNCHANGED <<chain, forks, dbVars, failures>>

AfterCursor(l, seen) ==
  seen = None \/ seen.logIndex = None \/ l.block # seen.block
    \/ l.logIndex > seen.logIndex

(* getLogs reads the chain as it is now, up to the head read at the start. *)
FetchLogs(r) ==
  LET seen == run[r].seen
      from == FromBlock(seen)
      end  == from + EVENT_SYNC_BATCH_SIZE - 1
      to   == IF run[r].safeHead < end THEN run[r].safeHead ELSE end
      logs == {l \in ChainLogs(from, to) : AfterCursor(l, seen)}
  IN
  /\ run[r].at = "fetch"
  /\ from <= run[r].safeHead
  /\ run' = [run EXCEPT
       ![r].at = IF logs = {} THEN "empty" ELSE "apply",
       ![r].toBlock = to,
       ![r].pending = {[log |-> l, hash |-> chain[l.block].fork] : l \in logs},
       ![r].state = IF seen = None THEN NoProjection ELSE seen.cursorState]
  /\ UNCHANGED <<chain, forks, dbVars, failures>>

SameKey(l, m) == l.tx = m.tx /\ l.logIndex = m.logIndex

ShouldApply(l) == ~ \E m \in ledger : SameKey(l, m)

(* The earliest log not yet stored. *)
NextEntry(r) ==
  CHOOSE e \in run[r].pending : \A f \in run[r].pending : ~Before(f.log, e.log)

(* One transaction per log, at read committed: first it looks whether the   *)
(* ledger has the log, ...                                                  *)
LookUpLog(r) ==
  /\ run[r].at = "apply"
  /\ run' = [run EXCEPT ![r].at = "store",
                        ![r].shouldApply = ShouldApply(NextEntry(r).log)]
  /\ UNCHANGED <<chain, forks, dbVars, failures>>

(* Only the projection of the event meets the column; the ledger has none.  *)
CanStore(r) == run[r].shouldApply => NextEntry(r).log.tx \notin UnstorableTxs

(* ... then it writes projections, ledger row and checkpoint, and commits.  *)
(* Each write locks its row until then, so the writes take effect together. *)
StoreLog(r) ==
  /\ run[r].at = "store" /\ CanStore(r)
  /\ LET entry == NextEntry(r)
         l     == entry.log
         Patched(state) == IF run[r].shouldApply
                           THEN Project(state, l.tx, LiveKey(l.tx)) ELSE state
         next  == Patched(run[r].state)
         rest  == run[r].pending \ {entry}
     IN
     /\ projection' = Patched(projection)
     /\ ledger' = {m \in ledger : ~SameKey(l, m)} \cup {l}
     /\ checkpoint' = NewCheckpoint(l.block, entry.hash, l.logIndex, next)
     /\ run' = [run EXCEPT
          ![r] = IF rest = {} THEN IdleRun
                 ELSE [run[r] EXCEPT !.at = "apply", !.pending = rest,
                                     !.state = next, !.shouldApply = FALSE]]
  /\ UNCHANGED <<chain, forks, failures>>

ReadEndBlock(r) ==
  /\ run[r].at = "empty"
  /\ run' = [run EXCEPT ![r].at = "advance",
                        ![r].blockHash = chain[run[r].toBlock].fork]
  /\ UNCHANGED <<chain, forks, dbVars, failures>>

(* An empty batch advances the checkpoint; its cursorState stays. *)
AdvanceCheckpoint(r) ==
  /\ run[r].at = "advance"
  /\ checkpoint' = NewCheckpoint(run[r].toBlock, run[r].blockHash, None,
       IF checkpoint = None THEN NoProjection ELSE checkpoint.cursorState)
  /\ run' = [run EXCEPT ![r] = IdleRun]
  /\ UNCHANGED <<chain, forks, ledger, projection, failures>>

-----------------------------------------------------------------------------
(* Failures.                                                               *)

(* The process dies, or a call fails outside the try block. *)
Crash(r) ==
  /\ ~Idle(r) /\ failures < MaxFailures
  /\ failures' = failures + 1
  /\ run' = [run EXCEPT ![r] = IdleRun]
  /\ UNCHANGED <<chain, forks, dbVars>>

(* A call fails inside it: the error is recorded, on a checkpoint before    *)
(* the first log of the start block if there is none yet.                   *)
RecordError(r) ==
  /\ checkpoint' = IF checkpoint # None THEN checkpoint
       ELSE NewCheckpoint(EVENT_SYNC_START_BLOCK, None, 0, NoProjection)
  /\ run' = [run EXCEPT ![r] = IdleRun]
  /\ UNCHANGED <<chain, forks, ledger, projection>>

FailBatch(r) ==
  /\ run[r].at \in {"fetch", "apply", "store", "empty", "advance"}
  /\ FromBlock(run[r].seen) <= run[r].safeHead
  /\ failures < MaxFailures
  /\ failures' = failures + 1
  /\ RecordError(r)

(* Mutant: the log that does not fit is passed over.                        *)
FailStore_SkipsLog(r) ==
  /\ run[r].at = "store" /\ ~CanStore(r)
  /\ LET entry == NextEntry(r) IN
       checkpoint' = NewCheckpoint(entry.log.block, entry.hash, entry.log.logIndex,
                                   run[r].state)
  /\ run' = [run EXCEPT ![r] = IdleRun]
  /\ UNCHANGED <<chain, forks, ledger, projection, failures>>

(* Mutant: the batch goes on with the next log.                             *)
FailStore_GoesOn(r) ==
  /\ run[r].at = "store" /\ ~CanStore(r)
  /\ LET rest == run[r].pending \ {NextEntry(r)} IN
       run' = [run EXCEPT ![r] =
         IF rest = {} THEN IdleRun ELSE [@ EXCEPT !.at = "apply", !.pending = rest]]
  /\ UNCHANGED <<chain, forks, dbVars, failures>>

(* The database refuses the projection: its transaction is undone.          *)
FailStore(r) ==
  /\ run[r].at = "store" /\ ~CanStore(r)
  /\ RecordError(r)
  /\ UNCHANGED failures

RunStep(r) ==
  \/ ReadCheckpoint(r) \/ VerifyCheckpoint(r) \/ Rewind(r)
  \/ NothingToSync(r) \/ FetchLogs(r) \/ LookUpLog(r) \/ StoreLog(r) \/ FailStore(r)
  \/ ReadEndBlock(r) \/ AdvanceCheckpoint(r)

Next ==
  \/ Mine \/ Reorganise
  \/ \E r \in Runs : Trigger(r) \/ RunStep(r) \/ Crash(r) \/ FailBatch(r)

Spec == Init /\ [][Next]_vars

(* The scheduler triggers runs for ever, and a run that does not fail goes  *)
(* on to its end.                                                           *)
FairSpec == Spec /\ \A r \in Runs : WF_vars(Trigger(r)) /\ WF_vars(RunStep(r))

-----------------------------------------------------------------------------
(* What docs/event-sync.md and the service's comments promise of the       *)
(* ledger, its projections and its checkpoint.                             *)

LogType == [tx : Txs, logIndex : Nat, block : Nat]
ProjectionType ==
  [pause : Txs \cup {None}, recipient : [ProjectKeys -> Txs \cup {None}]]
CheckpointType ==
  [block : Nat, hash : Nat \cup {None}, logIndex : Nat \cup {None},
   cursorState : ProjectionType]
ASSUME NullAssumption == None \notin CheckpointType

RunType ==
  [at : {"idle", "checkpoint", "verify", "rewind", "fetch", "apply", "store",
         "empty", "advance"},
   safeHead : Nat, seen : CheckpointType \cup {None},
   pending : SUBSET [log : LogType, hash : Nat], state : ProjectionType,
   shouldApply : BOOLEAN, toBlock : Nat, blockHash : Nat \cup {None}]

(* Type invariant of event synchronisation. *)
TypeOK ==
  /\ chain \in Seq([fork : Nat, txs : Seq(Txs)]) /\ forks \in Nat
  /\ ledger \subseteq LogType
  /\ projection \in ProjectionType
  /\ checkpoint \in CheckpointType \cup {None}
  /\ run \in [Runs -> RunType]
  /\ failures \in Nat

-----------------------------------------------------------------------------
(* The logs of blocks with enough confirmations. *)
ConfirmedLogs ==
  ChainLogs(EVENT_SYNC_START_BLOCK, HeadBlock - EVENT_SYNC_CONFIRMATIONS)
CanonicalLogs == ChainLogs(1, HeadBlock)
Orphans == ledger \ CanonicalLogs
PauseRows == {l \in ledger : l.tx \in PauseTxs}

(* While reorganisations stay above the confirmations, overlapping runs     *)
(* that crash and fail anywhere leave in the ledger a prefix of the         *)
(* confirmed logs: none is skipped, and none from a block that goes away.   *)
LedgerIsPrefix ==
  /\ ledger \subseteq ConfirmedLogs
  /\ \A l \in ledger : \A m \in ConfirmedLogs : Before(m, l) => m \in ledger

(* The pause state shown to users is that of the last pause event of the    *)
(* ledger: no replay, and no run beside another, puts an older one back.    *)
PauseStateFollowsLedger == projection.pause = LastTx(PauseRows)

(* A checkpoint never runs ahead: unless its block has been reorganised     *)
(* away, every log up to its cursor is in the ledger, so resuming after it  *)
(* skips nothing.                                                           *)
CheckpointNeverAhead ==
  \/ checkpoint = None
  \/ HashMismatch(checkpoint)
  \/ \A l \in ChainLogs(EVENT_SYNC_START_BLOCK, checkpoint.block) :
       \/ l \in ledger
       \/ /\ l.block = checkpoint.block /\ checkpoint.logIndex # None
          /\ l.logIndex > checkpoint.logIndex

(* After a reorganisation, rows of blocks that are gone are found by the    *)
(* next run: the checkpoint's hash no longer matches and the rewind depth   *)
(* reaches all of them.                                                     *)
OrphansAreRewound ==
  (\A r \in Runs : Idle(r)) /\ Orphans # {} =>
    /\ HashMismatch(checkpoint)
    /\ \A l \in Orphans : l.block >= RewindFromBlock(checkpoint.block)

(* With one run at a time the cursor's state and the projection tables,     *)
(* merged and rebuilt along two paths, tell the same story.                 *)
CursorStateFollowsProjection ==
  checkpoint # None => checkpoint.cursorState = projection

(* One run at a time: what reorganisations leave behind is found, and the   *)
(* tables, the checkpoint's state and the ledger tell one story.            *)
ProjectionsFollowLedger ==
  OrphansAreRewound /\ CursorStateFollowsProjection /\ PauseStateFollowsLedger

(* The projections are "deterministic from chain events": the tables hold   *)
(* what the ledger's events say, each under its own project.                *)
RecipientsFollowLedger ==
  \A k \in ProjectKeys :
    projection.recipient[k] =
      LastTx({l \in ledger : l.tx \in RecipientTxs /\ LiveKey(l.tx) = k})

Stored(t) == \E l \in ledger \cap CanonicalLogs : l.tx = t
Confirmed(t) == \E l \in ConfirmedLogs : l.tx = t

(* As long as runs are triggered, an event with enough confirmations        *)
(* reaches the ledger, unless its block goes away first.                    *)
ConfirmedEventsArrive ==
  \A t \in Txs : Confirmed(t) ~> (Stored(t) \/ ~Confirmed(t))

(* Rows of blocks that are gone do not stay. *)
OrphansAreRemoved == []<>(Orphans = {})
=============================================================================
