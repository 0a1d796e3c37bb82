--------------------------- MODULE EventSyncProofs ---------------------------
(***************************************************************************)
(* While no reorganisation reaches below the confirmations, the ledger is  *)
(* a prefix of the confirmed logs and no checkpoint is ahead of it, for    *)
(* every chain, any number of overlapping runs and any failures.  With one *)
(* run at a time, reorganisations may reach as deep as confirmations and   *)
(* rewind together: then orphaned rows are always found, and ledger,       *)
(* projections and checkpoint tell one story.                              *)
(*                                                                         *)
(* What a run has read is old by the time it is used.  The invariant says  *)
(* what stays true of it meanwhile: the blocks a run may have read from    *)
(* never change, the ledger only grows, and each run holds a cursor or a   *)
(* batch before which nothing confirmed is missing.  The notions it is     *)
(* made of take the chain and the ledger as parameters, so that what they  *)
(* mean before and after a step can be compared.                           *)
(***************************************************************************)
EXTENDS EventSync, SequenceTheorems, WellFoundedInduction, TLAPS

(* No reorganisation reaches a confirmed block. *)
Shallow == MaxReorgDepth <= EVENT_SYNC_CONFIRMATIONS

BlockType == [fork : Nat, txs : Seq(Txs)]

Safe(c) == Len(c) - EVENT_SYNC_CONFIRMATIONS
LogAt(c, b, i) == [tx |-> c[b].txs[i], logIndex |-> i, block |-> b]
SafeLogs(c) ==
  UNION {{LogAt(c, b, i) : i \in DOMAIN c[b].txs} : b \in EVENT_SYNC_START_BLOCK..Safe(c)}

(* The cursor of a checkpoint is at or after a log. *)
Reached(l, cp) ==
  \/ l.block < cp.block
  \/ l.block = cp.block /\ (cp.logIndex = None \/ l.logIndex <= cp.logIndex)

(* A checkpoint lies on a confirmed block of this chain, and every confirmed *)
(* log up to its cursor is in the ledger.                                   *)
CursorOK(cp, c, led) ==
  cp # None =>
    /\ cp.block \in EVENT_SYNC_START_BLOCK..Safe(c)
    /\ cp.hash # None => cp.hash = c[cp.block].fork
    /\ \A l \in SafeLogs(c) : Reached(l, cp) => l \in led

PrefixOK(c, led) ==
  /\ led \subseteq SafeLogs(c)
  /\ \A l \in led : \A m \in SafeLogs(c) : Before(m, l) => m \in led

(* A batch holds confirmed logs, and what comes before one of them is in    *)
(* the ledger or in the batch.                                              *)
BatchOK(pending, c, led) ==
  \A e \in pending :
    /\ e.log \in SafeLogs(c) /\ e.hash = c[e.log.block].fork
    /\ \A m \in SafeLogs(c) :
         Before(m, e.log) => m \in led \/ \E f \in pending : f.log = m

(* Nothing confirmed is missing up to a block. *)
ReadUpTo(b, c, led) ==
  /\ b \in EVENT_SYNC_START_BLOCK..Safe(c)
  /\ \A m \in SafeLogs(c) : m.block <= b => m \in led

(* What a run knows. *)
RunOK(w, c, led) ==
  /\ w.at # "rewind"
  /\ w.safeHead = 0 \/ w.safeHead <= Safe(c)
  /\ CursorOK(w.seen, c, led)
  /\ w.at = "verify" => w.seen # None
  /\ w.at \in {"apply", "store"} => w.pending # {} /\ BatchOK(w.pending, c, led)
  /\ w.at \in {"empty", "advance"} => ReadUpTo(w.toBlock, c, led)
  /\ w.at = "advance" => w.blockHash = c[w.toBlock].fork

SyncInv ==
  /\ TypeOK
  /\ Valid(chain)
  /\ PrefixOK(chain, ledger)
  /\ CursorOK(checkpoint, chain, ledger)
  /\ \A r \in Runs : RunOK(run[r], chain, ledger)

-----------------------------------------------------------------------------
(* Confirmed logs.                                                         *)

LEMMA SyncConstants ==
  /\ EVENT_SYNC_START_BLOCK \in Nat /\ EVENT_SYNC_START_BLOCK >= 1
  /\ EVENT_SYNC_BATCH_SIZE \in Nat /\ EVENT_SYNC_BATCH_SIZE >= 1
  /\ EVENT_SYNC_CONFIRMATIONS \in Nat /\ MaxReorgDepth \in Nat
  /\ None \notin Nat /\ None \notin Txs
BY EventsAssumption, EnvAssumption, BoundsAssumption

LEMMA BlockFacts ==
  ASSUME NEW c \in Seq(BlockType), NEW b \in 1..Len(c)
  PROVE  /\ Len(c) \in Nat /\ DOMAIN c = 1..Len(c)
         /\ c[b] \in BlockType /\ c[b].fork \in Nat /\ c[b].txs \in Seq(Txs)
         /\ Len(c[b].txs) \in Nat /\ DOMAIN c[b].txs = 1..Len(c[b].txs)
         /\ \A i \in DOMAIN c[b].txs : i \in Nat /\ c[b].txs[i] \in Txs
<1>1. c[b] \in BlockType
  BY ElementOfSeq
<1>2. c[b].fork \in Nat /\ c[b].txs \in Seq(Txs)
  BY <1>1 DEF BlockType
<1>3. \A i \in 1..Len(c[b].txs) : c[b].txs[i] \in Txs
  BY <1>2, ElementOfSeq
<1> QED
  BY <1>1, <1>2, <1>3, LenProperties

(* A confirmed log is in its place in a block of the chain. *)
LEMMA SafeLogFacts ==
  ASSUME NEW c \in Seq(BlockType), NEW l \in SafeLogs(c)
  PROVE  /\ l.block \in EVENT_SYNC_START_BLOCK..Safe(c) /\ l.block \in 1..Len(c)
         /\ l.logIndex \in DOMAIN c[l.block].txs /\ l.logIndex \in Nat
         /\ l.tx = c[l.block].txs[l.logIndex] /\ l.tx \in Txs
         /\ l = LogAt(c, l.block, l.logIndex) /\ l \in LogType
<1>1. PICK b \in EVENT_SYNC_START_BLOCK..Safe(c) :
        \E i \in DOMAIN c[b].txs : l = LogAt(c, b, i)
  BY DEF SafeLogs
<1>0. PICK i \in DOMAIN c[b].txs : l = LogAt(c, b, i)
  BY <1>1
<1>2. Len(c) \in Nat
  BY LenProperties
<1>3. b \in 1..Len(c) /\ b \in Nat
  BY <1>2, SyncConstants DEF Safe
<1>4. i \in Nat /\ c[b].txs[i] \in Txs
  BY <1>3, BlockFacts
<1>5. l.block = b /\ l.logIndex = i /\ l.tx = c[b].txs[i]
  BY <1>0 DEF LogAt
<1>6. l \in LogType
  BY <1>0, <1>3, <1>4 DEF LogAt, LogType
<1> QED
  BY <1>0, <1>3, <1>4, <1>5, <1>6

LEMMA SafeLogIs ==
  ASSUME NEW c, NEW b \in EVENT_SYNC_START_BLOCK..Safe(c), NEW i \in DOMAIN c[b].txs
  PROVE  LogAt(c, b, i) \in SafeLogs(c)
BY DEF SafeLogs

(* A block and an index, or a transaction, identify a log. *)
LEMMA SafeLogsDiffer ==
  ASSUME NEW c \in Seq(BlockType), Valid(c), NEW l \in SafeLogs(c), NEW m \in SafeLogs(c),
         SameKey(l, m) \/ (l.block = m.block /\ l.logIndex = m.logIndex)
  PROVE  l = m
<1>1. DOMAIN c = 1..Len(c)
  BY LenProperties
<1>2. CASE SameKey(l, m)
  <2>1. l.block = m.block /\ l.logIndex = m.logIndex
    BY <1>1, <1>2, SafeLogFacts DEF SameKey, Valid
  <2> QED
    BY <2>1, SafeLogFacts
<1>3. CASE l.block = m.block /\ l.logIndex = m.logIndex
  BY <1>3, SafeLogFacts
<1> QED
  BY <1>2, <1>3

-----------------------------------------------------------------------------
(* The chain grows at its end and changes only above the confirmations.    *)

Extends(d, c) ==
  /\ Len(c) <= Len(d)
  /\ \A b \in 1..Safe(c) : d[b] = c[b]

LEMMA SafeLogsStay ==
  ASSUME NEW c \in Seq(BlockType), NEW d \in Seq(BlockType), Extends(d, c)
  PROVE  /\ Safe(c) <= Safe(d) /\ Safe(c) \in Int /\ Safe(d) \in Int
         /\ SafeLogs(c) \subseteq SafeLogs(d)
         /\ \A m \in SafeLogs(d) : m.block <= Safe(c) => m \in SafeLogs(c)
<1>1. Len(c) \in Nat /\ Len(d) \in Nat
  BY LenProperties
<1>2. Safe(c) <= Safe(d) /\ Safe(c) \in Int /\ Safe(d) \in Int
  BY <1>1, SyncConstants DEF Safe, Extends
<1>3. ASSUME NEW l \in SafeLogs(c)
      PROVE  l \in SafeLogs(d)
  <2>1. d[l.block] = c[l.block]
    BY <1>2, SafeLogFacts, SyncConstants DEF Extends
  <2>2. l.block \in EVENT_SYNC_START_BLOCK..Safe(d)
    BY <1>2, SafeLogFacts, SyncConstants
  <2>3. LogAt(d, l.block, l.logIndex) = l
    BY <2>1, SafeLogFacts DEF LogAt
  <2> QED
    BY <2>1, <2>2, <2>3, SafeLogFacts, SafeLogIs
<1>4. ASSUME NEW m \in SafeLogs(d), m.block <= Safe(c)
      PROVE  m \in SafeLogs(c)
  <2>1. d[m.block] = c[m.block]
    BY <1>2, <1>4, SafeLogFacts, SyncConstants DEF Extends
  <2>2. m.block \in EVENT_SYNC_START_BLOCK..Safe(c)
    BY <1>2, <1>4, SafeLogFacts, SyncConstants
  <2>3. LogAt(c, m.block, m.logIndex) = m
    BY <2>1, SafeLogFacts DEF LogAt
  <2> QED
    BY <2>1, <2>2, <2>3, SafeLogFacts, SafeLogIs
<1> QED
  BY <1>2, <1>3, <1>4

LEMMA CursorStays ==
  ASSUME NEW c \in Seq(BlockType), NEW d \in Seq(BlockType), Extends(d, c),
         NEW led, NEW now, led \subseteq now,
         NEW cp \in CheckpointType \cup {None}, CursorOK(cp, c, led)
  PROVE  CursorOK(cp, d, now)
<1> SUFFICES ASSUME cp # None
             PROVE  /\ cp.block \in EVENT_SYNC_START_BLOCK..Safe(d)
                    /\ cp.hash # None => cp.hash = d[cp.block].fork
                    /\ \A l \in SafeLogs(d) : Reached(l, cp) => l \in now
  BY DEF CursorOK
<1>1. /\ cp.block \in EVENT_SYNC_START_BLOCK..Safe(c)
      /\ cp.hash # None => cp.hash = c[cp.block].fork
      /\ \A l \in SafeLogs(c) : Reached(l, cp) => l \in led
  BY DEF CursorOK
<1>2. Safe(c) <= Safe(d) /\ Safe(c) \in Int /\ Safe(d) \in Int
  BY SafeLogsStay
<1>3. cp.block \in EVENT_SYNC_START_BLOCK..Safe(d) /\ cp.block \in 1..Safe(c)
  BY <1>1, <1>2, SyncConstants
<1>4. d[cp.block] = c[cp.block]
  BY <1>3 DEF Extends
<1>5. ASSUME NEW l \in SafeLogs(d), Reached(l, cp)
      PROVE  l \in now
  <2>1. l.block <= cp.block
    BY <1>5, <1>3, SafeLogFacts, SyncConstants DEF Reached
  <2>2. l \in SafeLogs(c)
    BY <2>1, <1>2, <1>3, SafeLogFacts, SafeLogsStay, SyncConstants
  <2> QED
    BY <1>1, <1>5, <2>2
<1> QED
  BY <1>1, <1>3, <1>4, <1>5

LEMMA PrefixStays ==
  ASSUME NEW c \in Seq(BlockType), NEW d \in Seq(BlockType), Extends(d, c),
         NEW led, PrefixOK(c, led)
  PROVE  PrefixOK(d, led)
<1>1. Safe(c) <= Safe(d) /\ Safe(c) \in Int /\ Safe(d) \in Int
  BY SafeLogsStay
<1>2. ASSUME NEW l \in led, NEW m \in SafeLogs(d), Before(m, l)
      PROVE  m \in led
  <2>1. l \in SafeLogs(c)
    BY DEF PrefixOK
  <2>2. m.block <= Safe(c)
    BY <1>1, <1>2, <2>1, SafeLogFacts, SyncConstants DEF Before
  <2> QED
    BY <1>2, <2>2, SafeLogsStay DEF PrefixOK
<1> QED
  BY <1>2, SafeLogsStay DEF PrefixOK

LEMMA BatchStays ==
  ASSUME NEW c \in Seq(BlockType), NEW d \in Seq(BlockType), Extends(d, c),
         NEW led, NEW grown, led \subseteq grown, NEW pending, BatchOK(pending, c, led)
  PROVE  BatchOK(pending, d, grown)
<1>1. Safe(c) <= Safe(d) /\ Safe(c) \in Int /\ Safe(d) \in Int
  BY SafeLogsStay
<1>2. ASSUME NEW e \in pending
      PROVE  /\ e.log \in SafeLogs(d) /\ e.hash = d[e.log.block].fork
             /\ \A m \in SafeLogs(d) :
                  Before(m, e.log) => m \in grown \/ \E f \in pending : f.log = m
  <2>1. /\ e.log \in SafeLogs(c) /\ e.hash = c[e.log.block].fork
        /\ \A m \in SafeLogs(c) :
             Before(m, e.log) => m \in led \/ \E f \in pending : f.log = m
    BY DEF BatchOK
  <2> DEFINE l == e.log
  <2>2. l.block \in EVENT_SYNC_START_BLOCK..Safe(c)
    BY <2>1, SafeLogFacts
  <2>3. d[l.block] = c[l.block]
    BY <2>2, <1>1, SyncConstants DEF Extends
  <2>4. ASSUME NEW m \in SafeLogs(d), Before(m, l)
        PROVE  m \in SafeLogs(c)
    <3>1. m.block <= Safe(c)
      BY <1>1, <2>2, <2>4, SafeLogFacts, SyncConstants DEF Before
    <3> QED
      BY <3>1, SafeLogsStay
  <2> QED
    BY <2>1, <2>3, <2>4, SafeLogsStay
<1> QED
  BY <1>2 DEF BatchOK

LEMMA ReadUpToStays ==
  ASSUME NEW c \in Seq(BlockType), NEW d \in Seq(BlockType), Extends(d, c),
         NEW led, NEW grown, led \subseteq grown, NEW b, ReadUpTo(b, c, led)
  PROVE  ReadUpTo(b, d, grown) /\ d[b] = c[b]
<1>1. Safe(c) <= Safe(d) /\ Safe(c) \in Int /\ Safe(d) \in Int
  BY SafeLogsStay
<1>2. b \in EVENT_SYNC_START_BLOCK..Safe(c) /\ b \in EVENT_SYNC_START_BLOCK..Safe(d)
  BY <1>1, SyncConstants DEF ReadUpTo
<1>3. d[b] = c[b]
  BY <1>1, <1>2, SyncConstants DEF Extends
<1>4. ASSUME NEW m \in SafeLogs(d), m.block <= b
      PROVE  m \in grown
  <2>1. m.block <= Safe(c)
    BY <1>1, <1>2, <1>4, SafeLogFacts, SyncConstants
  <2> QED
    BY <1>4, <2>1, SafeLogsStay DEF ReadUpTo
<1> QED
  BY <1>2, <1>3, <1>4 DEF ReadUpTo

(* What a run knows stays true while others work and the chain moves on. *)
LEMMA RunStays ==
  ASSUME NEW c \in Seq(BlockType), NEW d \in Seq(BlockType), Extends(d, c),
         NEW led, NEW grown, led \subseteq grown, NEW w \in RunType, RunOK(w, c, led)
  PROVE  RunOK(w, d, grown)
<1>1. w.safeHead \in Nat /\ w.seen \in CheckpointType \cup {None}
  BY DEF RunType
<1>2. w.safeHead = 0 \/ w.safeHead <= Safe(d)
  BY <1>1, SafeLogsStay DEF RunOK
<1>3. CursorOK(w.seen, d, grown)
  BY <1>1, CursorStays DEF RunOK
<1>4. w.at \in {"apply", "store"} => w.pending # {} /\ BatchOK(w.pending, d, grown)
  BY BatchStays DEF RunOK
<1>5. w.at \in {"empty", "advance"} => ReadUpTo(w.toBlock, d, grown)
  BY ReadUpToStays DEF RunOK
<1>6. ASSUME w.at = "advance"
      PROVE  w.blockHash = d[w.toBlock].fork
  <2>1. ReadUpTo(w.toBlock, c, led) /\ w.blockHash = c[w.toBlock].fork
    BY <1>6 DEF RunOK
  <2> DEFINE b == w.toBlock
  <2>0. ReadUpTo(b, c, led)
    BY <2>1
  <2> HIDE DEF b
  <2>3. d[b] = c[b]
    BY <2>0, ReadUpToStays
  <2>2. d[w.toBlock] = c[w.toBlock]
    BY <2>3 DEF b
  <2> QED
    BY <2>1, <2>2
<1> QED
  BY <1>2, <1>3, <1>4, <1>5, <1>6 DEF RunOK

-----------------------------------------------------------------------------
(* Steps of the chain.                                                     *)

LEMMA SyncTypes ==
  ASSUME TypeOK
  PROVE  /\ chain \in Seq(BlockType) /\ forks \in Nat /\ HeadBlock = Len(chain)
         /\ HeadBlock \in Nat /\ failures \in Nat
         /\ run \in [Runs -> RunType]
         /\ checkpoint \in CheckpointType \cup {None}
         /\ projection \in ProjectionType
BY LenProperties DEF TypeOK, BlockType, HeadBlock

(* A new block is put on top. *)
LEMMA MineExtends ==
  ASSUME TypeOK, Mine
  PROVE  chain' \in Seq(BlockType) /\ Extends(chain', chain)
<1>1. PICK txs \in BlockContents : chain' = Append(chain, [fork |-> forks, txs |-> txs])
  BY DEF Mine
<1>2. [fork |-> forks, txs |-> txs] \in BlockType
  BY SyncTypes, EventsAssumption DEF BlockType
<1>3. /\ chain' \in Seq(BlockType) /\ Len(chain') = Len(chain) + 1
      /\ \A b \in 1..Len(chain) : chain'[b] = chain[b]
  BY <1>1, <1>2, SyncTypes, AppendProperties
<1>4. \A b \in 1..Safe(chain) : b \in 1..Len(chain)
  BY SyncTypes, SyncConstants DEF Safe
<1> QED
  BY <1>3, <1>4, SyncTypes DEF Extends

(* The last blocks are replaced by as many of a new fork. *)
LEMMA ReorganiseIs ==
  ASSUME TypeOK, Reorganise
  PROVE  \E depth \in 1..MaxReorgDepth :
           /\ depth <= Len(chain) /\ chain' \in Seq(BlockType) /\ Len(chain') = Len(chain)
           /\ \A b \in 1..Len(chain) :
                IF b <= Len(chain) - depth THEN chain'[b] = chain[b]
                                           ELSE chain'[b].fork = forks + 1
<1>1. PICK depth \in 1..MaxReorgDepth :
        /\ depth <= HeadBlock
        /\ \E txs \in [1..depth -> BlockContents] :
             chain' = [b \in 1..HeadBlock |->
               IF b <= HeadBlock - depth THEN chain[b]
               ELSE [fork |-> forks + 1, txs |-> txs[b - (HeadBlock - depth)]]]
  BY DEF Reorganise
<1>2. PICK txs \in [1..depth -> BlockContents] :
        chain' = [b \in 1..HeadBlock |->
          IF b <= HeadBlock - depth THEN chain[b]
          ELSE [fork |-> forks + 1, txs |-> txs[b - (HeadBlock - depth)]]]
  BY <1>1
<1> DEFINE n == HeadBlock
           new(b) == IF b <= n - depth THEN chain[b]
                     ELSE [fork |-> forks + 1, txs |-> txs[b - (n - depth)]]
<1>3. n \in Nat /\ depth \in Nat /\ n = Len(chain)
  BY SyncTypes, SyncConstants
<1>4. ASSUME NEW b \in 1..n
      PROVE  new(b) \in BlockType
  <2>1. CASE b <= n - depth
    BY <1>3, <2>1, SyncTypes, ElementOfSeq
  <2>2. CASE ~(b <= n - depth)
    <3>1. b - (n - depth) \in 1..depth
      BY <1>1, <1>3, <2>2
    <3>2. txs[b - (n - depth)] \in Seq(Txs)
      BY <3>1, EventsAssumption
    <3> QED
      BY <2>2, <3>2, SyncTypes DEF BlockType
  <2> QED
    BY <2>1, <2>2
<1>5. chain' = [b \in 1..n |-> new(b)]
  BY <1>2
<1> HIDE DEF new
<1>6. chain' \in [1..n -> BlockType]
  BY <1>4, <1>5
<1>7. chain' \in Seq(BlockType)
  BY <1>3, <1>6, SeqDef
<1>8. Len(chain') = n
  <2>1. DOMAIN chain' = 1..n /\ DOMAIN chain' = 1..Len(chain') /\ Len(chain') \in Nat
    BY <1>6, <1>7, LenProperties
  <2> QED
    BY <1>3, <2>1
<1>9. ASSUME NEW b \in 1..Len(chain)
      PROVE  IF b <= Len(chain) - depth THEN chain'[b] = chain[b]
                                        ELSE chain'[b].fork = forks + 1
  BY <1>3, <1>5 DEF new
<1> QED
  BY <1>1, <1>3, <1>7, <1>8, <1>9

(* Blocks without enough confirmations are replaced. *)
LEMMA ReorganiseExtends ==
  ASSUME Shallow, TypeOK, Reorganise
  PROVE  chain' \in Seq(BlockType) /\ Extends(chain', chain)
<1>1. PICK depth \in 1..MaxReorgDepth :
        /\ depth <= Len(chain) /\ chain' \in Seq(BlockType) /\ Len(chain') = Len(chain)
        /\ \A b \in 1..Len(chain) :
             IF b <= Len(chain) - depth THEN chain'[b] = chain[b]
                                        ELSE chain'[b].fork = forks + 1
  BY ReorganiseIs
<1>2. ASSUME NEW b \in 1..Safe(chain)
      PROVE  b \in 1..Len(chain) /\ b <= Len(chain) - depth
  BY SyncTypes, SyncConstants DEF Safe, Shallow
<1> QED
  BY <1>1, <1>2, SyncTypes DEF Extends

(* When the chain moves on, nothing that was read from it becomes false. *)
LEMMA ChainStepInv ==
  ASSUME SyncInv, chain' \in Seq(BlockType), Extends(chain', chain), Valid(chain'),
         forks' \in Nat, UNCHANGED <<dbVars, run, failures>>
  PROVE  SyncInv'
<1>1. TypeOK'
  BY DEF SyncInv, TypeOK, dbVars, BlockType
<1>2. PrefixOK(chain', ledger')
  BY PrefixStays, SyncTypes DEF SyncInv, dbVars
<1>3. CursorOK(checkpoint', chain', ledger')
  BY CursorStays, SyncTypes DEF SyncInv, dbVars
<1>4. ASSUME NEW r \in Runs
      PROVE  RunOK(run'[r], chain', ledger')
  <2>1. run[r] \in RunType /\ RunOK(run[r], chain, ledger)
    BY SyncTypes DEF SyncInv
  <2> QED
    BY <2>1, RunStays, SyncTypes DEF SyncInv, dbVars
<1> QED
  BY <1>1, <1>2, <1>3, <1>4 DEF SyncInv

-----------------------------------------------------------------------------
(* Steps of a run that leave the database alone.                           *)

(* What one run does to itself leaves the others as they are. *)
LEMMA RunStepInv ==
  ASSUME SyncInv, NEW r \in Runs,
         run' \in [Runs -> RunType], \A q \in Runs \ {r} : run'[q] = run[q],
         RunOK(run'[r], chain, ledger),
         failures' \in Nat, UNCHANGED <<chain, forks, dbVars>>
  PROVE  SyncInv'
<1>1. TypeOK'
  BY DEF SyncInv, TypeOK, dbVars
<1>2. \A q \in Runs : RunOK(run'[q], chain', ledger')
  BY DEF SyncInv, dbVars
<1> QED
  BY <1>1, <1>2 DEF SyncInv, dbVars

LEMMA RunFacts ==
  ASSUME SyncInv, NEW r \in Runs
  PROVE  /\ run[r] \in RunType /\ RunOK(run[r], chain, ledger)
         /\ run \in [Runs -> RunType]
         /\ run[r].safeHead \in Nat /\ run[r].toBlock \in Nat
         /\ run[r].seen \in CheckpointType \cup {None}
         /\ run[r].state \in ProjectionType
         /\ run[r].pending \in SUBSET [log : LogType, hash : Nat]
BY SyncTypes DEF SyncInv, RunType

LEMMA EmptyProjection == NoProjection \in ProjectionType
BY DEF NoProjection, ProjectionType

(* A run that has not begun or has ended knows nothing. *)
LEMMA IdleRunOK ==
  ASSUME NEW c, NEW led
  PROVE  IdleRun \in RunType /\ RunOK(IdleRun, c, led)
<1>1. IdleRun \in RunType
  BY EmptyProjection DEF IdleRun, RunType
<1>2. RunOK(IdleRun, c, led)
  BY DEF IdleRun, RunOK, CursorOK
<1> QED
  BY <1>1, <1>2

LEMMA EndRun ==
  ASSUME SyncInv, NEW r \in Runs, run' = [run EXCEPT ![r] = IdleRun]
  PROVE  /\ run' \in [Runs -> RunType] /\ run'[r] = IdleRun
         /\ \A q \in Runs \ {r} : run'[q] = run[q]
BY RunFacts, IdleRunOK

LEMMA TriggerInv ==
  ASSUME SyncInv, NEW r \in Runs, Trigger(r)
  PROVE  SyncInv'
<1> DEFINE w == [run[r] EXCEPT !.at = "checkpoint", !.safeHead = SafeHeadBlock]
<1>1. SafeHeadBlock \in Nat /\ (SafeHeadBlock = 0 \/ SafeHeadBlock <= Safe(chain))
  BY SyncTypes, SyncConstants DEF SyncInv, SafeHeadBlock, Safe
<1>2. run' = [run EXCEPT ![r] = w]
  BY RunFacts DEF Trigger
<1>3. w \in RunType
  BY <1>1, RunFacts DEF RunType
<1>4. RunOK(w, chain, ledger)
  BY <1>1, RunFacts DEF RunOK, RunType
<1> HIDE DEF w
<1>5. run' \in [Runs -> RunType] /\ run'[r] = w /\ \A q \in Runs \ {r} : run'[q] = run[q]
  BY <1>2, <1>3, RunFacts
<1> QED
  BY <1>4, <1>5, RunStepInv, SyncTypes DEF Trigger, SyncInv

LEMMA ReadCheckpointInv ==
  ASSUME SyncInv, NEW r \in Runs, ReadCheckpoint(r)
  PROVE  SyncInv'
<1> DEFINE verify == checkpoint # None /\ checkpoint.hash # None
                       /\ checkpoint.block <= run[r].safeHead
           w == [run[r] EXCEPT !.seen = checkpoint, !.at = IF verify THEN "verify" ELSE "fetch"]
<1>1. checkpoint \in CheckpointType \cup {None} /\ CursorOK(checkpoint, chain, ledger)
  BY SyncTypes DEF SyncInv
<1>2. run' = [run EXCEPT ![r] = w]
  BY RunFacts DEF ReadCheckpoint
<1>3. w \in RunType
  BY <1>1, RunFacts DEF RunType
<1>4. RunOK(w, chain, ledger)
  BY <1>1, RunFacts DEF RunOK, RunType
<1> HIDE DEF w
<1>5. run' \in [Runs -> RunType] /\ run'[r] = w /\ \A q \in Runs \ {r} : run'[q] = run[q]
  BY <1>2, <1>3, RunFacts
<1> QED
  BY <1>4, <1>5, RunStepInv, SyncTypes DEF ReadCheckpoint, SyncInv

(* A checkpoint on a confirmed block is found to be on the chain. *)
LEMMA VerifyCheckpointInv ==
  ASSUME SyncInv, NEW r \in Runs, VerifyCheckpoint(r)
  PROVE  SyncInv'
<1>1. ~HashMismatch(run[r].seen)
  BY RunFacts DEF VerifyCheckpoint, RunOK, CursorOK, HashMismatch
<1> DEFINE w == [run[r] EXCEPT !.at = "fetch"]
<1>2. run' = [run EXCEPT ![r] = w]
  BY <1>1, RunFacts DEF VerifyCheckpoint
<1>3. w \in RunType
  BY RunFacts DEF RunType
<1>4. RunOK(w, chain, ledger)
  BY RunFacts DEF RunOK, RunType
<1> HIDE DEF w
<1>5. run' \in [Runs -> RunType] /\ run'[r] = w /\ \A q \in Runs \ {r} : run'[q] = run[q]
  BY <1>2, <1>3, RunFacts
<1> QED
  BY <1>4, <1>5, RunStepInv, SyncTypes DEF VerifyCheckpoint, SyncInv

LEMMA NothingToSyncInv ==
  ASSUME SyncInv, NEW r \in Runs, NothingToSync(r)
  PROVE  SyncInv'
<1>1. run' = [run EXCEPT ![r] = IdleRun]
  BY DEF NothingToSync
<1> QED
  BY <1>1, EndRun, IdleRunOK, RunStepInv, SyncTypes DEF NothingToSync, SyncInv

LEMMA CrashInv ==
  ASSUME SyncInv, NEW r \in Runs, Crash(r)
  PROVE  SyncInv'
<1>1. run' = [run EXCEPT ![r] = IdleRun] /\ failures' \in Nat
  BY SyncTypes DEF Crash, SyncInv
<1> QED
  BY <1>1, EndRun, IdleRunOK, RunStepInv DEF Crash

LEMMA LookUpLogInv ==
  ASSUME SyncInv, NEW r \in Runs, LookUpLog(r)
  PROVE  SyncInv'
<1> DEFINE apply == ShouldApply(NextEntry(r).log)
           w == [run[r] EXCEPT !.at = "store", !.shouldApply = apply]
<1>1. apply \in BOOLEAN
  BY DEF ShouldApply
<1>2. run' = [run EXCEPT ![r] = w] /\ run[r].at = "apply"
  BY RunFacts DEF LookUpLog
<1> HIDE DEF apply
<1>3. w \in RunType
  BY <1>1, RunFacts DEF RunType
<1>4. RunOK(w, chain, ledger)
  BY <1>2, RunFacts DEF RunOK, RunType
<1> HIDE DEF w
<1>5. run' \in [Runs -> RunType] /\ run'[r] = w /\ \A q \in Runs \ {r} : run'[q] = run[q]
  BY <1>2, <1>3, RunFacts
<1> QED
  BY <1>4, <1>5, RunStepInv, SyncTypes DEF LookUpLog, SyncInv

LEMMA ReadEndBlockInv ==
  ASSUME SyncInv, NEW r \in Runs, ReadEndBlock(r)
  PROVE  SyncInv'
<1> DEFINE hash == chain[run[r].toBlock].fork
           w == [run[r] EXCEPT !.at = "advance", !.blockHash = hash]
<1>1. run[r].at = "empty" /\ ReadUpTo(run[r].toBlock, chain, ledger)
  BY RunFacts DEF ReadEndBlock, RunOK
<1>2. run[r].toBlock \in 1..Len(chain)
  BY <1>1, SyncTypes, SyncConstants DEF ReadUpTo, Safe, SyncInv
<1>3. hash \in Nat
  BY <1>2, BlockFacts, SyncTypes DEF SyncInv
<1>4. run' = [run EXCEPT ![r] = w]
  BY RunFacts DEF ReadEndBlock
<1>5. w.blockHash = chain[w.toBlock].fork
  BY RunFacts DEF RunType
<1> HIDE DEF hash
<1>6. w \in RunType
  BY <1>3, RunFacts DEF RunType
<1>7. RunOK(w, chain, ledger)
  BY <1>1, <1>5, RunFacts DEF RunOK, RunType
<1> HIDE DEF w
<1>8. run' \in [Runs -> RunType] /\ run'[r] = w /\ \A q \in Runs \ {r} : run'[q] = run[q]
  BY <1>4, <1>6, RunFacts
<1> QED
  BY <1>7, <1>8, RunStepInv, SyncTypes DEF ReadEndBlock, SyncInv

(* What is fetched starts where the cursor stands: what comes before a      *)
(* fetched log is fetched too or was stored before.                         *)
LEMMA FetchLogsInv ==
  ASSUME SyncInv, NEW r \in Runs, FetchLogs(r)
  PROVE  SyncInv'
<1> DEFINE seen == run[r].seen
           from == FromBlock(seen)
           end  == from + EVENT_SYNC_BATCH_SIZE - 1
           to   == IF run[r].safeHead < end THEN run[r].safeHead ELSE end
           logs == {l \in ChainLogs(from, to) : AfterCursor(l, seen)}
           batch == {[log |-> l, hash |-> chain[l.block].fork] : l \in logs}
           state == IF seen = None THEN NoProjection ELSE seen.cursorState
           at == IF logs = {} THEN "empty" ELSE "apply"
           w == [run[r] EXCEPT !.at = at, !.toBlock = to, !.pending = batch, !.state = state]
<1>1. /\ seen \in CheckpointType \cup {None} /\ CursorOK(seen, chain, ledger)
      /\ run[r].safeHead \in Nat /\ (run[r].safeHead = 0 \/ run[r].safeHead <= Safe(chain))
      /\ from <= run[r].safeHead
  BY RunFacts DEF FetchLogs, RunOK
<1>2. chain \in Seq(BlockType) /\ HeadBlock = Len(chain) /\ Safe(chain) \in Int
  BY SyncTypes, SyncConstants DEF SyncInv, Safe
<1>3. from \in Nat /\ EVENT_SYNC_START_BLOCK <= from
  BY <1>1, <1>2, SyncConstants DEF FromBlock, CursorOK, CheckpointType
<1>4. to \in Nat /\ from <= to /\ to <= Safe(chain)
  BY <1>1, <1>2, <1>3, SyncConstants
<1>5. state \in ProjectionType
  BY <1>1, EmptyProjection DEF CheckpointType
<1>6. ChainLogs(from, to) = {l \in SafeLogs(chain) : from <= l.block /\ l.block <= to}
  <2> HIDE DEF from, to
  <2>1. ASSUME NEW l \in ChainLogs(from, to)
        PROVE  l \in SafeLogs(chain) /\ from <= l.block /\ l.block <= to
    <3>1. PICK b \in from..to : l \in BlockLogs(b)
      BY <2>1 DEF ChainLogs
    <3>2. PICK i \in DOMAIN chain[b].txs : l = LogAt(chain, b, i)
      BY <3>1 DEF BlockLogs, LogAt
    <3>3. b \in EVENT_SYNC_START_BLOCK..Safe(chain) /\ l.block = b
      BY <1>2, <1>3, <1>4, <3>2, SyncConstants DEF LogAt
    <3> QED
      BY <1>3, <1>4, <3>2, <3>3, SafeLogIs
  <2>2. ASSUME NEW l \in SafeLogs(chain), from <= l.block, l.block <= to
        PROVE  l \in ChainLogs(from, to)
    <3>1. /\ l.block \in from..to /\ l.logIndex \in DOMAIN chain[l.block].txs
          /\ l = LogAt(chain, l.block, l.logIndex)
      BY <1>2, <1>3, <1>4, <2>2, SafeLogFacts, SyncConstants
    <3>2. l \in BlockLogs(l.block)
      BY <3>1 DEF BlockLogs, LogAt
    <3> QED
      BY <3>1, <3>2 DEF ChainLogs
  <2> QED
    BY <2>1, <2>2
<1> HIDE DEF to
<1>7. \A l \in SafeLogs(chain) : l.block <= to => l \in ledger \/ l \in logs
  <2> SUFFICES ASSUME NEW l \in SafeLogs(chain), l.block <= to, l \notin logs
               PROVE  l \in ledger
    OBVIOUS
  <2>1. l.block \in Nat /\ l.logIndex \in Nat /\ EVENT_SYNC_START_BLOCK <= l.block
    BY <1>2, SafeLogFacts, SyncConstants
  <2>2. ~(from <= l.block) \/ ~AfterCursor(l, seen)
    BY <1>6
  <2>3. seen # None /\ Reached(l, seen)
    BY <1>1, <2>1, <2>2, SyncConstants DEF FromBlock, AfterCursor, Reached, CheckpointType
  <2> QED
    BY <1>1, <2>3 DEF CursorOK
<1>8. \A l \in logs : l \in SafeLogs(chain) /\ l.block <= to
  BY <1>6
<1> HIDE DEF logs
<1>9. batch \in SUBSET [log : LogType, hash : Nat]
  <2> SUFFICES ASSUME NEW l \in logs
               PROVE  l \in LogType /\ chain[l.block].fork \in Nat
    OBVIOUS
  <2> QED
    BY <1>2, <1>8, SafeLogFacts, BlockFacts
<1>10. BatchOK(batch, chain, ledger)
  <2>1. ASSUME NEW l \in logs, NEW m \in SafeLogs(chain), Before(m, l)
        PROVE  m \in ledger \/ m \in logs
    <3>1. m.block <= to
      BY <1>2, <1>4, <1>8, <2>1, SafeLogFacts, SyncConstants DEF Before
    <3> QED
      BY <1>7, <3>1
  <2>2. ASSUME NEW e \in batch
        PROVE  /\ e.log \in SafeLogs(chain) /\ e.hash = chain[e.log.block].fork
               /\ \A m \in SafeLogs(chain) :
                    Before(m, e.log) => m \in ledger \/ \E f \in batch : f.log = m
    <3>1. PICK l \in logs : e = [log |-> l, hash |-> chain[l.block].fork]
      OBVIOUS
    <3>2. e.log = l /\ e.hash = chain[l.block].fork
      BY <3>1
    <3>3. ASSUME NEW m \in logs
          PROVE  \E f \in batch : f.log = m
      <4> DEFINE f == [log |-> m, hash |-> chain[m.block].fork]
      <4>1. f \in batch /\ f.log = m
        OBVIOUS
      <4> QED
        BY <4>1
    <3> QED
      BY <1>8, <2>1, <3>2, <3>3
  <2> HIDE DEF batch
  <2> QED
    BY <2>2 DEF BatchOK
<1>11. ASSUME logs # {}
       PROVE  batch # {}
  BY <1>11
<1>12. ASSUME logs = {}
       PROVE  ReadUpTo(to, chain, ledger)
  BY <1>2, <1>3, <1>4, <1>7, <1>12, SyncConstants DEF ReadUpTo
<1>13. run' = [run EXCEPT ![r] = w]
  BY RunFacts DEF FetchLogs, to, logs
<1> HIDE DEF batch, state
<1>14. w \in RunType
  BY <1>4, <1>5, <1>9, RunFacts DEF RunType
<1>15. RunOK(w, chain, ledger)
  BY <1>10, <1>11, <1>12, RunFacts DEF RunOK, RunType
<1> HIDE DEF w
<1>16. run' \in [Runs -> RunType] /\ run'[r] = w /\ \A q \in Runs \ {r} : run'[q] = run[q]
  BY <1>13, <1>14, RunFacts
<1> QED
  BY <1>15, <1>16, RunStepInv, SyncTypes DEF FetchLogs, SyncInv

-----------------------------------------------------------------------------
(* Steps of a run that write.                                              *)

(* A step that adds to the ledger what keeps it a prefix, and leaves a      *)
(* checkpoint the ledger covers.                                            *)
LEMMA WriteStepInv ==
  ASSUME SyncInv, NEW r \in Runs,
         run' \in [Runs -> RunType], \A q \in Runs \ {r} : run'[q] = run[q],
         RunOK(run'[r], chain, ledger'),
         ledger \subseteq ledger', PrefixOK(chain, ledger'),
         checkpoint' \in CheckpointType \cup {None}, CursorOK(checkpoint', chain, ledger'),
         projection' \in ProjectionType,
         failures' \in Nat, UNCHANGED <<chain, forks>>
  PROVE  SyncInv'
<1>1. chain \in Seq(BlockType) /\ Extends(chain, chain)
  BY SyncTypes DEF SyncInv, Extends
<1>2. ledger' \subseteq LogType
  BY <1>1, SafeLogFacts DEF PrefixOK
<1>3. TypeOK'
  BY <1>2 DEF SyncInv, TypeOK
<1>4. ASSUME NEW q \in Runs, q # r
      PROVE  RunOK(run'[q], chain, ledger')
  BY <1>1, <1>4, RunFacts, RunStays
<1> QED
  BY <1>3, <1>4 DEF SyncInv

LEMMA LeastNumber ==
  ASSUME NEW T \in SUBSET Nat, T # {}
  PROVE  \E n \in T : \A m \in T : n <= m
<1> DEFINE Less == OpToRel(<, Nat)
<1>1. IsWellFoundedOn(Less, Nat)
  BY NatLessThanWellFounded
<1>2. \A x, y \in Nat : x < y => <<x, y>> \in Less
  BY DEF OpToRel
<1> HIDE DEF Less
<1>3. T \subseteq Nat
  OBVIOUS
<1>4. \E n \in T : \A m \in T : ~ (<<m, n>> \in Less)
  BY <1>1, <1>3, WFMin, Zenon
<1>5. PICK n \in T : \A m \in T : ~ (<<m, n>> \in Less)
  BY <1>4
<1>6. ASSUME NEW m \in T
      PROVE  n <= m
  <2>1. n \in Nat /\ m \in Nat /\ ~ (<<m, n>> \in Less)
    BY <1>5
  <2>2. ~ (m < n)
    BY <1>2, <2>1
  <2> QED
    BY <2>1, <2>2
<1> QED
  BY <1>6

(* Some entry of a batch comes first. *)
LEMMA SomethingIsFirst ==
  ASSUME NEW pending \in SUBSET [log : LogType, hash : Nat], pending # {}
  PROVE  \E e \in pending : \A f \in pending : ~Before(f.log, e.log)
<1>1. \A e \in pending : e.log.block \in Nat /\ e.log.logIndex \in Nat
  BY DEF LogType
<1> DEFINE Blocks == {e.log.block : e \in pending}
<1>2. \E b \in Blocks : \A c \in Blocks : b <= c
  <2>1. Blocks \in SUBSET Nat /\ Blocks # {}
    BY <1>1
  <2> QED
    BY <2>1, LeastNumber
<1>3. PICK first \in pending : \A e \in pending : first.log.block <= e.log.block
  BY <1>2
<1> DEFINE InBlock == {e \in pending : e.log.block = first.log.block}
           Indexes == {e.log.logIndex : e \in InBlock}
<1>4. \E i \in Indexes : \A j \in Indexes : i <= j
  <2>1. Indexes \in SUBSET Nat /\ Indexes # {}
    BY <1>1
  <2> QED
    BY <2>1, LeastNumber
<1>5. PICK e \in InBlock : \A f \in InBlock : e.log.logIndex <= f.log.logIndex
  BY <1>4
<1> QED
  BY <1>1, <1>3, <1>5 DEF Before

(* The entry a run works on comes before every other of its batch. *)
LEMMA NextEntryFacts ==
  ASSUME SyncInv, NEW r \in Runs, run[r].at \in {"apply", "store"}
  PROVE  /\ NextEntry(r) \in run[r].pending
         /\ \A f \in run[r].pending : ~Before(f.log, NextEntry(r).log)
         /\ BatchOK(run[r].pending, chain, ledger)
<1>1. run[r].pending # {} /\ BatchOK(run[r].pending, chain, ledger)
  BY RunFacts DEF RunOK
<1>2. \E e \in run[r].pending : \A f \in run[r].pending : ~Before(f.log, e.log)
  BY <1>1, RunFacts, SomethingIsFirst
<1> QED
  BY <1>1, <1>2 DEF NextEntry

LEMMA ProjectType ==
  ASSUME NEW state \in ProjectionType, NEW tx \in Txs
  PROVE  Project(state, tx, LiveKey(tx)) \in ProjectionType
<1>1. CASE tx \in PauseTxs
  BY <1>1 DEF Project, ProjectionType
<1>2. CASE tx \notin PauseTxs
  <2>1. tx \in RecipientTxs /\ LiveKey(tx) \in ProjectKeys
    BY <1>2 DEF RecipientTxs, LiveKey, ProjectKeys
  <2> QED
    BY <1>2, <2>1 DEF Project, ProjectionType
<1> QED
  BY <1>1, <1>2

(* Storing the first log of a batch extends the ledger by the next one.    *)
LEMMA StoreGrows ==
  ASSUME NEW c \in Seq(BlockType), Valid(c), NEW led, PrefixOK(c, led),
         NEW pending, BatchOK(pending, c, led), NEW entry \in pending,
         \A f \in pending : ~Before(f.log, entry.log)
  PROVE  LET l     == entry.log
             grown == {m \in led : ~SameKey(l, m)} \cup {l}
         IN  /\ led \subseteq grown
             /\ PrefixOK(c, grown)
             /\ \A m \in SafeLogs(c) :
                  m.block < l.block \/ (m.block = l.block /\ m.logIndex <= l.logIndex)
                    => m \in grown
             /\ BatchOK(pending \ {entry}, c, grown)
<1> DEFINE l     == entry.log
           grown == {m \in led : ~SameKey(l, m)} \cup {l}
<1>1. l \in SafeLogs(c) /\ \A m \in SafeLogs(c) : Before(m, l) => m \in led
  BY DEF BatchOK
<1>2. led \subseteq SafeLogs(c)
  BY DEF PrefixOK
<1>3. grown = led \cup {l}
  <2>1. \A m \in led : SameKey(l, m) => m = l
    BY <1>1, <1>2, SafeLogsDiffer
  <2> QED
    BY <2>1
<1>4. PrefixOK(c, grown)
  BY <1>1, <1>2, <1>3 DEF PrefixOK
<1>5. ASSUME NEW m \in SafeLogs(c),
             m.block < l.block \/ (m.block = l.block /\ m.logIndex <= l.logIndex)
      PROVE  m \in grown
  <2>1. {l.block, l.logIndex, m.block, m.logIndex} \subseteq Nat
    BY <1>1, SafeLogFacts DEF LogType
  <2>2. Before(m, l) \/ (l.block = m.block /\ l.logIndex = m.logIndex)
    BY <1>5, <2>1 DEF Before
  <2>3. (l.block = m.block /\ l.logIndex = m.logIndex) => l = m
    BY <1>1, SafeLogsDiffer
  <2> QED
    BY <1>1, <1>3, <2>2, <2>3
<1>6. BatchOK(pending \ {entry}, c, grown)
  <2> HIDE DEF grown
  <2>1. ASSUME NEW e \in pending \ {entry}
        PROVE  /\ e.log \in SafeLogs(c) /\ e.hash = c[e.log.block].fork
               /\ \A m \in SafeLogs(c) : Before(m, e.log) =>
                    m \in grown \/ \E f \in pending \ {entry} : f.log = m
    <3>1. /\ e.log \in SafeLogs(c) /\ e.hash = c[e.log.block].fork
          /\ \A m \in SafeLogs(c) : Before(m, e.log) =>
               m \in led \/ \E f \in pending : f.log = m
      BY DEF BatchOK
    <3> QED
      BY <1>3, <3>1
  <2> QED
    BY <2>1 DEF BatchOK
<1> QED
  BY <1>3, <1>4, <1>5, <1>6

LEMMA StoreLogInv ==
  ASSUME SyncInv, NEW r \in Runs, StoreLog(r)
  PROVE  SyncInv'
<1> DEFINE entry == NextEntry(r)
           l     == entry.log
           Patched(state) == IF run[r].shouldApply
                             THEN Project(state, l.tx, LiveKey(l.tx)) ELSE state
           next  == Patched(run[r].state)
           rest  == run[r].pending \ {entry}
           on    == [run[r] EXCEPT !.at = "apply", !.pending = rest,
                                   !.state = next, !.shouldApply = FALSE]
           w     == IF rest = {} THEN IdleRun ELSE on
<1>1. /\ entry \in run[r].pending /\ \A f \in run[r].pending : ~Before(f.log, entry.log)
      /\ BatchOK(run[r].pending, chain, ledger)
  BY NextEntryFacts DEF StoreLog
<1>2. chain \in Seq(BlockType) /\ Valid(chain) /\ PrefixOK(chain, ledger)
  BY SyncTypes DEF SyncInv
<1>3. /\ ledger' = {m \in ledger : ~SameKey(l, m)} \cup {l}
      /\ projection' = Patched(projection)
      /\ checkpoint' = NewCheckpoint(l.block, entry.hash, l.logIndex, next)
      /\ run' = [run EXCEPT ![r] = w]
      /\ UNCHANGED <<chain, forks, failures>>
  BY DEF StoreLog
<1> HIDE DEF entry
<1>4. /\ ledger \subseteq ledger' /\ PrefixOK(chain, ledger')
      /\ \A m \in SafeLogs(chain) :
           m.block < l.block \/ (m.block = l.block /\ m.logIndex <= l.logIndex)
             => m \in ledger'
      /\ BatchOK(rest, chain, ledger')
  BY <1>1, <1>2, <1>3, StoreGrows
<1>5. /\ l \in SafeLogs(chain) /\ entry.hash = chain[l.block].fork
      /\ entry.hash \in Nat
  BY <1>1, RunFacts DEF BatchOK
<1>6. /\ l.block \in EVENT_SYNC_START_BLOCK..Safe(chain) /\ l.block \in Nat
      /\ l.logIndex \in Nat /\ l.tx \in Txs
  BY <1>2, <1>5, SafeLogFacts DEF LogType
<1>7. \A state \in ProjectionType : Patched(state) \in ProjectionType
  BY <1>6, ProjectType
<1>8. next \in ProjectionType /\ projection' \in ProjectionType
  BY <1>3, <1>7, RunFacts, SyncTypes DEF SyncInv
<1> HIDE DEF next, l, Patched
<1>9. checkpoint' \in CheckpointType
  BY <1>3, <1>5, <1>6, <1>8 DEF NewCheckpoint, CheckpointType
<1>10. CursorOK(checkpoint', chain, ledger')
  <2>1. /\ checkpoint'.block = l.block /\ checkpoint'.hash = entry.hash
        /\ checkpoint'.logIndex = l.logIndex
    BY <1>3 DEF NewCheckpoint
  <2>2. l.logIndex # None
    BY <1>6, SyncConstants
  <2> QED
    BY <1>4, <1>5, <1>6, <2>1, <2>2 DEF CursorOK, Reached
<1> HIDE DEF rest
<1>11. on \in RunType
  <2>1. rest \in SUBSET [log : LogType, hash : Nat]
    BY RunFacts DEF rest
  <2> QED
    BY <1>8, <2>1, RunFacts DEF RunType
<1>12. ASSUME rest # {}
       PROVE  RunOK(on, chain, ledger')
  <2>1. Extends(chain, chain)
    BY <1>2, LenProperties DEF Extends
  <2>2. CursorOK(run[r].seen, chain, ledger')
    BY <1>2, <1>4, <2>1, RunFacts, CursorStays DEF RunOK
  <2>3. /\ on.at = "apply" /\ on.pending = rest /\ on.seen = run[r].seen
        /\ on.safeHead = run[r].safeHead
    BY RunFacts DEF RunType
  <2>4. run[r].safeHead = 0 \/ run[r].safeHead <= Safe(chain)
    BY RunFacts DEF RunOK
  <2> HIDE DEF on
  <2> QED
    BY <1>4, <1>12, <2>2, <2>3, <2>4 DEF RunOK
<1> HIDE DEF on
<1>13. w \in RunType /\ RunOK(w, chain, ledger')
  BY <1>11, <1>12, IdleRunOK
<1> HIDE DEF w
<1>14. run' \in [Runs -> RunType] /\ run'[r] = w /\ \A q \in Runs \ {r} : run'[q] = run[q]
  BY <1>3, <1>13, RunFacts
<1> QED
  BY <1>3, <1>4, <1>8, <1>9, <1>10, <1>13, <1>14, WriteStepInv, SyncTypes DEF SyncInv

(* An empty stretch of the chain moves the checkpoint to its end. *)
LEMMA AdvanceCheckpointInv ==
  ASSUME SyncInv, NEW r \in Runs, AdvanceCheckpoint(r)
  PROVE  SyncInv'
<1> DEFINE to == run[r].toBlock
           state == IF checkpoint = None THEN NoProjection ELSE checkpoint.cursorState
<1>1. ReadUpTo(to, chain, ledger) /\ run[r].blockHash = chain[to].fork
  BY RunFacts DEF AdvanceCheckpoint, RunOK
<1>2. chain \in Seq(BlockType) /\ to \in 1..Len(chain) /\ to \in EVENT_SYNC_START_BLOCK..Safe(chain)
  BY <1>1, SyncTypes, SyncConstants DEF ReadUpTo, Safe, SyncInv
<1>3. run[r].blockHash \in Nat
  BY <1>1, <1>2, BlockFacts
<1>4. state \in ProjectionType
  BY EmptyProjection, SyncTypes DEF SyncInv, CheckpointType
<1>5. checkpoint' = NewCheckpoint(to, run[r].blockHash, None, state)
  BY DEF AdvanceCheckpoint
<1> HIDE DEF state
<1>6. checkpoint' \in CheckpointType
  BY <1>2, <1>3, <1>4, <1>5, RunFacts DEF NewCheckpoint, CheckpointType
<1>7. CursorOK(checkpoint', chain, ledger)
  <2>1. /\ checkpoint'.block = to /\ checkpoint'.hash = chain[to].fork
        /\ checkpoint'.logIndex = None
    BY <1>1, <1>5 DEF NewCheckpoint
  <2>2. \A m \in SafeLogs(chain) : Reached(m, checkpoint') => m.block <= to
    BY <1>2, <2>1, SafeLogFacts, SyncConstants DEF Reached
  <2> QED
    BY <1>1, <1>2, <2>1, <2>2 DEF CursorOK, ReadUpTo
<1>8. run' = [run EXCEPT ![r] = IdleRun] /\ UNCHANGED <<chain, forks, ledger, projection, failures>>
  BY DEF AdvanceCheckpoint
<1> QED
  BY <1>6, <1>7, <1>8, EndRun, IdleRunOK, WriteStepInv, SyncTypes DEF SyncInv

(* An error is recorded before the first log of the start block, where     *)
(* nothing can be missing.                                                 *)
LEMMA RecordErrorInv ==
  ASSUME SyncInv, NEW r \in Runs, RecordError(r), failures' \in Nat,
         EVENT_SYNC_START_BLOCK <= Safe(chain)
  PROVE  SyncInv'
<1>1. chain \in Seq(BlockType)
  BY SyncTypes DEF SyncInv
<1>2. checkpoint' \in CheckpointType \cup {None} /\ CursorOK(checkpoint', chain, ledger)
  <2>1. CASE checkpoint # None
    BY <2>1, SyncTypes DEF RecordError, SyncInv
  <2>2. CASE checkpoint = None
    <3>1. checkpoint' = NewCheckpoint(EVENT_SYNC_START_BLOCK, None, 0, NoProjection)
      BY <2>2 DEF RecordError
    <3>2. checkpoint' \in CheckpointType
      BY <3>1, EmptyProjection, SyncConstants DEF NewCheckpoint, CheckpointType
    <3>3. /\ checkpoint'.block = EVENT_SYNC_START_BLOCK /\ checkpoint'.hash = None
          /\ checkpoint'.logIndex = 0
      BY <3>1 DEF NewCheckpoint
    <3>4. Safe(chain) \in Int
      BY <1>1, LenProperties, SyncConstants DEF Safe
    <3>5. ASSUME NEW m \in SafeLogs(chain)
          PROVE  ~Reached(m, checkpoint')
      <4>1. m.block >= EVENT_SYNC_START_BLOCK /\ m.block \in Nat
        BY <1>1, <3>4, SafeLogFacts, SyncConstants
      <4>2. m.logIndex \in Nat /\ m.logIndex >= 1
        BY <1>1, SafeLogFacts, BlockFacts
      <4> QED
        BY <3>3, <4>1, <4>2, SyncConstants DEF Reached
    <3> QED
      BY <3>2, <3>3, <3>4, <3>5, SyncConstants DEF CursorOK
  <2> QED
    BY <2>1, <2>2
<1>3. run' = [run EXCEPT ![r] = IdleRun] /\ UNCHANGED <<chain, forks, ledger, projection>>
  BY DEF RecordError
<1> QED
  BY <1>2, <1>3, EndRun, IdleRunOK, WriteStepInv, SyncTypes DEF SyncInv

LEMMA FailBatchInv ==
  ASSUME SyncInv, NEW r \in Runs, FailBatch(r)
  PROVE  SyncInv'
<1>1. /\ FromBlock(run[r].seen) <= run[r].safeHead /\ CursorOK(run[r].seen, chain, ledger)
      /\ run[r].safeHead = 0 \/ run[r].safeHead <= Safe(chain)
      /\ run[r].seen \in CheckpointType \cup {None} /\ run[r].safeHead \in Nat
  BY RunFacts DEF FailBatch, RunOK
<1>2. Safe(chain) \in Int
  BY SyncTypes, SyncConstants DEF SyncInv, Safe
<1>3. FromBlock(run[r].seen) \in Nat /\ EVENT_SYNC_START_BLOCK <= FromBlock(run[r].seen)
  BY <1>1, <1>2, SyncConstants DEF FromBlock, CursorOK, CheckpointType
<1>4. EVENT_SYNC_START_BLOCK <= Safe(chain)
  BY <1>1, <1>2, <1>3, SyncConstants
<1>5. RecordError(r) /\ failures' \in Nat
  BY SyncTypes DEF FailBatch, SyncInv
<1> QED
  BY <1>4, <1>5, RecordErrorInv

LEMMA FailStoreInv ==
  ASSUME SyncInv, NEW r \in Runs, FailStore(r)
  PROVE  SyncInv'
<1>1. NextEntry(r).log \in SafeLogs(chain)
  BY NextEntryFacts DEF FailStore, BatchOK
<1>2. Safe(chain) \in Int /\ chain \in Seq(BlockType)
  BY SyncTypes, SyncConstants DEF SyncInv, Safe
<1>3. EVENT_SYNC_START_BLOCK <= Safe(chain)
  BY <1>1, <1>2, SafeLogFacts, SyncConstants
<1>4. RecordError(r) /\ failures' \in Nat
  BY SyncTypes DEF FailStore, SyncInv
<1> QED
  BY <1>3, <1>4, RecordErrorInv

-----------------------------------------------------------------------------
(* The invariant.                                                          *)

LEMMA SyncInit ==
  ASSUME Init
  PROVE  SyncInv
<1>1. chain \in Seq(BlockType) /\ Len(chain) = 0
  BY EmptySeq DEF Init
<1>2. SafeLogs(chain) = {}
  <2> SUFFICES ASSUME NEW l \in SafeLogs(chain)
               PROVE  FALSE
    OBVIOUS
  <2>1. l.block \in 1..Len(chain)
    BY <1>1, SafeLogFacts
  <2> QED
    BY <1>1, <2>1
<1>3. TypeOK
  BY <1>1, EmptyProjection, IdleRunOK DEF Init, TypeOK, BlockType
<1>4. Valid(chain)
  BY <1>1, LenProperties DEF Valid
<1>5. \A r \in Runs : RunOK(run[r], chain, ledger)
  BY IdleRunOK DEF Init
<1> QED
  BY <1>2, <1>3, <1>4, <1>5 DEF Init, SyncInv, PrefixOK, CursorOK

LEMMA SyncStep ==
  ASSUME Shallow, SyncInv, Next
  PROVE  SyncInv'
<1>1. CASE Mine
  BY <1>1, MineExtends, ChainStepInv, SyncTypes DEF Mine, SyncInv
<1>2. CASE Reorganise
  <2>1. chain' \in Seq(BlockType) /\ Extends(chain', chain)
    BY <1>2, ReorganiseExtends DEF SyncInv
  <2>2. Valid(chain') /\ UNCHANGED <<dbVars, run, failures>> /\ forks' = forks + 1
    BY <1>2 DEF Reorganise
  <2>3. forks' \in Nat
    BY <2>2, SyncTypes DEF SyncInv
  <2> QED
    BY <2>1, <2>2, <2>3, ChainStepInv
<1>3. ASSUME NEW r \in Runs, Rewind(r)
      PROVE  SyncInv'
  BY <1>3, RunFacts DEF Rewind, RunOK
<1>4. ASSUME NEW r \in Runs, RunStep(r)
      PROVE  SyncInv'
  BY <1>3, <1>4, ReadCheckpointInv, VerifyCheckpointInv, NothingToSyncInv, FetchLogsInv,
     LookUpLogInv, StoreLogInv, FailStoreInv, ReadEndBlockInv, AdvanceCheckpointInv
     DEF RunStep
<1>5. ASSUME NEW r \in Runs, Trigger(r) \/ Crash(r) \/ FailBatch(r)
      PROVE  SyncInv'
  BY <1>5, TriggerInv, CrashInv, FailBatchInv
<1> QED
  BY <1>1, <1>2, <1>4, <1>5 DEF Next

LEMMA SyncStutter ==
  ASSUME SyncInv, UNCHANGED vars
  PROVE  SyncInv'
BY DEF SyncInv, TypeOK, vars, dbVars

(* While reorganisations stay above the confirmations, what the runs of    *)
(* syncEscrowEventsOnce know stays true, however they overlap, crash and   *)
(* fail: no run ever finds a checkpoint to rewind.                         *)
THEOREM SyncInvariant ==
  ASSUME Shallow
  PROVE  Spec => []SyncInv
<1>1. Init => SyncInv
  BY SyncInit
<1>2. SyncInv /\ [Next]_vars => SyncInv'
  BY SyncStep, SyncStutter
<1> QED
  BY <1>1, <1>2, PTL DEF Spec

(* The ledger is a prefix of the confirmed logs: none is skipped, and none *)
(* comes from a block that goes away.                                      *)
THEOREM SyncLedger ==
  ASSUME Shallow
  PROVE  Spec => []LedgerIsPrefix
<1>1. SyncInv => LedgerIsPrefix
  <2> SUFFICES ASSUME SyncInv
               PROVE  LedgerIsPrefix
    OBVIOUS
  <2>1. ConfirmedLogs = SafeLogs(chain)
    BY DEF ConfirmedLogs, ChainLogs, BlockLogs, SafeLogs, LogAt, Safe, HeadBlock
  <2> QED
    BY <2>1 DEF SyncInv, PrefixOK, LedgerIsPrefix
<1> QED
  BY <1>1, SyncInvariant, PTL

(* Resuming after a checkpoint skips nothing: every log up to its cursor   *)
(* is in the ledger.                                                       *)
THEOREM SyncCheckpoint ==
  ASSUME Shallow
  PROVE  Spec => []CheckpointNeverAhead
<1>1. SyncInv => CheckpointNeverAhead
  <2> SUFFICES ASSUME SyncInv, checkpoint # None,
                      NEW l \in ChainLogs(EVENT_SYNC_START_BLOCK, checkpoint.block)
               PROVE  \/ l \in ledger
                      \/ /\ l.block = checkpoint.block /\ checkpoint.logIndex # None
                         /\ l.logIndex > checkpoint.logIndex
    BY DEF CheckpointNeverAhead
  <2>1. /\ chain \in Seq(BlockType) /\ Safe(chain) \in Int
        /\ checkpoint \in CheckpointType /\ CursorOK(checkpoint, chain, ledger)
    BY SyncTypes, SyncConstants DEF SyncInv, Safe
  <2>2. checkpoint.block \in EVENT_SYNC_START_BLOCK..Safe(chain)
    BY <2>1 DEF CursorOK
  <2>3. PICK b \in EVENT_SYNC_START_BLOCK..checkpoint.block : l \in BlockLogs(b)
    BY DEF ChainLogs
  <2>4. PICK i \in DOMAIN chain[b].txs : l = LogAt(chain, b, i)
    BY <2>3 DEF BlockLogs, LogAt
  <2>5. b \in EVENT_SYNC_START_BLOCK..Safe(chain) /\ l.block = b
    BY <2>1, <2>2, <2>4, SyncConstants DEF LogAt
  <2>6. l \in SafeLogs(chain)
    BY <2>4, <2>5, SafeLogIs
  <2>7. l.block \in Nat /\ l.logIndex \in Nat /\ l.block <= checkpoint.block
    BY <2>1, <2>2, <2>3, <2>5, <2>6, SafeLogFacts, SyncConstants
  <2>8. Reached(l, checkpoint) => l \in ledger
    BY <2>1, <2>6 DEF CursorOK
  <2> QED
    BY <2>1, <2>2, <2>7, <2>8, SyncConstants DEF Reached, CheckpointType
<1> QED
  BY <1>1, SyncInvariant, PTL
-----------------------------------------------------------------------------
(* One run at a time, and reorganisations deeper than the confirmations.   *)
(* Now rows may be orphaned; what holds is that the checkpoint gives them   *)
(* away, and that ledger, projections and checkpoint tell one story.        *)

OneRun == \A r, s \in Runs : r = s

(* A reorganisation waits for the run to end, and a rewind reaches as deep. *)
Tolerated ==
  /\ ~ReorgDuringRuns
  /\ MaxReorgDepth <= EVENT_SYNC_CONFIRMATIONS + EVENT_SYNC_REWIND_DEPTH + 1

(* A checkpoint with a hash lies on a block that was confirmed, of a fork   *)
(* there has been.                                                          *)
CheckpointOK(cp, c, f) ==
  /\ cp.block >= EVENT_SYNC_START_BLOCK - 1
  /\ cp.block < EVENT_SYNC_START_BLOCK => cp.logIndex = None
  /\ cp.hash # None => cp.block \in EVENT_SYNC_START_BLOCK..Safe(c) /\ cp.hash <= f

(* Rows lie in confirmed places, one in each, none beyond the cursor.       *)
RowsInPlace(led, cp, c) ==
  /\ \A l \in led : /\ l.block \in EVENT_SYNC_START_BLOCK..Safe(c)
                    /\ Reached(l, cp)
  /\ \A l, m \in led : l.block = m.block /\ l.logIndex = m.logIndex => l = m
  /\ \E n \in Nat : \A l \in led : l.logIndex <= n

(* A row of a block that is gone is given away by the checkpoint's hash and *)
(* within the rewind's reach; without a hash, all rows are too deep to go.  *)
GivenAway(led, cp, c) ==
  /\ \A l \in led \ SafeLogs(c) :
       /\ cp.hash # None /\ c[cp.block].fork # cp.hash
       /\ l.block >= RewindFromBlock(cp.block)
  /\ led # {} /\ cp.hash = None => \A l \in led :
       l.block + EVENT_SYNC_CONFIRMATIONS + EVENT_SYNC_REWIND_DEPTH + 1 <= Len(c)

(* The pause state is that of the last pause event stored.                  *)
PauseFollows(proj, led) == proj.pause = LastTx({l \in led : l.tx \in PauseTxs})

TablesOK(c, f, led, cp, proj) ==
  /\ \A b \in 1..Len(c) : c[b].fork <= f
  /\ cp = None => led = {} /\ proj = NoProjection
  /\ cp # None => CheckpointOK(cp, c, f) /\ cp.cursorState = proj
  /\ RowsInPlace(led, cp, c)
  /\ GivenAway(led, cp, c)
  /\ PauseFollows(proj, led)

(* What is fetched is confirmed and comes after every row.                  *)
BatchIsNext(pending, c, led) ==
  /\ pending # {}
  /\ \A e \in pending :
       /\ e.log \in SafeLogs(c) /\ e.hash = c[e.log.block].fork
       /\ \A m \in led : Before(m, e.log)

(* What the only run knows: once it has seen to the checkpoint no row is    *)
(* orphaned, and what it has read of the database is what is there.         *)
KnowsOK(w, c, led, cp, proj) ==
  /\ w.safeHead = 0 \/ w.safeHead <= Safe(c)
  /\ w.at \in {"verify", "rewind", "fetch", "empty", "advance"} => w.seen = cp
  /\ w.at \in {"verify", "rewind"} => cp # None /\ cp.hash # None
  /\ w.at = "fetch" /\ FromBlock(w.seen) <= w.safeHead => led \subseteq SafeLogs(c)
  /\ w.at \in {"apply", "store", "empty", "advance"} => led \subseteq SafeLogs(c)
  /\ w.at \in {"apply", "store"} => w.state = proj /\ BatchIsNext(w.pending, c, led)
  /\ w.at = "store" => w.shouldApply
  /\ w.at \in {"empty", "advance"} =>
       /\ w.toBlock \in EVENT_SYNC_START_BLOCK..Safe(c)
       /\ \A l \in led : l.block <= w.toBlock
  /\ w.at = "advance" => w.blockHash = c[w.toBlock].fork

OneRunInv ==
  /\ TypeOK /\ Valid(chain)
  /\ TablesOK(chain, forks, ledger, checkpoint, projection)
  /\ \A r \in Runs : KnowsOK(run[r], chain, ledger, checkpoint, projection)

-----------------------------------------------------------------------------
(* The last of some rows.                                                  *)

LEMMA GreatestNumber ==
  ASSUME NEW T \in SUBSET Nat, T # {}, NEW n \in Nat, \A m \in T : m <= n
  PROVE  \E k \in T : \A m \in T : m <= k
<1> DEFINE Gaps == {n - m : m \in T}
<1>1. \E g \in Gaps : \A h \in Gaps : g <= h
  <2>0. \A m \in T : n - m \in Nat
    OBVIOUS
  <2>1. Gaps \in SUBSET Nat /\ Gaps # {}
    BY <2>0
  <2> HIDE DEF Gaps
  <2> QED  BY <2>1, LeastNumber
<1>2. PICK k \in T : \A m \in T : n - k <= n - m
  BY <1>1
<1>3. \A m \in T : m <= k
  BY <1>2
<1> QED  BY <1>3

LEMMA LastTxIs ==
  ASSUME NEW rows \in SUBSET LogType, NEW n \in Nat, NEW k \in Nat,
         \A l \in rows : l.block <= n /\ l.logIndex <= k
  PROVE  LastTx(rows) \in Txs \cup {None}
<1>0. \A l \in rows : l.block \in Nat /\ l.logIndex \in Nat /\ l.tx \in Txs
  BY DEF LogType
<1>1. CASE rows = {}
  BY <1>1 DEF LastTx
<1>2. CASE rows # {}
  <2> DEFINE Blocks == {l.block : l \in rows}
  <2>1. \E b \in Blocks : \A c \in Blocks : c <= b
    <3>1. Blocks \in SUBSET Nat /\ Blocks # {} /\ \A b \in Blocks : b <= n
      BY <1>0, <1>2
    <3> QED  BY <3>1, GreatestNumber
  <2>2. PICK top \in rows : \A l \in rows : l.block <= top.block
    BY <2>1
  <2> DEFINE InBlock == {l \in rows : l.block = top.block}
             Indexes == {l.logIndex : l \in InBlock}
  <2>3. \E i \in Indexes : \A j \in Indexes : j <= i
    <3>1. Indexes \in SUBSET Nat /\ Indexes # {} /\ \A i \in Indexes : i <= k
      BY <1>0
    <3> QED  BY <3>1, GreatestNumber
  <2>4. PICK last \in InBlock : \A l \in InBlock : l.logIndex <= last.logIndex
    BY <2>3
  <2>5. \A m \in rows : ~Before(last, m)
    BY <1>0, <2>2, <2>4 DEF Before
  <2>6. last \in rows
    BY <2>4
  <2>7. (CHOOSE l \in rows : \A m \in rows : ~Before(l, m)) \in rows
    BY <2>5, <2>6
  <2> QED  BY <1>0, <1>2, <2>7 DEF LastTx
<1> QED  BY <1>1, <1>2

(* A row after all others is the last. *)
LEMMA LastTxIsNew ==
  ASSUME NEW rows \in SUBSET LogType, NEW l \in LogType, \A m \in rows : Before(m, l)
  PROVE  LastTx(rows \cup {l}) = l.tx
<1>1. \A m \in rows \cup {l} : m.block \in Nat /\ m.logIndex \in Nat
  BY DEF LogType
<1>2. \A m \in rows \cup {l} : ~Before(l, m)
  BY <1>1 DEF Before
<1>3. \A x \in rows \cup {l} : (\A m \in rows \cup {l} : ~Before(x, m)) => x = l
  OBVIOUS
<1>4. (CHOOSE x \in rows \cup {l} : \A m \in rows \cup {l} : ~Before(x, m)) = l
  BY <1>2, <1>3
<1> QED  BY <1>4 DEF LastTx

LEMMA ReplayedType ==
  ASSUME NEW rows \in SUBSET LogType, NEW n \in Nat, NEW k \in Nat,
         \A l \in rows : l.block <= n /\ l.logIndex <= k
  PROVE  Replayed(rows) \in ProjectionType
<1>1. \A part \in SUBSET rows : LastTx(part) \in Txs \cup {None}
  <2> SUFFICES ASSUME NEW part \in SUBSET rows
               PROVE  LastTx(part) \in Txs \cup {None}
    OBVIOUS
  <2>1. part \in SUBSET LogType /\ \A l \in part : l.block <= n /\ l.logIndex <= k
    OBVIOUS
  <2> QED  BY <2>1, LastTxIs
<1>2. LastTx({l \in rows : l.tx \in PauseTxs}) \in Txs \cup {None}
  BY <1>1
<1>3. ASSUME NEW key \in ProjectKeys
      PROVE  LastTx({l \in rows : l.tx \in RecipientTxs /\ StoredKey(l.tx) = key})
               \in Txs \cup {None}
  BY <1>1
<1> QED  BY <1>2, <1>3 DEF Replayed, ProjectionType

LEMMA LastBlockIs ==
  ASSUME NEW rows \in SUBSET LogType, NEW n \in Nat,
         \A l \in rows : l.block <= n /\ l.block >= EVENT_SYNC_START_BLOCK
  PROVE  /\ LastBlock(rows) \in Nat /\ LastBlock(rows) >= EVENT_SYNC_START_BLOCK - 1
         /\ \A l \in rows : l.block <= LastBlock(rows)
<1> DEFINE T == {EVENT_SYNC_START_BLOCK - 1} \cup {l.block : l \in rows}
           top == IF n >= EVENT_SYNC_START_BLOCK THEN n ELSE EVENT_SYNC_START_BLOCK
<1>1. T \in SUBSET Nat /\ T # {} /\ top \in Nat /\ \A m \in T : m <= top
  BY SyncConstants DEF LogType
<1>2. PICK k \in T : \A m \in T : m <= k
  BY <1>1, GreatestNumber
<1>3. \A l \in rows : l.block <= k
  BY <1>2
<1>4. /\ LastBlock(rows) \in T /\ \A l \in rows : l.block <= LastBlock(rows)
  BY <1>3 DEF LastBlock
<1>5. LastBlock(rows) >= EVENT_SYNC_START_BLOCK - 1
  <2>1. LastBlock(rows) = EVENT_SYNC_START_BLOCK - 1 \/ \E l \in rows : LastBlock(rows) = l.block
    BY <1>4
  <2> QED  BY <2>1, SyncConstants DEF LogType
<1> QED  BY <1>1, <1>4, <1>5

-----------------------------------------------------------------------------
(* Steps of the chain, one run at a time.                                  *)

LEMMA OneRunTypes ==
  ASSUME OneRunInv
  PROVE  /\ chain \in Seq(BlockType) /\ Len(chain) \in Nat /\ Safe(chain) \in Int
         /\ forks \in Nat /\ failures \in Nat /\ HeadBlock = Len(chain)
         /\ ledger \in SUBSET LogType
         /\ checkpoint \in CheckpointType \cup {None} /\ projection \in ProjectionType
         /\ TablesOK(chain, forks, ledger, checkpoint, projection)
BY SyncTypes, SyncConstants, LenProperties DEF OneRunInv, TypeOK, Safe

LEMMA OneRunFacts ==
  ASSUME OneRunInv, NEW r \in Runs
  PROVE  /\ run[r] \in RunType /\ run \in [Runs -> RunType]
         /\ run[r].safeHead \in Nat /\ run[r].toBlock \in Nat
         /\ run[r].seen \in CheckpointType \cup {None}
         /\ run[r].state \in ProjectionType
         /\ run[r].pending \in SUBSET [log : LogType, hash : Nat]
         /\ KnowsOK(run[r], chain, ledger, checkpoint, projection)
BY SyncTypes DEF OneRunInv, RunType

LEMMA IdleKnows ==
  ASSUME NEW c, NEW led, NEW cp, NEW proj
  PROVE  KnowsOK(IdleRun, c, led, cp, proj)
BY DEF KnowsOK, IdleRun

LEMMA TablesGrow ==
  ASSUME NEW c \in Seq(BlockType), NEW d \in Seq(BlockType), Len(c) <= Len(d),
         \A b \in 1..Len(c) : d[b] = c[b], NEW f \in Nat, \A b \in 1..Len(d) : d[b].fork <= f,
         NEW led \in SUBSET LogType, NEW cp \in CheckpointType \cup {None}, NEW proj,
         TablesOK(c, f, led, cp, proj)
  PROVE  TablesOK(d, f, led, cp, proj)
<1>0. Len(c) \in Nat /\ Len(d) \in Nat
  BY LenProperties
<1>1. Extends(d, c)
  BY <1>0, SyncConstants DEF Extends, Safe
<1>2. Safe(c) <= Safe(d) /\ Safe(c) \in Int /\ Safe(d) \in Int /\ SafeLogs(c) \subseteq SafeLogs(d)
  BY <1>1, SafeLogsStay
<1>3. led # {} => cp # None
  BY DEF TablesOK
<1>4. cp # None => CheckpointOK(cp, d, f)
  BY <1>2, SyncConstants DEF TablesOK, CheckpointOK
<1>5. RowsInPlace(led, cp, d)
  BY <1>2, SyncConstants DEF TablesOK, RowsInPlace
<1>6. GivenAway(led, cp, d)
  <2>1. ASSUME NEW l \in led \ SafeLogs(d)
        PROVE  /\ cp.hash # None /\ d[cp.block].fork # cp.hash
               /\ l.block >= RewindFromBlock(cp.block)
    <3>1. /\ cp.hash # None /\ c[cp.block].fork # cp.hash
          /\ l.block >= RewindFromBlock(cp.block)
      BY <1>2 DEF TablesOK, GivenAway
    <3>2. cp.block \in EVENT_SYNC_START_BLOCK..Safe(c)
      BY <1>3, <3>1 DEF TablesOK, CheckpointOK
    <3>3. cp.block \in 1..Len(c)
      BY <1>0, <3>2, SyncConstants DEF Safe
    <3> QED  BY <3>1, <3>3
  <2>2. ASSUME led # {}, cp.hash = None, NEW l \in led
        PROVE  l.block + EVENT_SYNC_CONFIRMATIONS + EVENT_SYNC_REWIND_DEPTH + 1 <= Len(d)
    <3>1. l.block + EVENT_SYNC_CONFIRMATIONS + EVENT_SYNC_REWIND_DEPTH + 1 <= Len(c)
      BY <2>2 DEF TablesOK, GivenAway
    <3> QED  BY <1>0, <3>1, SyncConstants, EnvAssumption DEF LogType
  <2> QED  BY <2>1, <2>2 DEF GivenAway
<1> QED  BY <1>4, <1>5, <1>6 DEF TablesOK

LEMMA KnowsGrow ==
  ASSUME NEW c \in Seq(BlockType), NEW d \in Seq(BlockType), Len(c) <= Len(d),
         \A b \in 1..Len(c) : d[b] = c[b],
         NEW led, NEW cp, NEW proj, NEW w \in RunType, KnowsOK(w, c, led, cp, proj)
  PROVE  KnowsOK(w, d, led, cp, proj)
<1>0. Len(c) \in Nat /\ Len(d) \in Nat
  BY LenProperties
<1>1. Extends(d, c)
  BY <1>0, SyncConstants DEF Extends, Safe
<1>2. /\ Safe(c) <= Safe(d) /\ Safe(c) \in Int /\ Safe(d) \in Int
      /\ SafeLogs(c) \subseteq SafeLogs(d)
  BY <1>1, SafeLogsStay
<1>3. w.safeHead \in Nat /\ w.toBlock \in Nat
  BY DEF RunType
<1>4. w.safeHead = 0 \/ w.safeHead <= Safe(d)
  BY <1>2, <1>3 DEF KnowsOK
<1>5. BatchIsNext(w.pending, c, led) => BatchIsNext(w.pending, d, led)
  <2> SUFFICES ASSUME BatchIsNext(w.pending, c, led), NEW e \in w.pending
               PROVE  /\ e.log \in SafeLogs(d) /\ e.hash = d[e.log.block].fork
                      /\ \A m \in led : Before(m, e.log)
    BY DEF BatchIsNext
  <2>1. e.log \in SafeLogs(c) /\ e.hash = c[e.log.block].fork /\ \A m \in led : Before(m, e.log)
    BY DEF BatchIsNext
  <2>2. e.log.block \in 1..Len(c)
    BY <2>1, SafeLogFacts
  <2> QED  BY <1>2, <2>1, <2>2
<1>6. w.toBlock \in EVENT_SYNC_START_BLOCK..Safe(c)
        => w.toBlock \in EVENT_SYNC_START_BLOCK..Safe(d) /\ w.toBlock \in 1..Len(c)
  BY <1>0, <1>2, SyncConstants DEF Safe
<1> QED  BY <1>2, <1>4, <1>5, <1>6 DEF KnowsOK

(* A reorganisation within reach orphans only rows that are given away.    *)
LEMMA TablesReorganised ==
  ASSUME NEW c \in Seq(BlockType), NEW d \in Seq(BlockType), Len(d) = Len(c),
         NEW depth \in Nat, depth <= Len(c),
         depth <= EVENT_SYNC_CONFIRMATIONS + EVENT_SYNC_REWIND_DEPTH + 1,
         NEW f \in Nat,
         \A b \in 1..Len(c) : IF b <= Len(c) - depth THEN d[b] = c[b] ELSE d[b].fork = f + 1,
         NEW led \in SUBSET LogType, NEW cp \in CheckpointType \cup {None}, NEW proj,
         TablesOK(c, f, led, cp, proj)
  PROVE  TablesOK(d, f + 1, led, cp, proj)
<1>0. /\ Len(c) \in Nat /\ Safe(d) = Safe(c) /\ Safe(c) = Len(c) - EVENT_SYNC_CONFIRMATIONS
      /\ EVENT_SYNC_REWIND_DEPTH \in Nat
  BY LenProperties, EnvAssumption DEF Safe
<1>1. \A b \in 1..Len(c) : c[b].fork \in Nat
  BY BlockFacts
<1>2. \A b \in 1..Len(d) : d[b].fork <= f + 1
  BY <1>0, <1>1 DEF TablesOK
<1>3. cp # None => CheckpointOK(cp, d, f + 1)
  BY <1>0 DEF TablesOK, CheckpointOK, CheckpointType
<1>4. RowsInPlace(led, cp, d)
  BY <1>0 DEF TablesOK, RowsInPlace
<1>5. ASSUME NEW l \in led \ SafeLogs(d)
      PROVE  /\ cp.hash # None /\ d[cp.block].fork # cp.hash
             /\ l.block >= RewindFromBlock(cp.block)
  <2>1. cp # None /\ cp \in CheckpointType /\ CheckpointOK(cp, c, f)
    BY DEF TablesOK
  <2>2. /\ l.block \in EVENT_SYNC_START_BLOCK..Safe(c) /\ l.block \in Nat /\ cp.block \in Nat
        /\ l.block <= cp.block
    BY <2>1, SyncConstants DEF TablesOK, RowsInPlace, Reached, LogType, CheckpointType
  <2>3. CASE l \notin SafeLogs(c)
    <3>1. /\ cp.hash # None /\ c[cp.block].fork # cp.hash
          /\ l.block >= RewindFromBlock(cp.block)
      BY <2>3 DEF TablesOK, GivenAway
    <3>2. cp.block \in 1..Len(c) /\ cp.hash \in Nat /\ cp.hash <= f
      BY <1>0, <2>1, <3>1, SyncConstants DEF CheckpointOK, CheckpointType
    <3> QED  BY <3>1, <3>2
  <2>4. CASE l \in SafeLogs(c)
    <3>1. l.block > Len(c) - depth
      <4> SUFFICES ASSUME l.block <= Len(c) - depth
                   PROVE  l \in SafeLogs(d)
        BY <1>0, <2>2
      <4>1. d[l.block] = c[l.block]
        BY <2>4, SafeLogFacts
      <4>2. l.logIndex \in DOMAIN d[l.block].txs /\ l = LogAt(d, l.block, l.logIndex)
        BY <2>4, <4>1, SafeLogFacts DEF LogAt
      <4> QED  BY <1>0, <2>2, <4>2, SafeLogIs
    <3>2. cp.hash # None
      <4> SUFFICES ASSUME cp.hash = None
                   PROVE  FALSE
        OBVIOUS
      <4>1. l.block + EVENT_SYNC_CONFIRMATIONS + EVENT_SYNC_REWIND_DEPTH + 1 <= Len(c)
        BY DEF TablesOK, GivenAway
      <4> QED  BY <1>0, <2>2, <3>1, <4>1, SyncConstants
    <3>3. cp.block \in EVENT_SYNC_START_BLOCK..Safe(c) /\ cp.hash \in Nat /\ cp.hash <= f
      BY <2>1, <3>2 DEF CheckpointOK, CheckpointType
    <3>4. cp.block \in 1..Len(c) /\ cp.block > Len(c) - depth
      BY <1>0, <2>2, <3>1, <3>3, SyncConstants
    <3>5. d[cp.block].fork = f + 1
      BY <1>0, <3>4
    <3>6. l.block >= RewindFromBlock(cp.block)
      BY <1>0, <2>2, <3>1, <3>3, SyncConstants DEF RewindFromBlock
    <3> QED  BY <3>2, <3>3, <3>5, <3>6
  <2> QED  BY <2>3, <2>4
<1>6. GivenAway(led, cp, d)
  BY <1>5 DEF TablesOK, GivenAway
<1> QED  BY <1>2, <1>3, <1>4, <1>6 DEF TablesOK

LEMMA MineKeepsOneRun ==
  ASSUME OneRunInv, Mine
  PROVE  OneRunInv'
<1>1. PICK txs \in BlockContents : chain' = Append(chain, [fork |-> forks, txs |-> txs])
  BY DEF Mine
<1>2. [fork |-> forks, txs |-> txs] \in BlockType
  BY OneRunTypes, EventsAssumption DEF BlockType
<1>3. /\ chain' \in Seq(BlockType) /\ Len(chain') = Len(chain) + 1
      /\ \A b \in 1..Len(chain) : chain'[b] = chain[b]
      /\ chain'[Len(chain) + 1].fork = forks
  BY <1>1, <1>2, OneRunTypes, AppendProperties
<1>4. \A b \in 1..Len(chain') : chain'[b].fork <= forks
  BY <1>3, OneRunTypes DEF TablesOK
<1>5. UNCHANGED <<forks, dbVars, run, failures>> /\ Valid(chain') /\ Len(chain) <= Len(chain')
  BY <1>3, OneRunTypes DEF Mine
<1>6. TypeOK'
  BY <1>3, <1>5 DEF OneRunInv, TypeOK, dbVars, BlockType
<1>7. TablesOK(chain', forks', ledger', checkpoint', projection')
  BY <1>3, <1>4, <1>5, OneRunTypes, TablesGrow DEF dbVars
<1>8. ASSUME NEW r \in Runs
      PROVE  KnowsOK(run'[r], chain', ledger', checkpoint', projection')
  BY <1>3, <1>5, OneRunTypes, OneRunFacts, KnowsGrow DEF dbVars
<1> QED  BY <1>5, <1>6, <1>7, <1>8 DEF OneRunInv

LEMMA ReorganiseKeepsOneRun ==
  ASSUME Tolerated, OneRunInv, Reorganise
  PROVE  OneRunInv'
<1>1. PICK depth \in 1..MaxReorgDepth :
        /\ depth <= Len(chain) /\ chain' \in Seq(BlockType) /\ Len(chain') = Len(chain)
        /\ \A b \in 1..Len(chain) :
             IF b <= Len(chain) - depth THEN chain'[b] = chain[b]
                                        ELSE chain'[b].fork = forks + 1
  BY ReorganiseIs DEF OneRunInv
<1>2. /\ UNCHANGED <<dbVars, run, failures>> /\ Valid(chain') /\ forks' = forks + 1
      /\ \A r \in Runs : Idle(r)
  BY DEF Reorganise, Tolerated
<1>3. TypeOK'
  BY <1>1, <1>2, OneRunTypes DEF OneRunInv, TypeOK, dbVars, BlockType
<1>4. depth \in Nat /\ depth <= EVENT_SYNC_CONFIRMATIONS + EVENT_SYNC_REWIND_DEPTH + 1
  BY SyncConstants, EnvAssumption DEF Tolerated
<1>5. TablesOK(chain', forks', ledger', checkpoint', projection')
  BY <1>1, <1>2, <1>4, OneRunTypes, TablesReorganised DEF dbVars
<1>6. ASSUME NEW r \in Runs
      PROVE  KnowsOK(run'[r], chain', ledger', checkpoint', projection')
  <2>1. run'[r] = run[r] /\ run[r].at = "idle" /\ Safe(chain') = Safe(chain)
    BY <1>1, <1>2 DEF Idle, Safe
  <2> QED  BY <2>1, OneRunFacts DEF KnowsOK
<1> QED  BY <1>2, <1>3, <1>5, <1>6 DEF OneRunInv

-----------------------------------------------------------------------------
(* Steps of the only run.                                                  *)

(* What has to be shown of a step of the run. *)
LEMMA OnlyRunSteps ==
  ASSUME OneRun, OneRunInv, NEW r \in Runs, NEW w \in RunType,
         run' = [run EXCEPT ![r] = w],
         ledger' \in SUBSET LogType, checkpoint' \in CheckpointType \cup {None},
         projection' \in ProjectionType,
         TablesOK(chain, forks, ledger', checkpoint', projection'),
         KnowsOK(w, chain, ledger', checkpoint', projection'),
         failures' \in Nat, UNCHANGED <<chain, forks>>
  PROVE  OneRunInv'
<1>1. run' \in [Runs -> RunType] /\ run'[r] = w
  BY OneRunFacts
<1>2. \A q \in Runs : run'[q] = w
  BY <1>1 DEF OneRun
<1>3. TypeOK'
  BY <1>1 DEF OneRunInv, TypeOK
<1> QED  BY <1>2, <1>3 DEF OneRunInv

LEMMA OnlyRunReads ==
  ASSUME OneRun, OneRunInv, NEW r \in Runs, NEW w \in RunType,
         run' = [run EXCEPT ![r] = w],
         KnowsOK(w, chain, ledger, checkpoint, projection),
         failures' \in Nat, UNCHANGED <<chain, forks, dbVars>>
  PROVE  OneRunInv'
BY OneRunTypes, OnlyRunSteps DEF dbVars

LEMMA TriggerKeepsOneRun ==
  ASSUME OneRun, OneRunInv, NEW r \in Runs, Trigger(r)
  PROVE  OneRunInv'
<1> DEFINE w == [run[r] EXCEPT !.at = "checkpoint", !.safeHead = SafeHeadBlock]
<1>1. SafeHeadBlock \in Nat /\ (SafeHeadBlock = 0 \/ SafeHeadBlock <= Safe(chain))
  BY OneRunTypes, SyncConstants DEF SafeHeadBlock, Safe
<1>2. run' = [run EXCEPT ![r] = w] /\ failures' \in Nat
  BY OneRunFacts, OneRunTypes DEF Trigger
<1>3. w \in RunType
  BY <1>1, OneRunFacts DEF RunType
<1>4. KnowsOK(w, chain, ledger, checkpoint, projection)
  BY <1>1, OneRunFacts DEF KnowsOK, RunType
<1> HIDE DEF w
<1> QED  BY <1>2, <1>3, <1>4, OnlyRunReads DEF Trigger

(* A checkpoint that is not verified has nothing to verify: there is none,  *)
(* it comes from a rewind, or there is nothing to fetch.                    *)
LEMMA ReadCheckpointKeepsOneRun ==
  ASSUME OneRun, OneRunInv, NEW r \in Runs, ReadCheckpoint(r)
  PROVE  OneRunInv'
<1> DEFINE verify == checkpoint # None /\ checkpoint.hash # None
                       /\ checkpoint.block <= run[r].safeHead
           w == [run[r] EXCEPT !.seen = checkpoint, !.at = IF verify THEN "verify" ELSE "fetch"]
<1>1. run' = [run EXCEPT ![r] = w] /\ failures' \in Nat
  BY OneRunFacts, OneRunTypes DEF ReadCheckpoint
<1>2. w \in RunType
  BY OneRunTypes, OneRunFacts DEF RunType
<1>3. ASSUME ~verify, FromBlock(checkpoint) <= run[r].safeHead
      PROVE  ledger \subseteq SafeLogs(chain)
  <2>1. CASE checkpoint = None
    BY <2>1, OneRunTypes DEF TablesOK
  <2>2. CASE checkpoint # None /\ checkpoint.hash = None
    BY <2>2, OneRunTypes DEF TablesOK, GivenAway
  <2>3. CASE checkpoint # None /\ ~(checkpoint.block <= run[r].safeHead)
    BY <1>3, <2>3, OneRunTypes, OneRunFacts DEF FromBlock, CheckpointType
  <2> QED  BY <1>3, <2>1, <2>2, <2>3
<1>4. /\ w.at = IF verify THEN "verify" ELSE "fetch"
      /\ w.seen = checkpoint /\ w.safeHead = run[r].safeHead
  BY OneRunFacts DEF RunType
<1> HIDE DEF w
<1>5. KnowsOK(w, chain, ledger, checkpoint, projection)
  BY <1>3, <1>4, OneRunFacts DEF KnowsOK
<1> QED  BY <1>1, <1>2, <1>5, OnlyRunReads DEF ReadCheckpoint

LEMMA VerifyCheckpointKeepsOneRun ==
  ASSUME OneRun, OneRunInv, NEW r \in Runs, VerifyCheckpoint(r)
  PROVE  OneRunInv'
<1> DEFINE at == IF HashMismatch(run[r].seen) THEN "rewind" ELSE "fetch"
           w == [run[r] EXCEPT !.at = at]
<1>1. run' = [run EXCEPT ![r] = w] /\ failures' \in Nat /\ run[r].at = "verify"
  BY OneRunFacts, OneRunTypes DEF VerifyCheckpoint
<1>2. w \in RunType
  BY OneRunFacts DEF RunType
<1>3. w.at = at /\ w.seen = run[r].seen /\ w.safeHead = run[r].safeHead
  BY OneRunFacts DEF RunType
<1>4. run[r].seen = checkpoint /\ checkpoint # None /\ checkpoint.hash # None
  BY <1>1, OneRunFacts DEF KnowsOK
<1>5. ~HashMismatch(checkpoint) => ledger \subseteq SafeLogs(chain)
  BY OneRunTypes DEF TablesOK, GivenAway, HashMismatch
<1> HIDE DEF w
<1>6. KnowsOK(w, chain, ledger, checkpoint, projection)
  BY <1>3, <1>4, <1>5, OneRunFacts DEF KnowsOK
<1> QED  BY <1>1, <1>2, <1>6, OnlyRunReads DEF VerifyCheckpoint

LEMMA IdleKeepsOneRun ==
  ASSUME OneRun, OneRunInv, NEW r \in Runs, run' = [run EXCEPT ![r] = IdleRun],
         failures' \in Nat, UNCHANGED <<chain, forks, dbVars>>
  PROVE  OneRunInv'
BY IdleRunOK, IdleKnows, OnlyRunReads

LEMMA ReadEndBlockKeepsOneRun ==
  ASSUME OneRun, OneRunInv, NEW r \in Runs, ReadEndBlock(r)
  PROVE  OneRunInv'
<1> DEFINE hash == chain[run[r].toBlock].fork
           w == [run[r] EXCEPT !.at = "advance", !.blockHash = hash]
<1>1. /\ run[r].at = "empty" /\ run[r].toBlock \in EVENT_SYNC_START_BLOCK..Safe(chain)
      /\ run' = [run EXCEPT ![r] = w] /\ failures' \in Nat
  BY OneRunFacts, OneRunTypes DEF ReadEndBlock, KnowsOK
<1>2. hash \in Nat
  <2>1. run[r].toBlock \in 1..Len(chain)
    BY <1>1, OneRunTypes, SyncConstants DEF Safe
  <2> QED  BY <2>1, BlockFacts, OneRunTypes
<1>3. /\ w.at = "advance" /\ w.seen = run[r].seen /\ w.safeHead = run[r].safeHead
      /\ w.toBlock = run[r].toBlock /\ w.blockHash = hash
  BY OneRunFacts DEF RunType
<1> HIDE DEF hash
<1>4. w \in RunType
  BY <1>2, OneRunFacts DEF RunType
<1> HIDE DEF w
<1>5. KnowsOK(w, chain, ledger, checkpoint, projection)
  BY <1>1, <1>3, OneRunFacts DEF KnowsOK, hash
<1> QED  BY <1>1, <1>4, <1>5, OnlyRunReads DEF ReadEndBlock

(* What a run fetches comes after the cursor, so after every row.           *)
LEMMA FetchLogsKeepsOneRun ==
  ASSUME OneRun, OneRunInv, NEW r \in Runs, FetchLogs(r)
  PROVE  OneRunInv'
<1> DEFINE seen == run[r].seen
           from == FromBlock(seen)
           end  == from + EVENT_SYNC_BATCH_SIZE - 1
           to   == IF run[r].safeHead < end THEN run[r].safeHead ELSE end
           logs == {l \in ChainLogs(from, to) : AfterCursor(l, seen)}
           batch == {[log |-> l, hash |-> chain[l.block].fork] : l \in logs}
           state == IF seen = None THEN NoProjection ELSE seen.cursorState
           at == IF logs = {} THEN "empty" ELSE "apply"
           w == [run[r] EXCEPT !.at = at, !.toBlock = to, !.pending = batch, !.state = state]
<1>1. /\ seen = checkpoint /\ from <= run[r].safeHead /\ ledger \subseteq SafeLogs(chain)
      /\ run[r].safeHead \in Nat /\ (run[r].safeHead = 0 \/ run[r].safeHead <= Safe(chain))
      /\ checkpoint \in CheckpointType \cup {None}
  BY OneRunFacts, OneRunTypes DEF FetchLogs, KnowsOK
<1>2. chain \in Seq(BlockType) /\ Safe(chain) \in Int /\ TablesOK(chain, forks, ledger, checkpoint, projection)
  BY OneRunTypes
<1>3. from \in Nat /\ EVENT_SYNC_START_BLOCK <= from
  BY <1>1, <1>2, SyncConstants DEF FromBlock, TablesOK, CheckpointOK, CheckpointType
<1>4. to \in Nat /\ from <= to /\ to \in EVENT_SYNC_START_BLOCK..Safe(chain)
  BY <1>1, <1>2, <1>3, SyncConstants
<1>5. state = projection /\ projection \in ProjectionType
  BY <1>1, <1>2, OneRunTypes DEF TablesOK
<1>6. \A l \in ledger : l.block <= to
  <2> SUFFICES ASSUME NEW l \in ledger
               PROVE  l.block <= to
    OBVIOUS
  <2>1. Reached(l, checkpoint) /\ checkpoint # None /\ l \in LogType
    BY <1>2, OneRunTypes DEF TablesOK, RowsInPlace
  <2>2. l.block <= checkpoint.block /\ checkpoint.block <= from
    BY <1>1, <2>1 DEF FromBlock, Reached, LogType, CheckpointType
  <2> QED  BY <1>1, <1>3, <1>4, <2>1, <2>2 DEF LogType, CheckpointType
<1>7. \A l \in ChainLogs(from, to) : l \in SafeLogs(chain) /\ from <= l.block
  <2> SUFFICES ASSUME NEW l \in ChainLogs(from, to)
               PROVE  l \in SafeLogs(chain) /\ from <= l.block
    OBVIOUS
  <2> HIDE DEF from, to
  <2>1. PICK b \in from..to : l \in BlockLogs(b)
    BY DEF ChainLogs
  <2>2. PICK i \in DOMAIN chain[b].txs : l = LogAt(chain, b, i)
    BY <2>1 DEF BlockLogs, LogAt
  <2>3. b \in EVENT_SYNC_START_BLOCK..Safe(chain) /\ l.block = b
    BY <1>2, <1>3, <1>4, <2>2, SyncConstants DEF LogAt
  <2> QED  BY <1>3, <1>4, <2>2, <2>3, SafeLogIs
<1>8. ASSUME NEW l \in logs, NEW m \in ledger
      PROVE  Before(m, l)
  <2>1. l \in SafeLogs(chain) /\ from <= l.block /\ AfterCursor(l, checkpoint)
    BY <1>1, <1>7
  <2>2. {l.block, l.logIndex} \subseteq Nat
    BY <1>2, <2>1, SafeLogFacts, SyncConstants
  <2>3. Reached(m, checkpoint) /\ checkpoint \in CheckpointType /\ checkpoint # None /\ m \in LogType
    BY <1>2, OneRunTypes DEF TablesOK, RowsInPlace
  <2>4. {m.block, m.logIndex, checkpoint.block} \subseteq Nat
    BY <2>3 DEF LogType, CheckpointType
  <2>5. CASE checkpoint.logIndex = None
    <3>1. from = checkpoint.block + 1
      BY <1>1, <2>3, <2>5 DEF FromBlock
    <3> HIDE DEF from
    <3> QED  BY <2>1, <2>2, <2>3, <2>4, <2>5, <3>1 DEF Reached, Before
  <2>6. CASE checkpoint.logIndex # None
    <3>1. from = checkpoint.block /\ checkpoint.logIndex \in Nat
      BY <1>1, <2>3, <2>6 DEF FromBlock, CheckpointType
    <3> HIDE DEF from
    <3> QED  BY <2>1, <2>2, <2>3, <2>4, <2>6, <3>1 DEF Reached, Before, AfterCursor
  <2> QED  BY <2>5, <2>6
<1>9. \A l \in logs : l \in SafeLogs(chain)
  BY <1>7
<1> HIDE DEF logs
<1>10. batch \in SUBSET [log : LogType, hash : Nat]
  <2> SUFFICES ASSUME NEW l \in logs
               PROVE  l \in LogType /\ chain[l.block].fork \in Nat
    OBVIOUS
  <2> QED  BY <1>2, <1>9, SafeLogFacts, BlockFacts
<1>11. ASSUME logs # {}
       PROVE  BatchIsNext(batch, chain, ledger)
  <2>1. ASSUME NEW e \in batch
        PROVE  /\ e.log \in SafeLogs(chain) /\ e.hash = chain[e.log.block].fork
               /\ \A m \in ledger : Before(m, e.log)
    <3>1. PICK l \in logs : e = [log |-> l, hash |-> chain[l.block].fork]
      OBVIOUS
    <3>2. e.log = l /\ e.hash = chain[l.block].fork
      BY <3>1
    <3> QED  BY <1>8, <1>9, <3>2
  <2>2. batch # {}
    BY <1>11
  <2> HIDE DEF batch
  <2> QED  BY <2>1, <2>2 DEF BatchIsNext
<1>12. run' = [run EXCEPT ![r] = w] /\ failures' \in Nat
  BY OneRunFacts, OneRunTypes DEF FetchLogs, logs
<1> HIDE DEF batch, state, to
<1>13. w \in RunType
  BY <1>4, <1>5, <1>10, OneRunFacts DEF RunType
<1>14. /\ w.at = at /\ w.toBlock = to /\ w.pending = batch /\ w.state = state
       /\ w.seen = checkpoint /\ w.safeHead = run[r].safeHead
  BY <1>1, OneRunFacts DEF RunType
<1> HIDE DEF w
<1>15. KnowsOK(w, chain, ledger, checkpoint, projection)
  BY <1>1, <1>4, <1>5, <1>6, <1>11, <1>14 DEF KnowsOK
<1> QED  BY <1>12, <1>13, <1>15, OnlyRunReads DEF FetchLogs

(* The first entry of a batch: no row has its key, and it comes after all.  *)
LEMMA NextIsNew ==
  ASSUME OneRunInv, NEW r \in Runs, run[r].at \in {"apply", "store"}
  PROVE  /\ NextEntry(r) \in run[r].pending
         /\ \A f \in run[r].pending : ~Before(f.log, NextEntry(r).log)
         /\ NextEntry(r).log \in SafeLogs(chain) /\ NextEntry(r).log \in LogType
         /\ ledger \subseteq SafeLogs(chain)
         /\ \A m \in ledger : Before(m, NextEntry(r).log) /\ ~SameKey(NextEntry(r).log, m)
<1>1. /\ run[r].pending # {} /\ BatchIsNext(run[r].pending, chain, ledger)
      /\ ledger \subseteq SafeLogs(chain)
  BY OneRunFacts DEF KnowsOK, BatchIsNext
<1>2. \E e \in run[r].pending : \A f \in run[r].pending : ~Before(f.log, e.log)
  BY <1>1, OneRunFacts, SomethingIsFirst
<1>3. NextEntry(r) \in run[r].pending /\ \A f \in run[r].pending : ~Before(f.log, NextEntry(r).log)
  BY <1>2 DEF NextEntry
<1> DEFINE l == NextEntry(r).log
<1>4. l \in SafeLogs(chain) /\ \A m \in ledger : Before(m, l)
  BY <1>1, <1>3 DEF BatchIsNext
<1>5. l \in LogType /\ chain \in Seq(BlockType) /\ Valid(chain)
  BY <1>4, OneRunTypes, SafeLogFacts DEF OneRunInv
<1> HIDE DEF l
<1>6. ASSUME NEW m \in ledger, SameKey(l, m)
      PROVE  FALSE
  <2>1. m = l
    BY <1>1, <1>4, <1>5, <1>6, SafeLogsDiffer
  <2> QED  BY <1>4, <1>5, <1>6, <2>1 DEF Before, LogType
<1> QED  BY <1>1, <1>3, <1>4, <1>5, <1>6 DEF l

LEMMA LookUpLogKeepsOneRun ==
  ASSUME OneRun, OneRunInv, NEW r \in Runs, LookUpLog(r)
  PROVE  OneRunInv'
<1> DEFINE w == [run[r] EXCEPT !.at = "store", !.shouldApply = TRUE]
<1>1. run[r].at = "apply" /\ ShouldApply(NextEntry(r).log)
  BY NextIsNew DEF LookUpLog, ShouldApply
<1>2. run' = [run EXCEPT ![r] = w] /\ failures' \in Nat
  BY <1>1, OneRunFacts, OneRunTypes DEF LookUpLog
<1>3. w \in RunType
  BY OneRunFacts DEF RunType
<1>4. /\ w.at = "store" /\ w.shouldApply /\ w.pending = run[r].pending
      /\ w.state = run[r].state /\ w.safeHead = run[r].safeHead
  BY OneRunFacts DEF RunType
<1> HIDE DEF w
<1>5. KnowsOK(w, chain, ledger, checkpoint, projection)
  BY <1>1, <1>4, OneRunFacts DEF KnowsOK
<1> QED  BY <1>2, <1>3, <1>5, OnlyRunReads DEF LookUpLog

(* A step of the projections, by a log that comes after all rows.           *)
LEMMA PauseMoves ==
  ASSUME NEW led \in SUBSET LogType, NEW l \in LogType, \A m \in led : Before(m, l),
         NEW proj \in ProjectionType, PauseFollows(proj, led)
  PROVE  PauseFollows(Project(proj, l.tx, LiveKey(l.tx)), led \cup {l})
<1> DEFINE rows == {m \in led : m.tx \in PauseTxs}
<1>1. CASE l.tx \in PauseTxs
  <2>1. {m \in led \cup {l} : m.tx \in PauseTxs} = rows \cup {l}
    BY <1>1
  <2>2. LastTx(rows \cup {l}) = l.tx
    BY LastTxIsNew
  <2>3. Project(proj, l.tx, LiveKey(l.tx)).pause = l.tx
    BY <1>1 DEF Project, ProjectionType
  <2> QED  BY <2>1, <2>2, <2>3 DEF PauseFollows
<1>2. CASE l.tx \notin PauseTxs
  <2>1. {m \in led \cup {l} : m.tx \in PauseTxs} = rows
    BY <1>2
  <2>2. Project(proj, l.tx, LiveKey(l.tx)).pause = proj.pause
    BY <1>2 DEF Project, ProjectionType
  <2> QED  BY <2>1, <2>2 DEF PauseFollows
<1> QED  BY <1>1, <1>2

LEMMA StoreLogKeepsOneRun ==
  ASSUME OneRun, OneRunInv, NEW r \in Runs, StoreLog(r)
  PROVE  OneRunInv'
<1> DEFINE entry == NextEntry(r)
           l     == entry.log
           next  == Project(projection, l.tx, LiveKey(l.tx))
           rest  == run[r].pending \ {entry}
           on    == [run[r] EXCEPT !.at = "apply", !.pending = rest,
                                   !.state = next, !.shouldApply = FALSE]
           w     == IF rest = {} THEN IdleRun ELSE on
<1>1. /\ run[r].at = "store" /\ run[r].shouldApply /\ run[r].state = projection
      /\ BatchIsNext(run[r].pending, chain, ledger)
  BY OneRunFacts DEF StoreLog, KnowsOK
<1>2. /\ entry \in run[r].pending /\ \A f \in run[r].pending : ~Before(f.log, l)
      /\ l \in SafeLogs(chain) /\ l \in LogType /\ ledger \subseteq SafeLogs(chain)
      /\ \A m \in ledger : Before(m, l) /\ ~SameKey(l, m)
  BY <1>1, NextIsNew
<1>3. /\ ledger' = ledger \cup {l} /\ projection' = next
      /\ checkpoint' = NewCheckpoint(l.block, entry.hash, l.logIndex, next)
      /\ run' = [run EXCEPT ![r] = w] /\ UNCHANGED <<chain, forks, failures>>
  BY <1>1, <1>2 DEF StoreLog
<1>4. /\ chain \in Seq(BlockType) /\ Valid(chain) /\ Len(chain) \in Nat /\ Safe(chain) \in Int
      /\ TablesOK(chain, forks, ledger, checkpoint, projection)
      /\ ledger \in SUBSET LogType /\ projection \in ProjectionType
  BY OneRunTypes DEF OneRunInv
<1>5. /\ l.block \in EVENT_SYNC_START_BLOCK..Safe(chain) /\ l.block \in 1..Len(chain)
      /\ l.block \in Nat /\ l.logIndex \in Nat /\ l.tx \in Txs
      /\ entry.hash = chain[l.block].fork /\ entry.hash \in Nat /\ entry.hash <= forks
  <2>1. /\ l.block \in EVENT_SYNC_START_BLOCK..Safe(chain) /\ l.block \in 1..Len(chain)
        /\ l.block \in Nat /\ l.logIndex \in Nat /\ l.tx \in Txs
    BY <1>2, <1>4, SafeLogFacts DEF LogType
  <2>2. entry.hash = chain[l.block].fork
    BY <1>1, <1>2 DEF BatchIsNext
  <2>3. chain[l.block].fork \in Nat /\ chain[l.block].fork <= forks
    BY <1>4, <2>1, BlockFacts DEF TablesOK
  <2> QED  BY <2>1, <2>2, <2>3
<1>6. next \in ProjectionType
  BY <1>4, <1>5, ProjectType
<1>7. PauseFollows(next, ledger \cup {l})
  BY <1>2, <1>4, PauseMoves DEF TablesOK
<1> HIDE DEF next, entry
<1>8. /\ checkpoint' \in CheckpointType /\ checkpoint'.cursorState = next
      /\ checkpoint'.block = l.block /\ checkpoint'.hash = entry.hash
      /\ checkpoint'.logIndex = l.logIndex /\ checkpoint' # None
  <2>1. /\ checkpoint' \in CheckpointType /\ checkpoint'.cursorState = next
        /\ checkpoint'.block = l.block /\ checkpoint'.hash = entry.hash
        /\ checkpoint'.logIndex = l.logIndex
    BY <1>3, <1>5, <1>6 DEF NewCheckpoint, CheckpointType
  <2> QED  BY <2>1, NullAssumption
<1>9. ledger' \in SUBSET LogType /\ ledger' \subseteq SafeLogs(chain)
  BY <1>2, <1>3, <1>4
<1>10. l.logIndex # None /\ entry.hash # None
  BY <1>5, SyncConstants
<1>11. RowsInPlace(ledger', checkpoint', chain)
  <2>1. \A m \in ledger : /\ m.block \in EVENT_SYNC_START_BLOCK..Safe(chain)
                          /\ m.block \in Nat /\ m.logIndex \in Nat
    BY <1>4 DEF TablesOK, RowsInPlace, LogType
  <2>2. \A m \in ledger' : m.block \in EVENT_SYNC_START_BLOCK..Safe(chain) /\ Reached(m, checkpoint')
    BY <1>2, <1>3, <1>5, <1>8, <2>1 DEF Reached, Before
  <2>3. \A x, y \in ledger' : x.block = y.block /\ x.logIndex = y.logIndex => x = y
    BY <1>4, <1>9, SafeLogsDiffer
  <2>4. PICK n \in Nat : \A m \in ledger : m.logIndex <= n
    BY <1>4 DEF TablesOK, RowsInPlace
  <2>5. \E k \in Nat : \A m \in ledger' : m.logIndex <= k
    <3> DEFINE k == IF l.logIndex <= n THEN n ELSE l.logIndex
    <3>1. k \in Nat /\ \A m \in ledger' : m.logIndex <= k
      BY <1>3, <1>5, <2>1, <2>4
    <3> QED  BY <3>1
  <2> QED  BY <2>2, <2>3, <2>5 DEF RowsInPlace
<1>12. TablesOK(chain, forks, ledger', checkpoint', projection')
  <2>1. CheckpointOK(checkpoint', chain, forks)
    BY <1>4, <1>5, <1>8, SyncConstants DEF CheckpointOK
  <2>2. GivenAway(ledger', checkpoint', chain)
    BY <1>8, <1>9, <1>10 DEF GivenAway
  <2> QED  BY <1>3, <1>4, <1>7, <1>8, <1>11, <2>1, <2>2 DEF TablesOK
<1>13. ASSUME rest # {}
       PROVE  BatchIsNext(rest, chain, ledger')
  <2>1. ASSUME NEW e \in rest
        PROVE  Before(l, e.log)
    <3>1. e.log \in SafeLogs(chain) /\ e.hash = chain[e.log.block].fork /\ ~Before(e.log, l)
      BY <1>1, <1>2 DEF BatchIsNext
    <3>2. e.log # l
      <4> SUFFICES ASSUME e.log = l
                   PROVE  e = entry
        OBVIOUS
      <4>1. e.hash = entry.hash
        BY <1>5, <3>1
      <4>2. e \in [log : LogType, hash : Nat] /\ entry \in [log : LogType, hash : Nat]
        BY <1>2, OneRunFacts
      <4> QED  BY <4>1, <4>2
    <3>3. ~(e.log.block = l.block /\ e.log.logIndex = l.logIndex)
      BY <1>2, <1>4, <3>1, <3>2, SafeLogsDiffer
    <3>4. {e.log.block, e.log.logIndex} \subseteq Nat
      BY <1>4, <3>1, SafeLogFacts DEF LogType
    <3> QED  BY <1>5, <3>1, <3>3, <3>4 DEF Before
  <2>2. ASSUME NEW e \in rest
        PROVE  /\ e.log \in SafeLogs(chain) /\ e.hash = chain[e.log.block].fork
               /\ \A m \in ledger : Before(m, e.log)
    BY <1>1 DEF BatchIsNext
  <2> QED  BY <1>3, <1>13, <2>1, <2>2 DEF BatchIsNext
<1>14. rest \in SUBSET [log : LogType, hash : Nat]
  BY OneRunFacts
<1> HIDE DEF rest, l
<1>15. on \in RunType /\ on.at = "apply" /\ on.pending = rest /\ on.state = next
       /\ on.safeHead = run[r].safeHead
  BY <1>6, <1>14, OneRunFacts DEF RunType
<1> HIDE DEF on
<1>16. ASSUME rest # {}
       PROVE  KnowsOK(on, chain, ledger', checkpoint', projection')
  BY <1>3, <1>9, <1>13, <1>15, <1>16, OneRunFacts DEF KnowsOK
<1>17. w \in RunType /\ KnowsOK(w, chain, ledger', checkpoint', projection')
  BY <1>15, <1>16, IdleRunOK, IdleKnows
<1> HIDE DEF w
<1> QED  BY <1>3, <1>6, <1>8, <1>9, <1>12, <1>17, OneRunTypes, OnlyRunSteps

(* A rewind leaves rows too deep to be replaced.                            *)
LEMMA RewindKeepsOneRun ==
  ASSUME OneRun, OneRunInv, NEW r \in Runs, Rewind(r)
  PROVE  OneRunInv'
<1> DEFINE from     == RewindFromBlock(run[r].seen.block)
           retained == {l \in ledger : l.block < from}
           replayed == Replayed(retained)
           rebuilt  == RebuiltCheckpoint(retained, replayed)
           w        == [run[r] EXCEPT !.at = "fetch", !.seen = rebuilt]
<1>1. /\ run[r].seen = checkpoint /\ checkpoint # None /\ checkpoint.hash # None
      /\ checkpoint \in CheckpointType
  BY OneRunFacts, OneRunTypes DEF Rewind, KnowsOK
<1>2. /\ ledger' = retained /\ projection' = replayed /\ checkpoint' = rebuilt
      /\ run' = [run EXCEPT ![r] = w] /\ UNCHANGED <<chain, forks, failures>>
  BY OneRunFacts DEF Rewind
<1>3. /\ Len(chain) \in Nat /\ Safe(chain) \in Int /\ Safe(chain) = Len(chain) - EVENT_SYNC_CONFIRMATIONS
      /\ TablesOK(chain, forks, ledger, checkpoint, projection)
      /\ ledger \in SUBSET LogType /\ EVENT_SYNC_REWIND_DEPTH \in Nat
  BY OneRunTypes, EnvAssumption DEF Safe
<1>4. /\ checkpoint.block \in EVENT_SYNC_START_BLOCK..Safe(chain) /\ checkpoint.block \in Nat
      /\ Safe(chain) \in Nat
  BY <1>1, <1>3, SyncConstants DEF TablesOK, CheckpointOK, CheckpointType
<1>5. \A l \in retained : l \in ledger /\ l.block < RewindFromBlock(checkpoint.block)
  BY <1>1
<1> HIDE DEF retained, from
<1>6. retained \subseteq SafeLogs(chain)
  <2>1. \A l \in ledger \ SafeLogs(chain) : l.block >= RewindFromBlock(checkpoint.block)
    BY <1>3 DEF TablesOK, GivenAway
  <2>2. RewindFromBlock(checkpoint.block) \in Int
    BY <1>3, <1>4, SyncConstants DEF RewindFromBlock
  <2> QED  BY <1>3, <1>5, <2>1, <2>2 DEF LogType
<1>7. \A l \in retained : /\ l.block \in EVENT_SYNC_START_BLOCK..Safe(chain) /\ l.block \in Nat
                          /\ l.block <= Safe(chain) /\ l.block >= EVENT_SYNC_START_BLOCK
  BY <1>3, <1>5, SyncConstants DEF TablesOK, RowsInPlace, LogType
<1>8. PICK n \in Nat : \A l \in ledger : l.logIndex <= n
  BY <1>3 DEF TablesOK, RowsInPlace
<1>9. retained \in SUBSET LogType /\ \A l \in retained : l.logIndex <= n
  BY <1>3, <1>5, <1>8
<1>10. replayed \in ProjectionType
  BY <1>4, <1>7, <1>9, ReplayedType
<1>11. /\ LastBlock(retained) \in Nat /\ LastBlock(retained) >= EVENT_SYNC_START_BLOCK - 1
       /\ \A l \in retained : l.block <= LastBlock(retained)
  BY <1>4, <1>7, <1>9, LastBlockIs
<1>12. PauseFollows(replayed, retained)
  BY DEF PauseFollows, Replayed
<1> HIDE DEF replayed
<1>13. /\ rebuilt \in CheckpointType /\ rebuilt.block = LastBlock(retained)
       /\ rebuilt.hash = None /\ rebuilt.logIndex = None /\ rebuilt.cursorState = replayed
  BY <1>10, <1>11 DEF RebuiltCheckpoint, NewCheckpoint, CheckpointType
<1> HIDE DEF rebuilt
<1>14. rebuilt # None
  BY <1>13, NullAssumption
<1>15. TablesOK(chain, forks, retained, rebuilt, replayed)
  <2>1. CheckpointOK(rebuilt, chain, forks)
    BY <1>11, <1>13 DEF CheckpointOK
  <2>2. \A l \in retained : Reached(l, rebuilt)
    BY <1>7, <1>11, <1>13 DEF Reached
  <2>3. RowsInPlace(retained, rebuilt, chain)
    <3>1. \A l, m \in retained : l.block = m.block /\ l.logIndex = m.logIndex => l = m
      BY <1>3, <1>5 DEF TablesOK, RowsInPlace
    <3> QED  BY <1>7, <1>9, <2>2, <3>1 DEF RowsInPlace
  <2>4. ASSUME NEW l \in retained
        PROVE  l.block + EVENT_SYNC_CONFIRMATIONS + EVENT_SYNC_REWIND_DEPTH + 1 <= Len(chain)
    BY <1>3, <1>4, <1>5, <1>7, SyncConstants DEF RewindFromBlock
  <2>5. GivenAway(retained, rebuilt, chain)
    BY <1>6, <2>4 DEF GivenAway
  <2> QED  BY <1>3, <1>12, <1>13, <1>14, <2>1, <2>3, <2>5 DEF TablesOK
<1>16. w \in RunType /\ w.at = "fetch" /\ w.seen = rebuilt /\ w.safeHead = run[r].safeHead
  BY <1>13, OneRunFacts DEF RunType
<1> HIDE DEF w
<1>17. KnowsOK(w, chain, retained, rebuilt, replayed)
  BY <1>6, <1>16, OneRunFacts DEF KnowsOK
<1> QED  BY <1>2, <1>9, <1>10, <1>13, <1>15, <1>16, <1>17, OneRunTypes, OnlyRunSteps

LEMMA AdvanceCheckpointKeepsOneRun ==
  ASSUME OneRun, OneRunInv, NEW r \in Runs, AdvanceCheckpoint(r)
  PROVE  OneRunInv'
<1> DEFINE to == run[r].toBlock
<1>1. /\ to \in EVENT_SYNC_START_BLOCK..Safe(chain) /\ to \in Nat
      /\ run[r].blockHash = chain[to].fork
      /\ ledger \subseteq SafeLogs(chain) /\ \A l \in ledger : l.block <= to
  BY OneRunFacts DEF AdvanceCheckpoint, KnowsOK
<1>2. /\ chain \in Seq(BlockType) /\ Len(chain) \in Nat /\ Safe(chain) \in Int
      /\ TablesOK(chain, forks, ledger, checkpoint, projection)
      /\ ledger \in SUBSET LogType /\ projection \in ProjectionType
  BY OneRunTypes
<1>3. run[r].blockHash \in Nat /\ run[r].blockHash <= forks
  <2>1. to \in 1..Len(chain)
    BY <1>1, <1>2, SyncConstants DEF Safe
  <2> QED  BY <1>1, <1>2, <2>1, BlockFacts DEF TablesOK
<1>4. checkpoint' = NewCheckpoint(to, run[r].blockHash, None, projection)
  BY <1>2 DEF AdvanceCheckpoint, TablesOK
<1>5. /\ checkpoint' \in CheckpointType /\ checkpoint'.cursorState = projection
      /\ checkpoint'.block = to /\ checkpoint'.hash = run[r].blockHash
      /\ checkpoint'.logIndex = None
  BY <1>1, <1>2, <1>3, <1>4 DEF NewCheckpoint, CheckpointType
<1>6. run[r].blockHash # None /\ checkpoint' # None
  BY <1>3, <1>5, SyncConstants, NullAssumption
<1>7. run' = [run EXCEPT ![r] = IdleRun] /\ UNCHANGED <<chain, forks, ledger, projection, failures>>
  BY DEF AdvanceCheckpoint
<1> HIDE DEF to
<1>8. TablesOK(chain, forks, ledger', checkpoint', projection')
  <2>1. CheckpointOK(checkpoint', chain, forks)
    BY <1>1, <1>2, <1>3, <1>5, SyncConstants DEF CheckpointOK
  <2>2. RowsInPlace(ledger, checkpoint', chain)
    <3>1. \A l \in ledger : Reached(l, checkpoint')
      BY <1>1, <1>2, <1>5 DEF Reached, LogType
    <3> QED  BY <1>2, <3>1 DEF TablesOK, RowsInPlace
  <2>3. GivenAway(ledger, checkpoint', chain)
    BY <1>1, <1>5, <1>6 DEF GivenAway
  <2> QED  BY <1>2, <1>5, <1>6, <1>7, <2>1, <2>2, <2>3 DEF TablesOK
<1> QED  BY <1>2, <1>5, <1>7, <1>8, OneRunTypes, OnlyRunSteps, IdleRunOK, IdleKnows

(* An error is recorded on a new checkpoint only while nothing is stored.   *)
LEMMA RecordErrorKeepsOneRun ==
  ASSUME OneRun, OneRunInv, NEW r \in Runs, RecordError(r), failures' \in Nat
  PROVE  OneRunInv'
<1>1. run' = [run EXCEPT ![r] = IdleRun] /\ UNCHANGED <<chain, forks, ledger, projection>>
  BY DEF RecordError
<1>2. CASE checkpoint # None
  BY <1>1, <1>2, IdleKeepsOneRun DEF RecordError, dbVars
<1>3. CASE checkpoint = None
  <2>1. ledger = {} /\ projection = NoProjection /\ TablesOK(chain, forks, ledger, checkpoint, projection)
    BY <1>3, OneRunTypes DEF TablesOK
  <2>2. checkpoint' = NewCheckpoint(EVENT_SYNC_START_BLOCK, None, 0, NoProjection)
    BY <1>3 DEF RecordError
  <2>3. /\ checkpoint' \in CheckpointType /\ checkpoint'.cursorState = NoProjection
        /\ checkpoint'.block = EVENT_SYNC_START_BLOCK /\ checkpoint'.hash = None
    BY <2>2, EmptyProjection, SyncConstants DEF NewCheckpoint, CheckpointType
  <2>4. CheckpointOK(checkpoint', chain, forks) /\ checkpoint' # None
    BY <2>3, SyncConstants, NullAssumption DEF CheckpointOK
  <2>5. RowsInPlace({}, checkpoint', chain) /\ GivenAway({}, checkpoint', chain)
    BY DEF RowsInPlace, GivenAway
  <2>6. TablesOK(chain, forks, ledger', checkpoint', projection')
    BY <1>1, <2>1, <2>3, <2>4, <2>5 DEF TablesOK
  <2> QED  BY <1>1, <2>3, <2>6, OneRunTypes, OnlyRunSteps, IdleRunOK, IdleKnows
<1> QED  BY <1>2, <1>3

-----------------------------------------------------------------------------
(* One run at a time: the invariant.                                       *)

LEMMA OneRunInit ==
  ASSUME Init
  PROVE  OneRunInv
<1>1. chain \in Seq(BlockType) /\ Len(chain) = 0
  BY EmptySeq DEF Init
<1>2. TypeOK
  BY <1>1, EmptyProjection, IdleRunOK DEF Init, TypeOK, BlockType
<1>3. Valid(chain)
  BY <1>1, LenProperties DEF Valid
<1>4. TablesOK(chain, forks, ledger, checkpoint, projection)
  <2>1. PauseFollows(NoProjection, {})
    BY DEF PauseFollows, NoProjection, LastTx
  <2> QED  BY <1>1, <2>1 DEF Init, TablesOK, RowsInPlace, GivenAway
<1> QED  BY <1>2, <1>3, <1>4, IdleKnows DEF Init, OneRunInv

LEMMA OneRunStep ==
  ASSUME OneRun, Tolerated, OneRunInv, Next
  PROVE  OneRunInv'
<1>1. CASE Mine
  BY <1>1, MineKeepsOneRun
<1>2. CASE Reorganise
  BY <1>2, ReorganiseKeepsOneRun
<1>3. ASSUME NEW r \in Runs, NothingToSync(r) \/ Crash(r)
      PROVE  OneRunInv'
  <2>1. /\ run' = [run EXCEPT ![r] = IdleRun] /\ failures' \in Nat
        /\ UNCHANGED <<chain, forks, dbVars>>
    BY <1>3, OneRunTypes DEF NothingToSync, Crash
  <2> QED  BY <2>1, IdleKeepsOneRun
<1>4. ASSUME NEW r \in Runs, FailBatch(r) \/ FailStore(r)
      PROVE  OneRunInv'
  <2>1. RecordError(r) /\ failures' \in Nat
    BY <1>4, OneRunTypes DEF FailBatch, FailStore
  <2> QED  BY <2>1, RecordErrorKeepsOneRun
<1>5. ASSUME NEW r \in Runs, RunStep(r)
      PROVE  OneRunInv'
  BY <1>3, <1>4, <1>5, ReadCheckpointKeepsOneRun, VerifyCheckpointKeepsOneRun,
     RewindKeepsOneRun, FetchLogsKeepsOneRun, LookUpLogKeepsOneRun, StoreLogKeepsOneRun,
     ReadEndBlockKeepsOneRun, AdvanceCheckpointKeepsOneRun DEF RunStep
<1> QED  BY <1>1, <1>2, <1>3, <1>4, <1>5, TriggerKeepsOneRun DEF Next

(* ProjectionsFollowLedger: with one run at a time and reorganisations no   *)
(* deeper than confirmations and rewind together reach, between runs, the   *)
(* next run finds every orphaned row and rewinds below all of them; and     *)
(* pause table, cursorState and ledger agree at every step, along the live  *)
(* path and the rewind's, wherever a run crashes or fails.                  *)
THEOREM SyncProjections ==
  ASSUME OneRun, Tolerated
  PROVE  Spec => []ProjectionsFollowLedger
<1>1. Init => OneRunInv
  BY OneRunInit
<1>2. OneRunInv /\ [Next]_vars => OneRunInv'
  BY OneRunStep DEF OneRunInv, TypeOK, vars, dbVars
<1>3. OneRunInv => ProjectionsFollowLedger
  <2> SUFFICES ASSUME OneRunInv
               PROVE  OrphansAreRewound /\ CursorStateFollowsProjection /\ PauseStateFollowsLedger
    BY DEF ProjectionsFollowLedger
  <2>1. TablesOK(chain, forks, ledger, checkpoint, projection)
    BY OneRunTypes
  <2>2. PauseStateFollowsLedger
    BY <2>1 DEF TablesOK, PauseFollows, PauseStateFollowsLedger, PauseRows
  <2>3. CursorStateFollowsProjection
    BY <2>1 DEF TablesOK, CursorStateFollowsProjection
  <2>4. SafeLogs(chain) \subseteq CanonicalLogs
    <3>1. ASSUME NEW b \in EVENT_SYNC_START_BLOCK..Safe(chain), NEW i \in DOMAIN chain[b].txs
          PROVE  LogAt(chain, b, i) \in CanonicalLogs
      <4>1. b \in 1..HeadBlock
        BY OneRunTypes, SyncConstants DEF Safe
      <4> QED  BY <4>1 DEF CanonicalLogs, ChainLogs, BlockLogs, LogAt
    <3> QED  BY <3>1 DEF SafeLogs
  <2>5. \A l \in Orphans : l \in ledger \ SafeLogs(chain)
    BY <2>4 DEF Orphans
  <2>6. OrphansAreRewound
    BY <2>1, <2>5 DEF TablesOK, GivenAway, OrphansAreRewound, HashMismatch
  <2> QED  BY <2>2, <2>3, <2>6
<1> QED  BY <1>1, <1>2, <1>3, PTL DEF Spec

(* Without rewinds the recipients follow the ledger as well: what breaks    *)
(* them is only that a rewind reads the ledger back under other keys.       *)
RecipientFollows(proj, led) ==
  \A k \in ProjectKeys :
    proj.recipient[k] = LastTx({l \in led : l.tx \in RecipientTxs /\ LiveKey(l.tx) = k})

LEMMA RecipientMoves ==
  ASSUME NEW led \in SUBSET LogType, NEW l \in LogType, \A m \in led : Before(m, l),
         NEW proj \in ProjectionType, RecipientFollows(proj, led)
  PROVE  RecipientFollows(Project(proj, l.tx, LiveKey(l.tx)), led \cup {l})
<1> DEFINE next == Project(proj, l.tx, LiveKey(l.tx))
           Rows(s, k) == {m \in s : m.tx \in RecipientTxs /\ LiveKey(m.tx) = k}
<1>1. l.tx \in Txs
  BY DEF LogType
<1>2. ASSUME NEW k \in ProjectKeys, l.tx \in RecipientTxs /\ LiveKey(l.tx) = k
      PROVE  next.recipient[k] = LastTx(Rows(led \cup {l}, k))
  <2>1. Rows(led \cup {l}, k) = Rows(led, k) \cup {l}
    BY <1>2
  <2>2. LastTx(Rows(led, k) \cup {l}) = l.tx
    BY LastTxIsNew
  <2>3. next.recipient[k] = l.tx
    BY <1>2 DEF Project, ProjectionType, RecipientTxs
  <2> QED  BY <2>1, <2>2, <2>3
<1>3. ASSUME NEW k \in ProjectKeys, ~(l.tx \in RecipientTxs /\ LiveKey(l.tx) = k)
      PROVE  next.recipient[k] = LastTx(Rows(led \cup {l}, k))
  <2>1. Rows(led \cup {l}, k) = Rows(led, k)
    BY <1>3
  <2>2. next.recipient[k] = proj.recipient[k]
    BY <1>1, <1>3 DEF Project, ProjectionType, RecipientTxs
  <2> QED  BY <2>1, <2>2 DEF RecipientFollows
<1> QED  BY <1>2, <1>3 DEF RecipientFollows

LEMMA RecipientStep ==
  ASSUME OneRun, OneRunInv, SyncInv, RecipientFollows(projection, ledger), [Next]_vars
  PROVE  RecipientFollows(projection', ledger')
<1>1. ASSUME NEW r \in Runs, StoreLog(r)
      PROVE  RecipientFollows(projection', ledger')
  <2> DEFINE l == NextEntry(r).log
  <2>1. run[r].at = "store" /\ run[r].shouldApply /\ run[r].state = projection
    BY <1>1, OneRunFacts DEF StoreLog, KnowsOK
  <2>2. l \in LogType /\ \A m \in ledger : Before(m, l) /\ ~SameKey(l, m)
    BY <2>1, NextIsNew
  <2>3. ledger' = ledger \cup {l} /\ projection' = Project(projection, l.tx, LiveKey(l.tx))
    BY <1>1, <2>1, <2>2 DEF StoreLog
  <2> HIDE DEF l
  <2> QED  BY <2>2, <2>3, RecipientMoves, OneRunTypes
<1>2. ASSUME NEW r \in Runs, Rewind(r)
      PROVE  FALSE
  BY <1>2 DEF Rewind, SyncInv, RunOK
<1>3. ASSUME UNCHANGED <<ledger, projection>>
      PROVE  RecipientFollows(projection', ledger')
  BY <1>3
<1>4. ASSUME NEW r \in Runs, RunStep(r)
      PROVE  UNCHANGED <<ledger, projection>> \/ StoreLog(r) \/ Rewind(r)
  BY <1>4 DEF RunStep, ReadCheckpoint, VerifyCheckpoint, NothingToSync, FetchLogs, LookUpLog,
     ReadEndBlock, AdvanceCheckpoint, FailStore, RecordError, dbVars
<1>5. ASSUME NEW r \in Runs, Trigger(r) \/ Crash(r) \/ FailBatch(r)
      PROVE  UNCHANGED <<ledger, projection>>
  BY <1>5 DEF Trigger, Crash, FailBatch, RecordError, dbVars
<1>6. Mine \/ Reorganise \/ UNCHANGED vars => UNCHANGED <<ledger, projection>>
  BY DEF Mine, Reorganise, vars, dbVars
<1> QED  BY <1>1, <1>2, <1>3, <1>4, <1>5, <1>6 DEF Next

(* RecipientsFollowLedger: one run at a time, no reorganisation below the   *)
(* confirmations and none during a run, and the table of alternative        *)
(* recipients holds under every key what the last event of the ledger about *)
(* it says; the counterexample of the docs' claim needs a rewind.           *)
THEOREM SyncRecipients ==
  ASSUME OneRun, Tolerated, Shallow
  PROVE  Spec => []RecipientsFollowLedger
<1> DEFINE Inv == OneRunInv /\ SyncInv /\ RecipientFollows(projection, ledger)
<1>1. Init => Inv
  <2>1. RecipientFollows(NoProjection, {})
    BY DEF RecipientFollows, NoProjection, LastTx
  <2> QED  BY <2>1, OneRunInit, SyncInit DEF Init
<1>2. Inv /\ [Next]_vars => Inv'
  <2>1. Inv /\ Next => OneRunInv' /\ SyncInv'
    BY OneRunStep, SyncStep
  <2>2. Inv /\ UNCHANGED vars => OneRunInv' /\ SyncInv'
    BY SyncStutter DEF OneRunInv, TypeOK, vars, dbVars
  <2> QED  BY <2>1, <2>2, RecipientStep
<1>3. Inv => RecipientsFollowLedger
  BY DEF RecipientFollows, RecipientsFollowLedger
<1> QED  BY <1>1, <1>2, <1>3, PTL DEF Spec
=============================================================================
