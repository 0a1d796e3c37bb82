-------------------------- MODULE TokenGovernance --------------------------
(***************************************************************************)
(* The governance of one token and what an administrator is shown of it.   *)
(* Admins attest the token's review and put it on the allowlist, from the  *)
(* panel or elsewhere; event sync brings the events into a row, some       *)
(* blocks late; the panel polls how far event sync has come, tells the     *)
(* administrator what stage the transaction is at, and reads the row.      *)
(***************************************************************************)
EXTENDS Naturals, Sequences, FiniteSets

CONSTANTS
  CONFIRMATIONS,     \* EVENT_SYNC_CONFIRMATIONS
  TIMEOUT,           \* timeoutMs of the notice, in ticks of the clock
  MaxHead,           \* bound: blocks mined
  MaxEvents          \* bound: governance events

TokenGovernanceAssumption ==
  /\ {CONFIRMATIONS, TIMEOUT, MaxEvents} \subseteq Nat /\ MaxHead \in Nat

Governance == {"attest", "allow", "disallow"}
Stages == {"idle", "tx_confirmed", "waiting_sync", "db_updated", "ui_refreshed",
           "timeout"}

VARIABLES
  head,         \* the chain's latest block
  log,          \* the registry's events: what and in which block
  token,        \* the contract's own state: reviewed, allowed
  applied,      \* how many events event sync has applied
  checkpoint,   \* its lastProcessedBlock, 0 for none
  row,          \* tokenGovernanceState
  polled,       \* the last answer of the status route
  notice,       \* useSyncReconciliation: stage, targetBlock and time since startedAt
  panel         \* what its handler does next, and the row it shows

chainVars == <<head, log, token>>
syncVars == <<applied, checkpoint, row>>
browserVars == <<polled, notice, panel>>
tokenGovernanceVars == <<chainVars, syncVars, browserVars>>

Unreviewed == [reviewed |-> FALSE, allowed |-> FALSE]

Init ==
  /\ head = 1 /\ log = <<>> /\ token = Unreviewed
  /\ applied = 0 /\ checkpoint = 0 /\ row = Unreviewed
  /\ polled = [block |-> 0, head |-> 1, behind |-> TRUE]
  /\ notice = [stage |-> "idle", target |-> 0, elapsed |-> 0]
  /\ panel = [at |-> "ready", block |-> 0, shown |-> Unreviewed]

-----------------------------------------------------------------------------
(* The contract.                                                           *)

Permitted(state, what) == what = "allow" => state.reviewed

Governed(state, what) ==
  IF what = "attest" THEN [state EXCEPT !.reviewed = TRUE]
                     ELSE [state EXCEPT !.allowed = (what = "allow")]

(* A block with these calls in it. *)
MineCalls(calls) ==
  /\ head + CONFIRMATIONS < MaxHead /\ Len(log) + Len(calls) <= MaxEvents
  /\ Permitted(token, calls[1])
  /\ Len(calls) = 2 => Permitted(Governed(token, calls[1]), calls[2])
  /\ head' = head + 1
  /\ log' = log \o [k \in DOMAIN calls |-> [what |-> calls[k], block |-> head + 1]]
  /\ token' = IF Len(calls) = 1 THEN Governed(token, calls[1])
              ELSE Governed(Governed(token, calls[1]), calls[2])

MineElsewhere ==
  /\ \E what \in Governance : MineCalls(<<what>>)
  /\ UNCHANGED <<syncVars, browserVars>>

MineEmpty ==
  /\ head < MaxHead
  /\ head' = head + 1
  /\ UNCHANGED <<log, token, syncVars, browserVars>>

-----------------------------------------------------------------------------
(* Event sync: one event at a time, then the end of the range.             *)

SafeHead == IF head > CONFIRMATIONS THEN head - CONFIRMATIONS ELSE 0

(* Mutant: the update writes all the fields the creation does. *)
SyncedRow_AttestResets(what) ==
  IF what = "attest" THEN [reviewed |-> TRUE, allowed |-> FALSE]
                     ELSE [row EXCEPT !.allowed = (what = "allow")]
SyncedRow(what) ==
  IF what = "attest" THEN [row EXCEPT !.reviewed = TRUE]
                     ELSE [row EXCEPT !.allowed = (what = "allow")]

SyncTokenGovernanceState ==
  /\ applied < Len(log) /\ log[applied + 1].block <= SafeHead
  /\ row' = SyncedRow(log[applied + 1].what)
  /\ applied' = applied + 1
  /\ checkpoint' = log[applied + 1].block
  /\ UNCHANGED <<chainVars, browserVars>>

FinishRange ==
  /\ \A k \in DOMAIN log : log[k].block <= SafeHead => k <= applied
  /\ checkpoint < SafeHead
  /\ checkpoint' = SafeHead
  /\ UNCHANGED <<chainVars, applied, row, browserVars>>

-----------------------------------------------------------------------------
(* The notice.                                                             *)

(* Mutants: reports the chain's block; once late, always late.             *)
Answer_Latest == [block |-> head, head |-> head, behind |-> FALSE]
Stage_TimeoutStays(n, synced) ==
  IF n.stage = "timeout" THEN "timeout"
  ELSE IF synced # 0 /\ synced >= n.target
         THEN IF n.stage = "ui_refreshed" THEN "ui_refreshed" ELSE "db_updated"
         ELSE IF n.elapsed > TIMEOUT THEN "timeout" ELSE "waiting_sync"

(* What GET /sync/status says. *)
Answer ==
  [block |-> checkpoint, head |-> head, behind |-> checkpoint = 0 \/ head > checkpoint]

(* What the effect makes of the stage. *)
Stage(n, synced) ==
  IF synced # 0 /\ synced >= n.target
    THEN IF n.stage = "ui_refreshed" THEN "ui_refreshed" ELSE "db_updated"
    ELSE IF n.elapsed > TIMEOUT THEN "timeout" ELSE "waiting_sync"

(* The effect depends on the synced block: an answer that repeats it does   *)
(* not run the effect.                                                     *)
Poll ==
  /\ polled' = Answer
  /\ notice' = IF notice.target # 0 /\ Answer.block # polled.block
                 THEN [notice EXCEPT !.stage = Stage(notice, Answer.block)]
                 ELSE notice
  /\ UNCHANGED <<chainVars, syncVars, panel>>

Tick ==
  /\ notice.target # 0 /\ notice.elapsed <= TIMEOUT
  /\ notice' = [notice EXCEPT !.elapsed = @ + 1]
  /\ UNCHANGED <<chainVars, syncVars, polled, panel>>

Behind == notice.stage \in {"idle", "ui_refreshed"} /\ polled.behind

-----------------------------------------------------------------------------
(* The panel's handlers.                                                   *)

(* attestToken and setAllowed: the transaction is mined, beside another one. *)
Write ==
  /\ panel.at = "ready"
  /\ \E mine \in Governance, other \in Governance :
       \E calls \in {<<mine>>, <<other, mine>>, <<mine, other>>} : MineCalls(calls)
  /\ panel' = [panel EXCEPT !.at = "mined", !.block = head + 1]
  /\ UNCHANGED <<syncVars, polled, notice>>

(* onTxConfirmed, and the effect that its new target runs *)
OnTxConfirmed ==
  /\ panel.at = "mined"
  /\ LET asked == [stage |-> "tx_confirmed", target |-> panel.block, elapsed |-> 0]
     IN  notice' = [asked EXCEPT !.stage = Stage(asked, polled.block)]
  /\ panel' = [panel EXCEPT !.at = "refresh"]
  /\ UNCHANGED <<chainVars, syncVars, polled>>

RefreshIndexedState ==
  /\ panel.at = "refresh"
  /\ panel' = [panel EXCEPT !.at = "refreshed", !.shown = row]
  /\ UNCHANGED <<chainVars, syncVars, polled, notice>>

MarkUiRefreshed ==
  /\ panel.at = "refreshed"
  /\ notice' = [notice EXCEPT !.stage = "ui_refreshed"]
  /\ panel' = [panel EXCEPT !.at = "ready"]
  /\ UNCHANGED <<chainVars, syncVars, polled>>

Synchronise == SyncTokenGovernanceState \/ FinishRange
Handle == OnTxConfirmed \/ RefreshIndexedState \/ MarkUiRefreshed

Next == MineElsewhere \/ MineEmpty \/ Synchronise \/ Poll \/ Tick \/ Write \/ Handle

Spec == Init /\ [][Next]_tokenGovernanceVars

(* The browser polls and its handlers run on; time passes. *)
BrowserFairness ==
  WF_tokenGovernanceVars(Poll) /\ WF_tokenGovernanceVars(Tick)
    /\ WF_tokenGovernanceVars(Handle)

BrowserSpec == Spec /\ BrowserFairness

(* Blocks are mined and event sync is triggered again and again. *)
FairSpec ==
  BrowserSpec /\ WF_tokenGovernanceVars(MineEmpty) /\ WF_tokenGovernanceVars(Synchronise)

-----------------------------------------------------------------------------
(* Properties.                                                             *)

(* Types, and the checkpoint never runs ahead of the confirmed blocks.     *)
TypeOK ==
  /\ head \in 1..MaxHead /\ applied \in 0..Len(log)
  /\ log \in Seq([what : Governance, block : 2..MaxHead])
  /\ token \in [reviewed : BOOLEAN, allowed : BOOLEAN]
  /\ row \in [reviewed : BOOLEAN, allowed : BOOLEAN]
  /\ checkpoint = 0 \/ checkpoint + CONFIRMATIONS <= head
  /\ polled \in [block : 0..MaxHead, head : 1..MaxHead, behind : BOOLEAN]
  /\ notice \in [stage : Stages, target : 0..MaxHead, elapsed : 0..(TIMEOUT + 1)]
  /\ panel \in [at : {"ready", "mined", "refresh", "refreshed"}, block : 0..MaxHead,
                shown : [reviewed : BOOLEAN, allowed : BOOLEAN]]

(* Once every event is applied the row is what the contract says, whatever  *)
(* the order and the mix of attestations and allowlistings.                *)
RowMirrorsContract == applied = Len(log) => row = token

(* "Indexer caught up" is true at least of the blocks before the one with   *)
(* the transaction, whichever answers the panel got late.                  *)
CaughtUpBeforeTarget ==
  notice.stage = "db_updated" =>
    \A k \in DOMAIN log : log[k].block < notice.target => k <= applied

(* "Indexer caught up. Refreshing UI state...": the transaction's own event *)
(* and the others of its block are in the row by then.                     *)
CaughtUp ==
  notice.stage = "db_updated" =>
    \A k \in DOMAIN log : log[k].block <= notice.target => k <= applied

(* "Indexer is behind." is said only when blocks wait to be indexed.       *)
BehindMeansBehind ==
  Behind => polled.block = 0 \/ polled.block + CONFIRMATIONS < polled.head

(* While event sync runs, a panel that waits, or has given up waiting, is   *)
(* told at last that the database has caught up.                           *)
WaitingEnds ==
  notice.stage \in {"tx_confirmed", "waiting_sync", "timeout"}
    ~> notice.stage \in {"db_updated", "ui_refreshed"}

(* "Sync is taking longer than expected.": whoever waits is told the result *)
(* or that it is late, even if event sync has stopped.                     *)
LatenessIsTold ==
  notice.stage = "waiting_sync"
    ~> notice.stage \in {"timeout", "db_updated", "ui_refreshed"}

(* "Refreshing UI state...": a panel that says so comes to show the row.    *)
RefreshFollows == <>[](notice.stage = "db_updated" => panel.shown = row)
=============================================================================
