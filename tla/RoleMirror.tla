----------------------------- MODULE RoleMirror -----------------------------
(***************************************************************************)
(* The roles of the registry as event sync records them and as the role    *)
(* governance page reads them.  The contract emits an event for every      *)
(* change of membership and for every change of the threshold but one; the *)
(* sync replays them into a membership row per role and account and one    *)
(* row with the arbitrators' count and threshold.  Runs overlap, crash,    *)
(* and rebuild the rows from their own log after a reorganisation.         *)
(***************************************************************************)
EXTENDS ArbitratorMultisig, Sequences

CONSTANTS
  Runs,              \* sync runs that may overlap
  MaxEvents,         \* bound: role events
  Rewinds            \* bound: reorganisations

RoleMirrorAssumption == MaxEvents \in Nat /\ Rewinds \in Nat

VARIABLES
  events,       \* the registry's role events, in order
  stored,       \* the events (their positions) that are in transactionLog
  checkpoint,   \* position of the last processed event
  memberRow,    \* roleMembershipState: isActive, or NoRow
  councilRow,   \* arbitratorGovernanceState; count NoRow before it exists
  run,          \* per run: phase, position, end of its range, what it read
  rewinds

syncVars == <<stored, checkpoint, memberRow, councilRow, rewinds>>
roleMirrorVars == <<multisigVars, events, syncVars, run>>

NoRow == "none"
Active == "active"
Inactive == "inactive"

NoRows == [r \in Roles |-> [a \in Accounts |-> NoRow]]
NoCouncil == [exists |-> FALSE, count |-> 0, threshold |-> {}]
Idle == [phase |-> "idle", at |-> 0, end |-> 0, seen |-> FALSE, was |-> NoRow]

Granted(role, a) == [name |-> "RoleGranted", role |-> role, account |-> a]
Revoked(role, a) == [name |-> "RoleRevoked", role |-> role, account |-> a]
ThresholdUpdated(n) == [name |-> "ArbitratorThresholdUpdated", threshold |-> n]

MirrorInit ==
  /\ MultisigInit
  /\ events = <<Granted(DEFAULT_ADMIN_ROLE, Deployer), Granted(PAUSER_ROLE, Deployer)>>
  /\ stored = {} /\ checkpoint = 0 /\ rewinds = 0
  /\ memberRow = NoRows /\ councilRow = NoCouncil
  /\ run = [r \in Runs |-> Idle]

-----------------------------------------------------------------------------
(* The contract's side: what a change of the roles emits.                  *)

(* Mutant: a revocation that lowers the threshold does not say so. *)
Emitted_SilentNormalisation(role, a) ==
  CASE a \in members'[role] \ members[role] -> <<Granted(role, a)>>
    [] a \in members[role] \ members'[role] -> <<Revoked(role, a)>>
    [] OTHER -> <<>>

(* A grant that sets the threshold to one (the first arbitrator's) emits    *)
(* nothing for it; a departure announces the threshold it lowers.           *)
Emitted(role, a) ==
  CASE a \in members'[role] \ members[role] -> <<Granted(role, a)>>
    [] a \in members[role] \ members'[role] ->
         <<Revoked(role, a)>> \o
           IF arbitratorThreshold' # arbitratorThreshold
             THEN <<ThresholdUpdated(arbitratorThreshold')>> ELSE <<>>
    [] OTHER -> <<>>

ChangeRoles ==
  /\ \/ \E c \in Accounts, ra \in RoleChanges :
          /\ \/ GrantRole(c, ra[1], ra[2])
             \/ RevokeRole(c, ra[1], ra[2])
             \/ c = ra[2] /\ RenounceRole(c, ra[1])
          /\ events' = events \o Emitted(ra[1], ra[2])
     \/ \E c \in Accounts, n \in 1..Cardinality(Accounts) :
          /\ SetArbitratorThreshold(c, n)
          /\ events' = Append(events, ThresholdUpdated(n))
  /\ Len(events') <= MaxEvents
  /\ UNCHANGED <<syncVars, run>>

-----------------------------------------------------------------------------
(* What an event does to the rows.                                         *)

(* Mutant: a grant counts only if the account never had a row. *)
CouncilAfter_FirstGrantOnly(council, e, was) ==
  IF e.name = "ArbitratorThresholdUpdated"
    THEN [council EXCEPT !.exists = TRUE, !.threshold = {e.threshold}]
  ELSE IF e.role # ARBITRATOR_ROLE \/ (e.name = "RoleGranted" /\ was # NoRow) THEN council
  ELSE [council EXCEPT !.exists = TRUE,
          !.count = IF e.name = "RoleGranted" THEN @ + 1 ELSE IF @ = 0 THEN 0 ELSE @ - 1]

IsActive(e) == IF e.name = "RoleGranted" THEN Active ELSE Inactive

(* syncRoleAndArbitratorGovernanceState: the membership is set; the count   *)
(* moves only if the membership the run had read was another.               *)
MembersAfter(rows, e) ==
  IF e.name = "ArbitratorThresholdUpdated" THEN rows
  ELSE [rows EXCEPT ![e.role][e.account] = IsActive(e)]

CouncilAfter(council, e, was) ==
  IF e.name = "ArbitratorThresholdUpdated"
    THEN [council EXCEPT !.exists = TRUE, !.threshold = {e.threshold}]
  ELSE IF e.role = ARBITRATOR_ROLE /\ was # IsActive(e)
    THEN [council EXCEPT !.exists = TRUE,
            !.count = IF e.name = "RoleGranted" THEN @ + 1
                      ELSE IF @ = 0 THEN 0 ELSE @ - 1]
  ELSE council

MembershipRead(rows, e) ==
  IF e.name = "ArbitratorThresholdUpdated" THEN NoRow ELSE rows[e.role][e.account]

-----------------------------------------------------------------------------
(* A run of the sync: it takes the events after the checkpoint and handles  *)
(* each in a transaction that reads before it writes and locks nothing.     *)

StartRun(r) ==
  /\ run[r].phase = "idle" /\ checkpoint < Len(events)
  /\ run' = [run EXCEPT ![r] = [Idle EXCEPT !.phase = "look", !.at = checkpoint + 1,
                                            !.end = Len(events)]]
  /\ UNCHANGED <<multisigVars, events, syncVars>>

LookUpLog(r) ==
  /\ run[r].phase = "look"
  /\ run' = [run EXCEPT ![r].phase = "read", ![r].seen = run[r].at \in stored]
  /\ UNCHANGED <<multisigVars, events, syncVars>>

ReadMembership(r) ==
  /\ run[r].phase = "read"
  /\ run' = [run EXCEPT ![r].phase = "write",
                        ![r].was = MembershipRead(memberRow, events[run[r].at])]
  /\ UNCHANGED <<multisigVars, events, syncVars>>

WriteRows(r) ==
  /\ run[r].phase = "write"
  /\ LET e == events[run[r].at] IN
     IF run[r].seen THEN UNCHANGED <<memberRow, councilRow>>
     ELSE /\ memberRow' = MembersAfter(memberRow, e)
          /\ councilRow' = CouncilAfter(councilRow, e, run[r].was)
  /\ stored' = stored \cup {run[r].at}
  /\ checkpoint' = run[r].at
  /\ run' = [run EXCEPT ![r] =
       IF @.at = @.end THEN Idle ELSE [@ EXCEPT !.phase = "look", !.at = @ + 1]]
  /\ UNCHANGED <<multisigVars, events, rewinds>>

Crash(r) ==
  /\ run[r].phase # "idle"
  /\ run' = [run EXCEPT ![r] = Idle]
  /\ UNCHANGED <<multisigVars, events, syncVars>>

(* The log keeps numbers as strings, and asBigInt reads a string as zero.   *)
FromLog(e) ==
  IF e.name = "ArbitratorThresholdUpdated" THEN [e EXCEPT !.threshold = 0] ELSE e

Replay(rows, n) ==
  LET after[k \in 0..n] ==
        IF k = 0 THEN [members |-> rows, council |-> NoCouncil]
        ELSE LET e == FromLog(events[k]) IN
             [members |-> MembersAfter(after[k - 1].members, e),
              council |-> CouncilAfter(after[k - 1].council, e,
                                       MembershipRead(after[k - 1].members, e))]
  IN  after[n]

(* Mutants: the last log that is kept is not replayed; the count is not     *)
(* cleared.                                                                *)
Rebuilt_MissesLast(n) == Replay(NoRows, IF n = 0 THEN 0 ELSE n - 1)

(* Every table is cleared and rebuilt from the logs that are kept. *)
Rebuilt(n) == Replay(NoRows, n)

(* A reorganisation put the events after the n-th into other blocks: the    *)
(* next run finds out, deletes their logs and rebuilds the rows.            *)
Rewind ==
  /\ rewinds < Rewinds /\ \A r \in Runs : run[r].phase = "idle"
  /\ \E n \in 0..(checkpoint - 1) :
       /\ memberRow' = Rebuilt(n).members
       /\ councilRow' = Rebuilt(n).council
       /\ stored' = 1..n
       /\ checkpoint' = n
  /\ rewinds' = rewinds + 1
  /\ UNCHANGED <<multisigVars, events, run>>

RunStep(r) == StartRun(r) \/ LookUpLog(r) \/ ReadMembership(r) \/ WriteRows(r)

MirrorNext == ChangeRoles \/ Rewind \/ \E r \in Runs : RunStep(r) \/ Crash(r)

MirrorSpec == MirrorInit /\ [][MirrorNext]_roleMirrorVars

-----------------------------------------------------------------------------
(* What GET /admin/role-governance-state answers.                          *)

Memberships(role) == {a \in Accounts : memberRow[role][a] = Active}

Arbitrator ==
  [count |-> IF councilRow.exists THEN councilRow.count
             ELSE Cardinality(Memberships(ARBITRATOR_ROLE)),
   threshold |-> councilRow.threshold]

-----------------------------------------------------------------------------
(* Properties.                                                             *)

CaughtUp == stored = DOMAIN events

(* Once every event is stored the page lists exactly the contract's role    *)
(* members, whatever was granted, revoked and renounced, and also after     *)
(* crashes and reorganisations.                                             *)
MembersMirrored == CaughtUp => \A role \in Roles : Memberships(role) = members[role]

(* The arbitrators' count, kept by increments beside the membership rows,   *)
(* is the number of active arbitrator rows at every moment.                 *)
CountMirrorsRows == Arbitrator.count = Cardinality(Memberships(ARBITRATOR_ROLE))

(* Once every event is stored the threshold shown is the contract's, or     *)
(* unknown while it still is the one that no event announces.               *)
ThresholdMirrored ==
  CaughtUp => \/ Arbitrator.threshold = {arbitratorThreshold}
              \/ Arbitrator.threshold = {} /\ arbitratorThreshold = 1
=============================================================================
