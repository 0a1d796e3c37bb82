---------------------------- MODULE ContractWatch ----------------------------
(***************************************************************************)
(* What the browser believes of the contract: the roles of the connected   *)
(* account (useContractRoles), whether the contract is paused              *)
(* (ContractPauseProvider, which asks every five seconds) and the answer   *)
(* of the role governance page's hasRole check.  Requests are answered by  *)
(* a node at one moment and reach the page at another, in any order.       *)
(***************************************************************************)
EXTENDS Naturals, FiniteSets

CONSTANTS
  Accounts,          \* the accounts the wallet can connect
  Roles,             \* the roles read
  Nobody,            \* no account is connected
  MaxChanges,        \* bound: changes of the contract
  MaxSwitches,       \* bound: account switches and changed selections
  MaxReads           \* bound: unanswered requests of a kind

ContractWatchAssumption ==
  /\ Nobody \notin Accounts /\ {MaxChanges, MaxSwitches, MaxReads} \subseteq Nat

VARIABLES
  paused, members,      \* the contract: its pause flag, its <<role, account>> pairs
  account,              \* the connected account
  effectDue,            \* the account changed and its effect has not run yet
  roles,                \* useContractRoles: held, whose, isLoading
  roleReads,            \* its requests
  pause,                \* the provider's paused and isLoading
  pauseReads,           \* its requests
  selection,            \* the page's selected <<role, account>>
  check, checkReads,    \* the answer it shows, and the requests
  changes, switches     \* what the bounds bound

chainVars == <<paused, members, changes>>
roleVars == <<account, effectDue, roles, roleReads>>
pauseVars == <<pause, pauseReads>>
checkVars == <<selection, check, checkReads>>
watchVars == <<chainVars, roleVars, pauseVars, checkVars, switches>>

Pairs == Roles \X Accounts
RolesOf(a) == {r \in Roles : <<r, a>> \in members}
(* A request: what it asks about, whether its asker still waits, and the    *)
(* node's answer; several may be under way, told apart by their number.     *)
Request(reads, asks) ==
  [id |-> CHOOSE n \in 1..MaxReads : \A q \in reads : q.id # n,
   asks |-> asks, active |-> TRUE, answered |-> FALSE, answer |-> {}]

Init ==
  /\ paused = FALSE /\ members \in SUBSET Pairs /\ changes = 0 /\ switches = 0
  /\ account = Nobody /\ effectDue = TRUE
  /\ roles = [held |-> {}, of |-> Nobody, isLoading |-> FALSE] /\ roleReads = {}
  /\ pause = [paused |-> FALSE, isLoading |-> TRUE] /\ pauseReads = {}
  /\ selection \in Pairs /\ check = [known |-> FALSE, of |-> selection, has |-> FALSE]
  /\ checkReads = {}

-----------------------------------------------------------------------------
(* The contract and the wallet.                                            *)

ChangeContract ==
  /\ changes < MaxChanges /\ changes' = changes + 1
  /\ \/ paused' = ~paused /\ UNCHANGED members
     \/ /\ \E p \in Pairs : members' = (members \ {p}) \cup ({p} \ members)
        /\ UNCHANGED paused
  /\ UNCHANGED <<roleVars, pauseVars, checkVars, switches>>

SwitchAccount ==
  /\ switches < MaxSwitches /\ switches' = switches + 1
  /\ account' \in (Accounts \cup {Nobody}) \ {account}
  /\ effectDue' = TRUE
  /\ UNCHANGED <<chainVars, roles, roleReads, pauseVars, checkVars>>

-----------------------------------------------------------------------------
(* useContractRoles: its effect starts a read when the account changes; the *)
(* clean-up of the effect before it makes older reads inactive.             *)

(* Mutant: the effect has no clean-up. *)
Deactivated_None(reads) == reads
Deactivated(reads) == {[q EXCEPT !.active = FALSE] : q \in reads}

RunRolesEffect ==
  /\ effectDue /\ effectDue' = FALSE
  /\ \/ /\ account = Nobody
        /\ roles' = [held |-> {}, of |-> Nobody, isLoading |-> FALSE]
        /\ roleReads' = Deactivated(roleReads)
     \/ /\ account # Nobody /\ Cardinality(roleReads) < MaxReads
        /\ roles' = [roles EXCEPT !.isLoading = TRUE]
        /\ roleReads' = Deactivated(roleReads) \cup {Request(roleReads, account)}
  /\ UNCHANGED <<chainVars, account, pauseVars, checkVars, switches>>

(* The node answers. *)
ServeRoles ==
  /\ \E q \in roleReads :
       /\ ~q.answered
       /\ roleReads' = (roleReads \ {q})
            \cup {[q EXCEPT !.answered = TRUE, !.answer = RolesOf(q.asks)]}
  /\ UNCHANGED <<chainVars, account, effectDue, roles, pauseVars, checkVars, switches>>

(* An inactive read changes nothing; a failed one leaves no role.           *)
RolesArrive ==
  /\ \E q \in roleReads :
       /\ roleReads' = roleReads \ {q}
       /\ \/ ~q.active /\ UNCHANGED roles
          \/ /\ q.active /\ q.answered
             /\ roles' = [held |-> q.answer, of |-> q.asks, isLoading |-> FALSE]
          \/ /\ q.active /\ ~q.answered
             /\ roles' = [held |-> {}, of |-> q.asks, isLoading |-> FALSE]
  /\ UNCHANGED <<chainVars, account, effectDue, pauseVars, checkVars, switches>>

-----------------------------------------------------------------------------
(* ContractPauseProvider.                                                  *)

(* A request when the page opens and one on each tick of the interval.      *)
RefreshPaused ==
  /\ Cardinality(pauseReads) < MaxReads
  /\ pause' = [pause EXCEPT !.isLoading = TRUE]
  /\ pauseReads' = pauseReads \cup {Request(pauseReads, Nobody)}
  /\ UNCHANGED <<chainVars, roleVars, checkVars, switches>>

ServePaused ==
  /\ \E q \in pauseReads :
       /\ ~q.answered
       /\ pauseReads' = (pauseReads \ {q})
            \cup {[q EXCEPT !.answered = TRUE, !.answer = {paused}]}
  /\ UNCHANGED <<chainVars, roleVars, pause, checkVars, switches>>

(* Mutant: only a pause is taken over, not its end. *)
PauseAfter_Sticky(view, q) ==
  [paused |-> view.paused \/ TRUE \in q.answer, isLoading |-> FALSE]

(* What the page keeps of an answer, or of a failure.                       *)
PauseAfter(view, q) ==
  [paused |-> IF q.answered THEN TRUE \in q.answer ELSE view.paused, isLoading |-> FALSE]

PausedArrives ==
  /\ \E q \in pauseReads :
       /\ q.answered
       /\ pauseReads' = pauseReads \ {q} /\ pause' = PauseAfter(pause, q)
  /\ UNCHANGED <<chainVars, roleVars, checkVars, switches>>

PausedFails ==
  /\ \E q \in pauseReads :
       /\ ~q.answered
       /\ pauseReads' = pauseReads \ {q} /\ pause' = PauseAfter(pause, q)
  /\ UNCHANGED <<chainVars, roleVars, checkVars, switches>>

Banner == pause.paused /\ ~pause.isLoading

-----------------------------------------------------------------------------
(* The hasRole check of the role governance page.                          *)

Select ==
  /\ switches < MaxSwitches /\ switches' = switches + 1
  /\ selection' \in Pairs \ {selection}
  /\ UNCHANGED <<chainVars, roleVars, pauseVars, check, checkReads>>

RefreshRoleCheck ==
  /\ Cardinality(checkReads) < MaxReads
  /\ checkReads' = checkReads \cup {Request(checkReads, selection)}
  /\ UNCHANGED <<chainVars, roleVars, pauseVars, selection, check, switches>>

ServeCheck ==
  /\ \E q \in checkReads :
       /\ ~q.answered
       /\ checkReads' = (checkReads \ {q})
            \cup {[q EXCEPT !.answered = TRUE, !.answer = {q.asks \in members}]}
  /\ UNCHANGED <<chainVars, roleVars, pauseVars, selection, check, switches>>

CheckArrives ==
  /\ \E q \in checkReads :
       /\ checkReads' = checkReads \ {q}
       /\ check' = [known |-> q.answered, of |-> q.asks, has |-> TRUE \in q.answer]
  /\ UNCHANGED <<chainVars, roleVars, pauseVars, selection, switches>>

-----------------------------------------------------------------------------
(* Three independent parts of the page.                                    *)

RolesNext == ChangeContract \/ SwitchAccount \/ RunRolesEffect \/ ServeRoles \/ RolesArrive
PauseNext == ChangeContract \/ RefreshPaused \/ ServePaused \/ PausedArrives \/ PausedFails
CheckNext == Select \/ RefreshRoleCheck \/ ServeCheck \/ CheckArrives

RolesSpec == Init /\ [][RolesNext]_watchVars
CheckSpec == Init /\ [][CheckNext]_watchVars

(* The interval keeps ticking, the node answers what it is asked, and not   *)
(* every request is lost.                                                  *)
PauseSpec ==
  /\ Init /\ [][PauseNext]_watchVars
  /\ WF_watchVars(RefreshPaused) /\ SF_watchVars(ServePaused)
  /\ SF_watchVars(PausedArrives)

-----------------------------------------------------------------------------
(* Properties.                                                             *)

(* Once the effect of an account change has run and the hook is not         *)
(* loading, the roles it reports were read for the account now connected,   *)
(* however late the answers for earlier accounts come in.                   *)
RolesAreTheAccounts == ~effectDue /\ ~roles.isLoading => roles.of = account

(* "Contract is paused": a pause that lasts is shown again and again, and   *)
(* one that has ended is not shown for ever, although answers overtake      *)
(* each other and the banner hides while a request is under way.            *)
BannerFollows ==
  /\ <>[]paused => []<>Banner
  /\ <>[]~paused => <>[]~Banner

(* "hasRole(role): yes": the answer shown is one about the selected role.   *)
CheckIsOfSelection == check.known => check.of = selection
=============================================================================
