-------------------------- MODULE EscrowLifecycle --------------------------
(***************************************************************************)
(* What one project of EscrowFlowRegistry promises its client and its      *)
(* freelancer, without accounts, votes, clocks, recipients or pauses.      *)
(*                                                                         *)
(* The milestones are worked off one after the other, so the whole state   *)
(* of the work is a pointer to the next milestone and how far that one has *)
(* come.  Each milestone is settled once, and exactly its price leaves the *)
(* escrow then; nobody delivers or disputes work that is not covered.      *)
(* Calling the project off pays a delivered milestone and returns the      *)
(* rest.                                                                   *)
(***************************************************************************)
EXTENDS Naturals

CONSTANTS
  MilestoneIndexes,    \* 0, 1, ... as many as a project may have
  Deposits,            \* amounts one deposit may have
  Agreements           \* milestone lists: [count, cost], cost[k] for the first k

ASSUME LifecycleAssumption ==
  /\ MilestoneIndexes \subseteq Nat /\ Deposits \subseteq Nat
  /\ \A a \in Agreements : a.count \in Nat

VARIABLES
  stage,       \* "None" before the project exists, then ProjectStatus
  agreement,   \* the milestone list agreed on
  funded, paid, refunded,
  next,        \* milestones settled so far, index of the one in work
  work,        \* MilestoneStatus of that one
  outcome      \* [milestone]: how it was settled

lifecycleVars == <<stage, agreement, funded, paid, refunded, next, work, outcome>>

NoAgreement ==
  [count |-> 0,
   cost  |-> [k \in {0} \cup {i + 1 : i \in MilestoneIndexes} |-> 0]]

LifecycleInit ==
  /\ stage = "None" /\ agreement = NoAgreement
  /\ funded = 0 /\ paid = 0 /\ refunded = 0
  /\ next = 0 /\ work = "Pending"
  /\ outcome = [i \in MilestoneIndexes |-> "Pending"]

IsOpen == stage \in {"Active", "Disputed"}
Price == agreement.cost[next + 1] - agreement.cost[next]
Held == funded - paid - refunded

(* The status getMilestone reports. *)
MilestoneStatus(i) ==
  IF i < next THEN outcome[i] ELSE IF i = next THEN work ELSE "Pending"

Agree(a) ==
  /\ stage = "None" /\ a.count > 0
  /\ \A i \in 0..(a.count - 1) : a.cost[i] < a.cost[i + 1]
  /\ stage' = "Active" /\ agreement' = a
  /\ UNCHANGED <<funded, paid, refunded, next, work, outcome>>

Deposit(amount) ==
  /\ IsOpen /\ amount > 0
  /\ funded + amount <= agreement.cost[agreement.count]
  /\ funded' = funded + amount
  /\ UNCHANGED <<stage, agreement, paid, refunded, next, work, outcome>>

Deliver ==
  /\ stage = "Active" /\ work = "Pending" /\ Held >= Price
  /\ work' = "Submitted"
  /\ UNCHANGED <<stage, agreement, funded, paid, refunded, next, outcome>>

Approve ==
  /\ stage = "Active" /\ work = "Submitted"
  /\ work' = "Approved"
  /\ UNCHANGED <<stage, agreement, funded, paid, refunded, next, outcome>>

(* The price of the next milestone is shared out, and the one after it is   *)
(* next.                                                                    *)
Settle(toFreelancer, toClient) ==
  /\ toFreelancer + toClient = Price
  /\ paid' = paid + toFreelancer
  /\ refunded' = refunded + toClient
  /\ outcome' = [outcome EXCEPT ![next] =
       IF toFreelancer = 0 THEN "Refunded" ELSE "Released"]
  /\ next' = next + 1 /\ work' = "Pending"
  /\ stage' = IF next + 1 = agreement.count THEN "Completed" ELSE "Active"
  /\ UNCHANGED <<agreement, funded>>

Release ==
  /\ stage = "Active" /\ work = "Approved"
  /\ Settle(Price, 0)

Contest ==
  /\ stage = "Active" /\ Held >= Price
  /\ stage' = "Disputed"
  /\ UNCHANGED <<agreement, funded, paid, refunded, next, work, outcome>>

(* Work that was never delivered can only be refunded. *)
Decide(toFreelancer) ==
  /\ stage = "Disputed"
  /\ work = "Pending" => toFreelancer = 0
  /\ Settle(toFreelancer, Price - toFreelancer)

(* Approved work cannot be taken back, nor delivered work in dispute. *)
CallOff ==
  LET toFreelancer == IF work = "Submitted" THEN Price ELSE 0 IN
  /\ \/ stage = "Active" /\ work # "Approved"
     \/ stage = "Disputed" /\ work = "Pending"
  /\ toFreelancer <= Held
  /\ paid' = paid + toFreelancer
  /\ refunded' = refunded + Held - toFreelancer
  /\ outcome' = [i \in MilestoneIndexes |->
       IF i \notin next..(agreement.count - 1) THEN outcome[i]
       ELSE IF i = next /\ work = "Submitted" THEN "Released" ELSE "Refunded"]
  /\ next' = agreement.count /\ work' = "Pending"
  /\ stage' = "Cancelled"
  /\ UNCHANGED <<agreement, funded>>

LifecycleNext ==
  \/ \E a \in Agreements : Agree(a)
  \/ \E amount \in Deposits : Deposit(amount)
  \/ Deliver \/ Approve \/ Release \/ Contest \/ CallOff
  \/ stage = "Disputed" /\ \E amount \in 0..Price : Decide(amount)

LifecycleSpec == LifecycleInit /\ [][LifecycleNext]_lifecycleVars
=============================================================================
