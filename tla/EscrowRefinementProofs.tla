----------------------- MODULE EscrowRefinementProofs -----------------------
(***************************************************************************)
(* What one transaction of the registry does to the books of a project,    *)
(* and the proof that these are the steps of EscrowLifecycle: the registry *)
(* keeps the promise of every project, whatever votes, timeouts, proposals *)
(* and other projects do.                                                  *)
(*                                                                         *)
(* Then what the registry promises those whose money it holds: it never    *)
(* owes more of a token than it has; votes count only for open disputes;   *)
(* delivered work is taken back only by a decision; pause leaves only the  *)
(* admin's emergency paths; and whoever is paid was chosen by the party    *)
(* the money is due to.  The liabilities of a token are a sum over its     *)
(* projects, defined by recursion over a finite set; what is needed of     *)
(* such sums is proved by looking at a smallest set for which it fails.    *)
(***************************************************************************)
EXTENDS EscrowStepProofs, EscrowRefinement

-----------------------------------------------------------------------------
(* What a step does to the books of one project.                           *)

(* Nothing that its parties agreed on, paid or settled. *)
Rests(p) ==
  /\ Exists(p)' <=> Exists(p)
  /\ project'[p].plan = project[p].plan /\ project'[p].token = project[p].token
  /\ project'[p].fundedAmount = project[p].fundedAmount
  /\ project'[p].releasedAmount = project[p].releasedAmount
  /\ project'[p].refundedAmount = project[p].refundedAmount
  /\ project'[p].settledMilestoneCount = project[p].settledMilestoneCount
  /\ project'[p].status = project[p].status
  /\ \A i \in MilestoneIndexes : milestone'[p][i].status = milestone[p][i].status
  /\ ~Exists(p) => project'[p] = project[p]

OthersRest(q) == \A p \in Projects \ {q} : Rests(p)

(* The project goes on existing, on the same terms. *)
GoesOn(q) ==
  /\ Operable(q) /\ Exists(q)'
  /\ project'[q].plan = project[q].plan /\ project'[q].token = project[q].token

(* createProject *)
IsAgreed(q, plan) ==
  /\ plan \in Plans /\ plan.milestoneCount # 0
  /\ \A i \in 0..(plan.milestoneCount - 1) :
       plan.runningTotal[i] < plan.runningTotal[i + 1]
  /\ ~Exists(q) /\ Exists(q)'
  /\ project'[q].plan = plan /\ project'[q].token \in Tokens
  /\ project'[q].fundedAmount = 0 /\ project'[q].releasedAmount = 0
  /\ project'[q].refundedAmount = 0 /\ project'[q].settledMilestoneCount = 0
  /\ project'[q].status = "Active"
  /\ \A i \in 0..(plan.milestoneCount - 1) : milestone'[q][i].status = "Pending"

(* fundProject *)
IsFunded(q, amount) ==
  /\ GoesOn(q) /\ amount > 0
  /\ project[q].fundedAmount + amount <= TotalAmount(q)
  /\ project'[q].fundedAmount = project[q].fundedAmount + amount
  /\ project'[q].releasedAmount = project[q].releasedAmount
  /\ project'[q].refundedAmount = project[q].refundedAmount
  /\ project'[q].settledMilestoneCount = project[q].settledMilestoneCount
  /\ project'[q].status = project[q].status
  /\ \A i \in MilestoneIndexes : milestone'[q][i].status = milestone[q][i].status

(* submitMilestone and approveMilestone *)
IsHandedOn(q, from, to) ==
  LET k == project[q].settledMilestoneCount IN
  /\ GoesOn(q) /\ project[q].status = "Active"
  /\ milestone[q][k].status = from /\ milestone'[q][k].status = to
  /\ Amount(q, k) <= AvailableLiquidity(q)
  /\ project'[q].fundedAmount = project[q].fundedAmount
  /\ project'[q].releasedAmount = project[q].releasedAmount
  /\ project'[q].refundedAmount = project[q].refundedAmount
  /\ project'[q].settledMilestoneCount = k
  /\ project'[q].status = project[q].status
  /\ \A i \in MilestoneIndexes \ {k} :
       milestone'[q][i].status = milestone[q][i].status

(* raiseDispute *)
IsContested(q) ==
  LET k == project[q].settledMilestoneCount IN
  /\ GoesOn(q) /\ project[q].status = "Active"
  /\ Amount(q, k) <= AvailableLiquidity(q)
  /\ project'[q].fundedAmount = project[q].fundedAmount
  /\ project'[q].releasedAmount = project[q].releasedAmount
  /\ project'[q].refundedAmount = project[q].refundedAmount
  /\ project'[q].settledMilestoneCount = k
  /\ project'[q].status = "Disputed"
  /\ \A i \in MilestoneIndexes : milestone'[q][i].status = milestone[q][i].status

(* releaseMilestone, resolveDispute, emergencyResolveDispute and            *)
(* resolveStaleDisputeByTimeout                                             *)
IsSettled(q, a, b) ==
  LET k == project[q].settledMilestoneCount IN
  /\ GoesOn(q) /\ a \in Nat /\ b \in Nat /\ a + b = Amount(q, k)
  /\ \/ /\ project[q].status = "Active" /\ milestone[q][k].status = "Approved"
        /\ b = 0
     \/ /\ project[q].status = "Disputed"
        /\ milestone[q][k].status = "Pending" => a = 0
  /\ project'[q].fundedAmount = project[q].fundedAmount
  /\ project'[q].releasedAmount = project[q].releasedAmount + a
  /\ project'[q].refundedAmount = project[q].refundedAmount + b
  /\ project'[q].settledMilestoneCount = k + 1
  /\ project'[q].status = IF k + 1 = project[q].plan.milestoneCount
                          THEN "Completed" ELSE "Active"
  /\ milestone'[q][k].status = IF a = 0 THEN "Refunded" ELSE "Released"
  /\ \A i \in MilestoneIndexes \ {k} :
       milestone'[q][i].status = milestone[q][i].status

(* cancelProject and emergencyAdminCancel *)
IsCalledOff(q) ==
  LET k == project[q].settledMilestoneCount
      n == project[q].plan.milestoneCount
      payout == IF milestone[q][k].status = "Submitted" THEN Amount(q, k) ELSE 0
  IN
  /\ GoesOn(q)
  /\ \/ project[q].status = "Active" /\ milestone[q][k].status # "Approved"
     \/ project[q].status = "Disputed" /\ milestone[q][k].status = "Pending"
  /\ payout <= AvailableLiquidity(q)
  /\ project'[q].fundedAmount = project[q].fundedAmount
  /\ project'[q].releasedAmount = project[q].releasedAmount + payout
  /\ project'[q].refundedAmount =
       project[q].refundedAmount + AvailableLiquidity(q) - payout
  /\ project'[q].settledMilestoneCount = n
  /\ project'[q].status = "Cancelled"
  /\ \A i \in MilestoneIndexes :
       milestone'[q][i].status =
         IF i \notin k..(n - 1) THEN milestone[q][i].status
         ELSE IF i = k /\ milestone[q][k].status = "Submitted" THEN "Released"
              ELSE "Refunded"

(* The token's books and the registry's liabilities move with the project. *)
TokensMove(q) ==
  \A u \in Tokens :
    LET moved == IF u = project[q].token
                 THEN AvailableLiquidity(q)' - AvailableLiquidity(q) ELSE 0
    IN
    /\ tokenOutstanding'[u] = tokenOutstanding[u] + moved
    /\ balance'[u][Registry] = balance[u][Registry] + moved

Progresses(q) ==
  \/ \E amount \in FundingAmounts : IsFunded(q, amount)
  \/ IsHandedOn(q, "Pending", "Submitted") \/ IsHandedOn(q, "Submitted", "Approved")
  \/ IsContested(q)
  \/ \E a, b \in Nat : IsSettled(q, a, b)
  \/ IsCalledOff(q)

-----------------------------------------------------------------------------
(* What is known of a project that is open: everything is about the         *)
(* milestone in work.                                                       *)
LEMMA OpenFacts ==
  ASSUME RegistryInv, NEW q, Operable(q)
  PROVE  LET k == project[q].settledMilestoneCount
             n == project[q].plan.milestoneCount
             total == project[q].plan.runningTotal
         IN
         /\ q \in Projects /\ project[q] \in ProjectType /\ project[q].plan \in Plans
         /\ project[q].token \in Tokens
         /\ k \in Nat /\ n \in Nat /\ k < n /\ k \in Milestones(q) /\ k \in MilestoneIndexes
         /\ Amount(q, k) \in Nat /\ Amount(q, k) = total[k + 1] - total[k]
         /\ total[k] \in Nat /\ total[k + 1] \in Nat
         /\ project[q].fundedAmount \in Nat
         /\ project[q].releasedAmount \in Nat /\ project[q].refundedAmount \in Nat
         /\ project[q].releasedAmount + project[q].refundedAmount = total[k]
         /\ total[k] <= project[q].fundedAmount
         /\ project[q].status \in {"Active", "Disputed"}
         /\ project[q].status = "Disputed" <=> dispute[q][k].active
         /\ dispute[q][k].active =>
              project[q].activeDisputeCount = 1 /\ project[q].reservedAmount = Amount(q, k)
         /\ ~dispute[q][k].active =>
              project[q].activeDisputeCount = 0 /\ project[q].reservedAmount = 0
         /\ \A i \in Milestones(q) :
              /\ i \in MilestoneIndexes /\ Amount(q, i) \in Nat
              /\ milestone[q][i].status \in MilestoneStatuses
              /\ Settled(q, i) <=> i < k
              /\ Delivered(q, i) \/ dispute[q][i].active => i = k
<1> DEFINE k == project[q].settledMilestoneCount
           n == project[q].plan.milestoneCount
<1>1. /\ q \in Projects /\ project[q] \in ProjectType
      /\ milestone[q] \in [MilestoneIndexes -> MilestoneType]
      /\ dispute[q] \in [MilestoneIndexes -> DisputeType]
      /\ Sound(project[q], milestone[q], dispute[q])
      /\ project[q].plan \in Plans /\ project[q].token \in Tokens
      /\ \A i \in Milestones(q) : i \in MilestoneIndexes /\ Amount(q, i) \in Nat
      /\ project[q].status \in {"Active", "Disputed"}
  BY ProjectFacts DEF RegistryInv, Operable
<1>2. /\ InOrder(project[q], milestone[q], dispute[q])
      /\ OpenBooks(project[q], milestone[q][k], dispute[q][k])
      /\ project[q].releasedAmount + project[q].refundedAmount <= project[q].fundedAmount
  BY <1>1 DEF Sound
<1>3. /\ k \in Nat /\ n \in Nat /\ k < n /\ k \in Milestones(q)
      /\ project[q].fundedAmount \in Nat
      /\ project[q].releasedAmount \in Nat /\ project[q].refundedAmount \in Nat
  BY <1>1, <1>2, PlanFacts DEF ProjectType, OpenBooks, Milestones
<1>4. /\ project[q].plan.runningTotal[k] \in Nat
      /\ project[q].plan.runningTotal[k + 1] \in Nat
      /\ k \in MilestoneIndexes /\ Amount(q, k) \in Nat
      /\ Amount(q, k) = project[q].plan.runningTotal[k + 1] - project[q].plan.runningTotal[k]
  BY <1>1, <1>3, PlanFacts DEF Amount
<1>5. /\ project[q].releasedAmount + project[q].refundedAmount
           = project[q].plan.runningTotal[k]
      /\ project[q].status = "Disputed" <=> dispute[q][k].active
      /\ dispute[q][k].active =>
           project[q].activeDisputeCount = 1 /\ project[q].reservedAmount = Amount(q, k)
      /\ ~dispute[q][k].active =>
           project[q].activeDisputeCount = 0 /\ project[q].reservedAmount = 0
  BY <1>1, <1>2, <1>4 DEF OpenBooks, DisputeType
<1>6. ASSUME NEW i \in Milestones(q)
      PROVE  /\ milestone[q][i].status \in MilestoneStatuses
             /\ Settled(q, i) <=> i < k
             /\ Delivered(q, i) \/ dispute[q][i].active => i = k
  BY <1>1, <1>2 DEF InOrder, Settled, Delivered, Milestones, MilestoneType
<1> QED
  BY <1>1, <1>2, <1>3, <1>4, <1>5, <1>6

(* The milestone whose predecessors are all settled and which is not.       *)
LEMMA InWork ==
  ASSUME RegistryInv, NEW q, Operable(q), NEW i \in Milestones(q), ~Settled(q, i),
         PreviousCompleted(q, i) \/ Delivered(q, i) \/ dispute[q][i].active
  PROVE  i = project[q].settledMilestoneCount
<1>1. Sound(project[q], milestone[q], dispute[q]) /\ project[q] \in ProjectType
  BY ProjectFacts DEF RegistryInv, Operable
<1> QED
  BY <1>1, NextMilestone DEF PreviousCompleted, Delivered, Settled, Milestones

(* A payment out of the registry: as much leaves as it owes less. *)
LEMMA PayMoves ==
  ASSUME RegistryInv, NEW t \in Tokens, NEW f, NEW c, NEW a \in Nat, NEW b \in Nat,
         Pay(t, f, a, c, b), ReduceOutstanding(t, a + b), NEW u \in Tokens
  PROVE  /\ tokenOutstanding'[u] = tokenOutstanding[u] - (IF u = t THEN a + b ELSE 0)
         /\ balance'[u][Registry] =
              balance[u][Registry] - (IF u = t THEN a + b ELSE 0)
<1>1. /\ tokenOutstanding[u] \in Nat /\ balance[u] \in [Holders -> Nat]
      /\ tokenOutstanding \in [Tokens -> Nat] /\ balance \in [Tokens -> [Holders -> Nat]]
      /\ Registry \in Holders /\ f # Registry /\ c # Registry
  BY DEF RegistryInv, TokensTypeOK, Holders, Pay, Payable
<1>2. tokenOutstanding'[u] = IF u = t THEN tokenOutstanding[u] - (a + b)
                             ELSE tokenOutstanding[u]
  BY <1>1 DEF ReduceOutstanding
<1>3. CASE u = t
  <2>1. balance'[u] = [h \in Holders |->
          balance[t][h] + (IF h = f THEN a ELSE 0) + (IF h = c THEN b ELSE 0)
            - (IF h = Registry THEN a + b ELSE 0)]
    BY <1>1, <1>3 DEF Pay
  <2>2. balance'[u][Registry] = balance[u][Registry] + 0 + 0 - (a + b)
    BY <1>1, <1>3, <2>1
  <2> QED
    BY <1>1, <1>2, <1>3, <2>2
<1>4. CASE u # t
  BY <1>1, <1>2, <1>4 DEF Pay
<1> QED
  BY <1>3, <1>4

(* A step that replaces the record of one project and one of its milestones *)
(* leaves the others.                                                       *)
LEMMA OneProjectMoves ==
  ASSUME RegistryInv, NEW q \in Projects, NEW new, NEW ms,
         projectCount' = projectCount, project' = [project EXCEPT ![q] = new],
         milestone' = [milestone EXCEPT ![q] = ms]
  PROVE  /\ project'[q] = new /\ milestone'[q] = ms
         /\ OthersRest(q) /\ (Exists(q)' <=> Exists(q))
<1>1. project'[q] = new /\ milestone'[q] = ms
  BY StepTypes
<1>2. ASSUME NEW p \in Projects \ {q}
      PROVE  project'[p] = project[p] /\ milestone'[p] = milestone[p]
  BY StepTypes
<1>3. \A p : Exists(p)' <=> Exists(p)
  BY DEF Exists
<1> QED
  BY <1>1, <1>2, <1>3 DEF OthersRest, Rests

-----------------------------------------------------------------------------
(* One lemma per transaction.                                              *)

(* fundProject *)
LEMMA FundEffect ==
  ASSUME RegistryInv, NEW c \in Accounts, NEW q \in Projects,
         NEW amount \in FundingAmounts, FundProject(c, q, amount)
  PROVE  IsFunded(q, amount) /\ TokensMove(q) /\ OthersRest(q)
<1> DEFINE new == [project[q] EXCEPT !.fundedAmount = @ + amount]
           t == project[q].token
<1>1. /\ Operable(q) /\ amount # 0 /\ amount \in Nat
      /\ project[q].fundedAmount + amount <= TotalAmount(q)
      /\ project' = [project EXCEPT ![q] = new]
      /\ milestone' = [milestone EXCEPT ![q] = milestone[q]]
      /\ projectCount' = projectCount
      /\ balance[t][c] >= amount
  BY ChoicesAssumption, StepTypes DEF FundProject
<1>2. /\ project[q] \in ProjectType /\ t \in Tokens
      /\ project[q].fundedAmount \in Nat /\ project[q].releasedAmount \in Nat
      /\ project[q].refundedAmount \in Nat
  BY <1>1, OpenFacts
<1>3. /\ new.fundedAmount = project[q].fundedAmount + amount
      /\ new.plan = project[q].plan /\ new.token = t
      /\ new.releasedAmount = project[q].releasedAmount
      /\ new.refundedAmount = project[q].refundedAmount
      /\ new.settledMilestoneCount = project[q].settledMilestoneCount
      /\ new.status = project[q].status
  BY <1>2 DEF ProjectType
<1> HIDE DEF new
<1>4. /\ project'[q] = new /\ milestone'[q] = milestone[q]
      /\ OthersRest(q) /\ Exists(q)'
  BY <1>1, OneProjectMoves DEF Operable
<1>5. IsFunded(q, amount)
  BY <1>1, <1>3, <1>4 DEF IsFunded, GoesOn
<1>6. AvailableLiquidity(q)' - AvailableLiquidity(q) = amount
  BY <1>1, <1>2, <1>3, <1>4 DEF AvailableLiquidity
<1>7. TokensMove(q)
  <2>1. /\ balance' = [balance EXCEPT ![t][c] = @ - amount, ![t][Registry] = @ + amount]
        /\ tokenOutstanding' = [tokenOutstanding EXCEPT ![t] = @ + amount]
    BY DEF FundProject
  <2>2. /\ c \in Holders /\ Registry \in Holders /\ c # Registry
        /\ balance \in [Tokens -> [Holders -> Nat]] /\ tokenOutstanding \in [Tokens -> Nat]
    BY AddressAssumption DEF Holders, RegistryInv, TokensTypeOK
  <2>3. ASSUME NEW u \in Tokens
        PROVE  /\ tokenOutstanding'[u] = tokenOutstanding[u] + (IF u = t THEN amount ELSE 0)
               /\ balance'[u][Registry] =
                    balance[u][Registry] + (IF u = t THEN amount ELSE 0)
    BY <1>1, <1>2, <2>1, <2>2
  <2> HIDE DEF t
  <2> QED
    BY <1>6, <2>3 DEF TokensMove, t
<1> QED
  BY <1>4, <1>5, <1>7

(* submitMilestone and approveMilestone *)
LEMMA DeliveryEffect ==
  ASSUME RegistryInv, NEW c, NEW q \in Projects, NEW i \in MilestoneIndexes,
         SubmitMilestone(c, q, i) \/ ApproveMilestone(c, q, i)
  PROVE  /\ IsHandedOn(q, "Pending", "Submitted") \/ IsHandedOn(q, "Submitted", "Approved")
         /\ TokensMove(q) /\ OthersRest(q)
<1> DEFINE k == project[q].settledMilestoneCount
<1>1. /\ Operable(q) /\ i \in Milestones(q) /\ ~dispute[q][i].active
      /\ milestone[q][i].status \in {"Pending", "Submitted"}
      /\ PreviousCompleted(q, i) /\ ~Settled(q, i)
      /\ UNCHANGED <<projectCount, project, tokenOutstanding, balance>>
  BY DEF SubmitMilestone, ApproveMilestone, tokenVars, Settled
<1>2. i = k
  BY <1>1, InWork
<1>3. /\ k \in MilestoneIndexes /\ project[q].status = "Active"
      /\ Amount(q, k) \in Nat /\ AvailableLiquidity(q) \in Nat
      /\ project[q].reservedAmount = 0
  BY <1>1, <1>2, OpenFacts DEF AvailableLiquidity
<1>4. PICK m : /\ milestone' = [milestone EXCEPT ![q][i] = m]
               /\ \/ milestone[q][i].status = "Pending" /\ m.status = "Submitted"
                  \/ milestone[q][i].status = "Submitted" /\ m.status = "Approved"
               /\ Amount(q, i) <= AvailableLiquidity(q)
  <2>1. CASE SubmitMilestone(c, q, i)
    <3> DEFINE m == [status |-> "Submitted",
                     reviewEnteredAt |-> IF milestone[q][i].reviewEnteredAt = 0
                                         THEN now ELSE milestone[q][i].reviewEnteredAt]
    <3>1. Amount(q, i) <= AvailableLiquidity(q)
      <4>1. FreeLiquidity(q) >= Amount(q, i)
        BY <2>1 DEF SubmitMilestone
      <4>2. FreeLiquidity(q) =
              IF AvailableLiquidity(q) <= 0 THEN 0 ELSE AvailableLiquidity(q) - 0
        BY <1>3 DEF FreeLiquidity
      <4> HIDE DEF k
      <4> QED
        BY <1>2, <1>3, <4>1, <4>2
    <3>2. milestone' = [milestone EXCEPT ![q][i] = m] /\ m.status = "Submitted"
      BY <2>1, StepTypes DEF SubmitMilestone
    <3>3. milestone[q][i].status = "Pending"
      BY <2>1 DEF SubmitMilestone
    <3> HIDE DEF m
    <3> QED
      BY <3>1, <3>2, <3>3
  <2>2. CASE ApproveMilestone(c, q, i)
    <3> DEFINE m == [milestone[q][i] EXCEPT !.status = "Approved"]
    <3>1. milestone' = [milestone EXCEPT ![q][i] = m] /\ m.status = "Approved"
      BY <2>2, StepTypes DEF ApproveMilestone, MilestoneType
    <3>2. milestone[q][i].status = "Submitted"
      BY <2>2 DEF ApproveMilestone
    <3>3. Sound(project[q], milestone[q], dispute[q])
      BY <1>1, ProjectFacts DEF RegistryInv, Operable
    <3>4. Amount(q, i) <= AvailableLiquidity(q)
      BY <1>1, <1>2, <3>2, <3>3, OpenFacts DEF Sound, OpenBooks, AvailableLiquidity
    <3> HIDE DEF m
    <3> QED
      BY <3>1, <3>2, <3>4
  <2> QED
    BY <2>1, <2>2
<1>5. milestone'[q][k] = m /\ \A j \in MilestoneIndexes \ {k} : milestone'[q][j] = milestone[q][j]
  BY <1>2, <1>3, <1>4, StepTypes
<1>6. OthersRest(q)
  BY <1>1, <1>4, StepTypes DEF OthersRest, Rests, Exists
<1>7. GoesOn(q)
  BY <1>1 DEF GoesOn, Operable, Exists
<1>8. IsHandedOn(q, "Pending", "Submitted") \/ IsHandedOn(q, "Submitted", "Approved")
  BY <1>1, <1>2, <1>3, <1>4, <1>5, <1>7 DEF IsHandedOn
<1>9. TokensMove(q)
  <2>1. AvailableLiquidity(q)' - AvailableLiquidity(q) = 0
    BY <1>1, <1>3 DEF AvailableLiquidity
  <2>2. \A u \in Tokens : tokenOutstanding[u] \in Nat /\ balance[u][Registry] \in Nat
    BY DEF RegistryInv, TokensTypeOK, Holders
  <2> QED
    BY <1>1, <2>1, <2>2 DEF TokensMove
<1> QED
  BY <1>6, <1>8, <1>9

(* raiseDispute *)
LEMMA RaiseEffect ==
  ASSUME RegistryInv, NEW c, NEW q \in Projects, NEW i \in MilestoneIndexes,
         RaiseDispute(c, q, i)
  PROVE  IsContested(q) /\ TokensMove(q) /\ OthersRest(q)
<1> DEFINE k == project[q].settledMilestoneCount
           new == [project[q] EXCEPT !.activeDisputeCount = @ + 1,
                                     !.reservedAmount = @ + Amount(q, i),
                                     !.status = "Disputed"]
<1>1. /\ Operable(q) /\ i \in Milestones(q) /\ ~dispute[q][i].active
      /\ PreviousCompleted(q, i) /\ ~Settled(q, i)
      /\ FreeLiquidity(q) >= Amount(q, i)
      /\ project' = [project EXCEPT ![q] = new]
      /\ milestone' = [milestone EXCEPT ![q] = milestone[q]]
      /\ UNCHANGED <<projectCount, tokenOutstanding, balance>>
  BY StepTypes DEF RaiseDispute, tokenVars, Settled
<1>2. i = k
  BY <1>1, InWork
<1>3. /\ project[q].status = "Active" /\ Amount(q, k) <= AvailableLiquidity(q)
      /\ AvailableLiquidity(q) \in Int /\ project[q] \in ProjectType
  BY <1>1, <1>2, OpenFacts DEF AvailableLiquidity, FreeLiquidity
<1>4. /\ new.fundedAmount = project[q].fundedAmount
      /\ new.plan = project[q].plan /\ new.token = project[q].token
      /\ new.releasedAmount = project[q].releasedAmount
      /\ new.refundedAmount = project[q].refundedAmount
      /\ new.settledMilestoneCount = project[q].settledMilestoneCount
      /\ new.status = "Disputed"
  BY <1>3 DEF ProjectType
<1> HIDE DEF new
<1>5. /\ project'[q] = new /\ milestone'[q] = milestone[q]
      /\ OthersRest(q) /\ Exists(q)'
  BY <1>1, OneProjectMoves DEF Operable
<1>6. IsContested(q)
  BY <1>1, <1>3, <1>4, <1>5 DEF IsContested, GoesOn
<1>7. TokensMove(q)
  <2>1. AvailableLiquidity(q)' - AvailableLiquidity(q) = 0
    BY <1>3, <1>4, <1>5 DEF AvailableLiquidity
  <2>2. \A u \in Tokens : tokenOutstanding[u] \in Nat /\ balance[u][Registry] \in Nat
    BY DEF RegistryInv, TokensTypeOK, Holders
  <2> QED
    BY <1>1, <2>1, <2>2 DEF TokensMove
<1> QED
  BY <1>5, <1>6, <1>7

(* What the record of a settled milestone says of its project. *)
LEMMA SettledRecord ==
  ASSUME RegistryInv, NEW q, Operable(q), NEW base \in ProjectType,
         NEW a \in Nat, NEW b \in Nat,
         LET k == project[q].settledMilestoneCount IN
         /\ a + b = Amount(q, k)
         /\ base.plan = project[q].plan /\ base.token = project[q].token
         /\ base.fundedAmount = project[q].fundedAmount
         /\ base.releasedAmount = project[q].releasedAmount + a
         /\ base.refundedAmount = project[q].refundedAmount + b
         /\ base.settledMilestoneCount = k + 1
         /\ base.activeDisputeCount = 0,
         NEW m,
         LET k == project[q].settledMilestoneCount IN
         /\ m.status = IF a = 0 THEN "Refunded" ELSE "Released"
         /\ \/ /\ project[q].status = "Active" /\ milestone[q][k].status = "Approved"
               /\ b = 0
            \/ /\ project[q].status = "Disputed"
               /\ milestone[q][k].status = "Pending" => a = 0
         /\ milestone' = [milestone EXCEPT ![q][k] = m],
         projectCount' = projectCount,
         project' = [project EXCEPT ![q] = Refreshed(base)],
         NEW f, NEW c, Pay(project[q].token, f, a, c, b),
         ReduceOutstanding(project[q].token, a + b)
  PROVE  IsSettled(q, a, b) /\ TokensMove(q) /\ OthersRest(q)
<1> DEFINE k == project[q].settledMilestoneCount
           new == Refreshed(base)
<1>1. /\ q \in Projects /\ k \in MilestoneIndexes /\ k \in Nat
      /\ project[q].token \in Tokens
      /\ project[q].fundedAmount \in Nat
      /\ project[q].releasedAmount \in Nat /\ project[q].refundedAmount \in Nat
  BY OpenFacts
<1>2. /\ new.plan = project[q].plan /\ new.token = project[q].token
      /\ new.fundedAmount = project[q].fundedAmount
      /\ new.releasedAmount = project[q].releasedAmount + a
      /\ new.refundedAmount = project[q].refundedAmount + b
      /\ new.settledMilestoneCount = k + 1
      /\ new.status = IF k + 1 = project[q].plan.milestoneCount
                      THEN "Completed" ELSE "Active"
  BY RefreshedRecord
<1> DEFINE ms == [milestone[q] EXCEPT ![k] = m]
<1>3. /\ milestone' = [milestone EXCEPT ![q] = ms] /\ Exists(q)
      /\ project' = [project EXCEPT ![q] = new]
  BY <1>1, StepTypes DEF Operable
<1> HIDE DEF new, ms
<1>4. project'[q] = new /\ milestone'[q] = ms /\ OthersRest(q) /\ Exists(q)'
  <2>1. /\ project'[q] = new /\ milestone'[q] = ms
        /\ OthersRest(q) /\ (Exists(q)' <=> Exists(q))
    BY <1>1, <1>3, OneProjectMoves, Zenon
  <2> QED
    BY <1>3, <2>1
<1>5. milestone'[q][k] = m /\ \A j \in MilestoneIndexes \ {k} : milestone'[q][j] = milestone[q][j]
  BY <1>1, <1>4, StepTypes DEF ms
<1>6. IsSettled(q, a, b)
  BY <1>2, <1>4, <1>5 DEF IsSettled, GoesOn
<1>7. TokensMove(q)
  <2>1. AvailableLiquidity(q)' - AvailableLiquidity(q) = 0 - (a + b)
    BY <1>1, <1>2, <1>4 DEF AvailableLiquidity
  <2>2. \A u \in Tokens : tokenOutstanding[u] \in Nat /\ balance[u][Registry] \in Nat
    BY DEF RegistryInv, TokensTypeOK, Holders
  <2> QED
    BY <1>1, <2>1, <2>2, PayMoves DEF TokensMove
<1> QED
  BY <1>4, <1>6, <1>7

(* releaseMilestone *)
LEMMA ReleaseEffect ==
  ASSUME RegistryInv, NEW c, NEW q \in Projects, NEW i \in MilestoneIndexes,
         ReleaseMilestone(c, q, i), Amount(q, i) # 0
  PROVE  IsSettled(q, Amount(q, i), 0) /\ TokensMove(q) /\ OthersRest(q)
<1> DEFINE k == project[q].settledMilestoneCount
           m == [status |-> "Released", reviewEnteredAt |-> 0]
           base == [project[q] EXCEPT !.releasedAmount = @ + Amount(q, i),
                                      !.settledMilestoneCount = @ + 1]
           f == LegRecipient(q, i, "freelancer", project[q].freelancer)
           t == project[q].token
<1>1. /\ Operable(q) /\ i \in Milestones(q) /\ ~dispute[q][i].active
      /\ milestone[q][i].status = "Approved"
      /\ project' = [project EXCEPT ![q] = Refreshed(base)]
      /\ milestone' = [milestone EXCEPT ![q][i] = m]
      /\ projectCount' = projectCount
      /\ ReduceOutstanding(t, Amount(q, i)) /\ Pay(t, f, Amount(q, i), NoAddress, 0)
  BY DEF ReleaseMilestone
<1>2. Delivered(q, i) /\ ~Settled(q, i)
  BY <1>1 DEF Delivered, Settled
<1>3. i = k
  BY <1>1, <1>2, InWork
<1>4. /\ Amount(q, i) \in Nat /\ Amount(q, i) + 0 = Amount(q, i)
      /\ Amount(q, k) = Amount(q, i)
      /\ project[q].status = "Active" /\ project[q].activeDisputeCount = 0
      /\ project[q] \in ProjectType
  BY <1>1, <1>3, OpenFacts
<1>5. /\ base \in ProjectType
      /\ base.plan = project[q].plan /\ base.token = project[q].token
      /\ base.fundedAmount = project[q].fundedAmount
      /\ base.releasedAmount = project[q].releasedAmount + Amount(q, i)
      /\ base.refundedAmount = project[q].refundedAmount + 0
      /\ base.settledMilestoneCount = k + 1
      /\ base.activeDisputeCount = 0
  <2>1. /\ project[q].releasedAmount + Amount(q, i) \in Nat
        /\ project[q].settledMilestoneCount + 1 \in Nat
        /\ project[q].refundedAmount + 0 = project[q].refundedAmount
    BY <1>4 DEF ProjectType
  <2> QED
    BY <1>4, <2>1 DEF ProjectType
<1>6. m.status = IF Amount(q, i) = 0 THEN "Refunded" ELSE "Released"
  OBVIOUS
<1>7. /\ milestone[q][k].status = "Approved"
      /\ milestone' = [milestone EXCEPT ![q][k] = m]
      /\ ReduceOutstanding(t, Amount(q, i) + 0)
  BY <1>1, <1>3, <1>4
<1> HIDE DEF m, base, f
<1> QED
  BY <1>1, <1>4, <1>5, <1>6, <1>7, SettledRecord

(* resolveDispute, emergencyResolveDispute, resolveStaleDisputeByTimeout:   *)
(* what they share.                                                         *)
LEMMA DisputeEffect ==
  ASSUME RegistryInv, NEW q \in Projects, NEW i \in MilestoneIndexes,
         Operable(q), i \in Milestones(q), dispute[q][i].active,
         NEW f, NEW a \in Nat, NEW b \in Nat, a + b = Amount(q, i),
         SettleDispute(q, i, f, a, b),
         NEW m, m.status = IF a = 0 THEN "Refunded" ELSE "Released",
         milestone[q][i].status = "Pending" => a = 0,
         milestone' = [milestone EXCEPT ![q][i] = m], projectCount' = projectCount
  PROVE  IsSettled(q, a, b) /\ TokensMove(q) /\ OthersRest(q)
<1> DEFINE k == project[q].settledMilestoneCount
           base == [project[q] EXCEPT !.activeDisputeCount = @ - 1,
                                      !.reservedAmount = @ - Amount(q, i),
                                      !.releasedAmount = @ + a,
                                      !.refundedAmount = @ + b,
                                      !.settledMilestoneCount = @ + 1]
           g == LegRecipient(q, i, "client", project[q].client)
           t == project[q].token
<1>1. /\ project' = [project EXCEPT ![q] = Refreshed(base)]
      /\ ReduceOutstanding(t, a + b) /\ Pay(t, f, a, g, b)
  BY DEF SettleDispute
<1>2. ~Settled(q, i)
  BY OpenIsUnsettled DEF Operable
<1>3. i = k
  BY <1>2, InWork
<1>4. /\ Amount(q, i) \in Nat
      /\ project[q].status = "Disputed" /\ project[q].activeDisputeCount = 1
      /\ project[q].reservedAmount = Amount(q, i)
      /\ project[q] \in ProjectType
  BY <1>3, OpenFacts
<1>5. /\ base \in ProjectType
      /\ base.plan = project[q].plan /\ base.token = project[q].token
      /\ base.fundedAmount = project[q].fundedAmount
      /\ base.releasedAmount = project[q].releasedAmount + a
      /\ base.refundedAmount = project[q].refundedAmount + b
      /\ base.settledMilestoneCount = k + 1
      /\ base.activeDisputeCount = 0
  <2>1. /\ project[q].releasedAmount \in Nat /\ project[q].refundedAmount \in Nat
        /\ k \in Nat
    BY OpenFacts
  <2>2. /\ project[q].releasedAmount + a \in Nat /\ project[q].refundedAmount + b \in Nat
        /\ project[q].settledMilestoneCount + 1 \in Nat
    BY <2>1
  <2>3. /\ project[q].activeDisputeCount - 1 = 0 /\ 0 \in Nat
        /\ project[q].reservedAmount - Amount(q, i) = 0
    BY <1>4
  <2>4. base \in ProjectType
    BY <1>4, <2>2, <2>3 DEF ProjectType
  <2> QED
    BY <1>4, <2>3, <2>4 DEF ProjectType
<1>6. /\ milestone[q][k].status = "Pending" => a = 0
      /\ milestone' = [milestone EXCEPT ![q][k] = m]
      /\ a + b = Amount(q, k)
  BY <1>3
<1> HIDE DEF base, g
<1> QED
  BY <1>1, <1>4, <1>5, <1>6, SettledRecord

LEMMA ResolvingEffect ==
  ASSUME RegistryInv, NEW c, NEW q \in Projects, NEW i \in MilestoneIndexes,
         NEW r \in Resolutions, Amount(q, i) # 0,
         ResolveDispute(c, q, i, r) \/ EmergencyResolveDispute(c, q, i, r)
  PROVE  /\ r.freelancerAmount \in Nat /\ r.clientAmount \in Nat
         /\ IsSettled(q, r.freelancerAmount, r.clientAmount)
         /\ TokensMove(q) /\ OthersRest(q)
<1> DEFINE f == LegRecipient(q, i, "freelancer", project[q].freelancer)
           m == [status |-> SettledStatus(r.kind), reviewEnteredAt |-> 0]
           a == r.freelancerAmount
           b == r.clientAmount
<1>1. /\ Operable(q) /\ i \in Milestones(q) /\ dispute[q][i].active
      /\ SettleDispute(q, i, f, a, b) /\ ValidAmounts(r, Amount(q, i))
      /\ KindAllowed(q, i, r)
      /\ milestone' = [milestone EXCEPT ![q][i] = m] /\ projectCount' = projectCount
  BY DEF ResolveDispute, EmergencyResolveDispute, ValidEmergency
<1>2. Amount(q, i) \in Nat /\ a \in Nat /\ b \in Nat /\ a + b = Amount(q, i)
  <2>1. Amount(q, i) \in Nat
    BY <1>1, OpenFacts
  <2> QED
    BY <1>1, <2>1, ResolutionFacts
<1>3. a = 0 <=> r.kind = "RefundToClient"
  <2>1. r.kind \in ResolutionKinds
    BY ChoicesAssumption DEF ResolutionType
  <2> QED
    BY <1>1, <1>2, <2>1 DEF ValidAmounts, ResolutionKinds
<1>4. /\ m.status = IF a = 0 THEN "Refunded" ELSE "Released"
      /\ milestone[q][i].status = "Pending" => a = 0
  BY <1>1, <1>3 DEF SettledStatus, KindAllowed
<1> HIDE DEF f, m, a, b
<1>5. IsSettled(q, a, b) /\ TokensMove(q) /\ OthersRest(q)
  BY <1>1, <1>2, <1>4, DisputeEffect
<1> QED
  BY <1>2, <1>5 DEF a, b

LEMMA StaleEffect ==
  ASSUME RegistryInv, NEW c, NEW q \in Projects, NEW i \in MilestoneIndexes,
         ResolveStaleDisputeByTimeout(c, q, i)
  PROVE  /\ Amount(q, i) \in Nat /\ IsSettled(q, 0, Amount(q, i))
         /\ TokensMove(q) /\ OthersRest(q)
<1> DEFINE m == [milestone[q][i] EXCEPT !.status = "Refunded"]
           a == 0
           b == Amount(q, i)
<1>1. /\ Operable(q) /\ i \in Milestones(q) /\ dispute[q][i].active
      /\ SettleDispute(q, i, NoAddress, a, b)
      /\ milestone' = [milestone EXCEPT ![q][i] = m] /\ projectCount' = projectCount
  BY StepTypes DEF ResolveStaleDisputeByTimeout, DisputeTimedOut
<1>2. m.status = "Refunded"
  BY StepTypes DEF MilestoneType
<1>3. /\ m.status = IF a = 0 THEN "Refunded" ELSE "Released"
      /\ a + b = Amount(q, i) /\ a = 0 /\ a \in Nat /\ b \in Nat
  BY <1>1, <1>2, OpenFacts
<1> HIDE DEF a, b, m
<1>4. IsSettled(q, a, b) /\ TokensMove(q) /\ OthersRest(q)
  BY <1>1, <1>3, DisputeEffect
<1> QED
  BY <1>3, <1>4 DEF a, b

(* What a cancelled project's record and milestones are then. *)
LEMMA CalledOffRecord ==
  ASSUME RegistryInv, NEW q, Operable(q), NEW new, NEW ms,
         NEW payout \in Nat, NEW refunded \in Nat,
         LET k == project[q].settledMilestoneCount
             n == project[q].plan.milestoneCount
         IN
         /\ \/ project[q].status = "Active" /\ milestone[q][k].status # "Approved"
            \/ project[q].status = "Disputed" /\ milestone[q][k].status = "Pending"
         /\ payout = IF milestone[q][k].status = "Submitted" THEN Amount(q, k) ELSE 0
         /\ payout + refunded = AvailableLiquidity(q)
         /\ new.plan = project[q].plan /\ new.token = project[q].token
         /\ new.fundedAmount = project[q].fundedAmount
         /\ new.releasedAmount = project[q].releasedAmount + payout
         /\ new.refundedAmount = project[q].refundedAmount + refunded
         /\ new.settledMilestoneCount = n /\ new.status = "Cancelled"
         /\ \A i \in MilestoneIndexes :
              ms[i].status =
                IF i \notin k..(n - 1) THEN milestone[q][i].status
                ELSE IF i = k /\ milestone[q][k].status = "Submitted" THEN "Released"
                     ELSE "Refunded",
         projectCount' = projectCount, project' = [project EXCEPT ![q] = new],
         milestone' = [milestone EXCEPT ![q] = ms],
         NEW f, NEW c, Pay(project[q].token, f, payout, c, refunded),
         ReduceOutstanding(project[q].token, payout + refunded)
  PROVE  IsCalledOff(q) /\ TokensMove(q) /\ OthersRest(q)
<1>1. /\ q \in Projects /\ project[q].token \in Tokens
      /\ project[q].fundedAmount \in Nat /\ Exists(q)
      /\ project[q].releasedAmount \in Nat /\ project[q].refundedAmount \in Nat
  BY OpenFacts DEF Operable
<1>2. project'[q] = new /\ milestone'[q] = ms /\ OthersRest(q) /\ Exists(q)'
  <2>1. /\ project'[q] = new /\ milestone'[q] = ms
        /\ OthersRest(q) /\ (Exists(q)' <=> Exists(q))
    BY <1>1, OneProjectMoves, Zenon
  <2> QED
    BY <1>1, <2>1
<1>3. AvailableLiquidity(q) \in Int /\ AvailableLiquidity(q)' = 0
  <2>1. payout + refunded
          = project[q].fundedAmount - project[q].releasedAmount - project[q].refundedAmount
    BY DEF AvailableLiquidity
  <2>2. AvailableLiquidity(q)' = new.fundedAmount - new.releasedAmount - new.refundedAmount
    BY <1>2 DEF AvailableLiquidity
  <2> QED
    BY <1>1, <2>1, <2>2 DEF AvailableLiquidity
<1>4. IsCalledOff(q)
  <2>1. payout <= AvailableLiquidity(q)
    OBVIOUS
  <2>2. new.refundedAmount = project[q].refundedAmount + AvailableLiquidity(q) - payout
    BY <1>1, <1>3
  <2> QED
    BY <1>2, <2>1, <2>2 DEF IsCalledOff, GoesOn
<1>5. TokensMove(q)
  <2>1. AvailableLiquidity(q)' - AvailableLiquidity(q) = 0 - (payout + refunded)
    BY <1>3
  <2>2. \A u \in Tokens : tokenOutstanding[u] \in Nat /\ balance[u][Registry] \in Nat
    BY DEF RegistryInv, TokensTypeOK, Holders
  <2> QED
    BY <1>1, <2>1, <2>2, PayMoves DEF TokensMove
<1> QED
  BY <1>2, <1>4, <1>5

(* cancelProject *)
LEMMA CancelEffect ==
  ASSUME RegistryInv, NEW c, NEW q \in Projects, CancelProject(c, q)
  PROVE  IsCalledOff(q) /\ TokensMove(q) /\ OthersRest(q)
<1> DEFINE k == project[q].settledMilestoneCount
           n == project[q].plan.milestoneCount
           stale   == StaleDisputes(q)
           due     == DueReviews(q)
           closed  == stale \cup due \cup Untouched(q)
           payout  == SumOfAmounts(q, due)
           reserve == SumOfAmounts(q, stale)
           refundable == AvailableLiquidity(q) - payout
           t == project[q].token
           reserved == project[q].reservedAmount - reserve
           refunded == IF refundable <= reserved THEN 0 ELSE refundable - reserved
           new == [project[q] EXCEPT !.activeDisputeCount = @ - Cardinality(stale),
                     !.reservedAmount = reserved,
                     !.releasedAmount = @ + payout,
                     !.refundedAmount = @ + refunded,
                     !.settledMilestoneCount = @ + Cardinality(closed),
                     !.status = "Cancelled"]
           ms == [i \in MilestoneIndexes |->
                    IF i \in due THEN [status |-> "Released", reviewEnteredAt |-> 0]
                    ELSE IF i \in stale THEN [status |-> "Refunded", reviewEnteredAt |-> 0]
                    ELSE IF i \in closed THEN [milestone[q][i] EXCEPT !.status = "Refunded"]
                    ELSE milestone[q][i]]
           g == ProjectRecipient(q, project[q].client)
<1>1. /\ Operable(q) /\ \A i \in Milestones(q) : CancelMayClose(q, i)
      /\ due # {} => CanSettle(q, payout)
      /\ project' = [project EXCEPT ![q] = new]
      /\ milestone' = [milestone EXCEPT ![q] = ms]
      /\ ReduceOutstanding(t, payout + refunded)
      /\ \E f : Pay(t, f, payout, g, refunded)
      /\ projectCount' = projectCount
  <2>1. milestone' = [milestone EXCEPT ![q] = ms]
    BY DEF CancelProject, RegistryInv, ProjectsOK, ProjectsTypeOK
  <2> QED
    BY <2>1, Zenon DEF CancelProject
<1>2. Exists(q) /\ project[q].status \in {"Active", "Disputed"} /\ ProjectsOK
  BY <1>1 DEF Operable, RegistryInv
<1>3. /\ payout \in Nat /\ payout <= AvailableLiquidity(q)
      /\ Cardinality(stale) = project[q].activeDisputeCount
      /\ reserve = project[q].reservedAmount
      /\ closed = {i \in Milestones(q) : ~Settled(q, i)}
  BY <1>1, <1>2, CancelFacts
<1>4. closed = k..(n - 1) /\ Cardinality(closed) = n - k
  BY <1>2, <1>3, LeftToSettle
<1>5. /\ project[q] \in ProjectType /\ k \in Nat /\ n \in Nat /\ k \in Milestones(q)
      /\ Amount(q, k) \in Nat
      /\ project[q].fundedAmount \in Nat /\ project[q].reservedAmount \in Nat
      /\ project[q].releasedAmount \in Nat /\ project[q].refundedAmount \in Nat
      /\ project[q].status = "Disputed" <=> dispute[q][k].active
      /\ \A i \in Milestones(q) : Delivered(q, i) \/ dispute[q][i].active => i = k
  BY <1>1, OpenFacts DEF ProjectType
<1>6. /\ dispute[q][k].active => milestone[q][k].status = "Pending"
      /\ ~dispute[q][k].active => milestone[q][k].status # "Approved"
  BY <1>1, <1>5 DEF CancelMayClose
<1>7. due = IF milestone[q][k].status = "Submitted" THEN {k} ELSE {}
  BY <1>5, <1>6 DEF DueReviews, Delivered
<1>8. payout = IF milestone[q][k].status = "Submitted" THEN Amount(q, k) ELSE 0
  <2>1. CASE due = {}
    BY <1>7, <2>1, SumOfNone
  <2>2. CASE due = {k}
    <3>1. Amount(q, k) \in Int
      BY <1>5
    <3>2. SumOfAmounts(q, {k}) = Amount(q, k)
      BY <3>1, SumOfOne
    <3> HIDE DEF k, due
    <3> QED
      BY <1>7, <2>2, <3>2
  <2> QED
    BY <1>7, <2>1, <2>2
<1>9. stale \subseteq {k}
  BY <1>5 DEF StaleDisputes
<1> HIDE DEF stale, due, closed, payout, reserve
<1>10. reserved = 0 /\ refunded \in Nat /\ payout + refunded = AvailableLiquidity(q)
  <2>1. reserved = 0
    BY <1>3, <1>5
  <2>2. AvailableLiquidity(q) \in Int
    BY <1>5 DEF AvailableLiquidity
  <2>3. refunded = IF refundable <= 0 THEN 0 ELSE refundable - 0
    BY <2>1
  <2> HIDE DEF refunded, reserved
  <2> QED
    BY <1>3, <2>1, <2>2, <2>3
<1> HIDE DEF refunded, reserved, refundable
<1>11. /\ new.plan = project[q].plan /\ new.token = project[q].token
       /\ new.fundedAmount = project[q].fundedAmount
       /\ new.releasedAmount = project[q].releasedAmount + payout
       /\ new.refundedAmount = project[q].refundedAmount + refunded
       /\ new.settledMilestoneCount = n /\ new.status = "Cancelled"
  <2>1. k + Cardinality(closed) = n
    BY <1>4, <1>5
  <2> QED
    BY <1>5, <2>1 DEF ProjectType
<1>12. ASSUME NEW i \in MilestoneIndexes
       PROVE  ms[i].status =
                IF i \notin k..(n - 1) THEN milestone[q][i].status
                ELSE IF i = k /\ milestone[q][k].status = "Submitted" THEN "Released"
                     ELSE "Refunded"
  <2>1. [milestone[q][i] EXCEPT !.status = "Refunded"].status = "Refunded"
    BY <1>2, ProjectFacts DEF MilestoneType
  <2>2. due \subseteq closed /\ stale \subseteq closed
    BY DEF closed
  <2>3. CASE i \in due
    <3>1. i = k /\ milestone[q][k].status = "Submitted"
      BY <1>7, <2>3
    <3> QED
      BY <1>4, <2>2, <2>3, <3>1
  <2>4. CASE i \notin due
    <3>1. ~(i = k /\ milestone[q][k].status = "Submitted")
      BY <1>7, <2>4
    <3> QED
      BY <1>4, <2>1, <2>2, <2>4, <3>1
  <2> QED
    BY <2>3, <2>4
<1> HIDE DEF new, ms, g
<1>13. PICK f : Pay(t, f, payout, g, refunded)
  BY <1>1
<1>14. \/ project[q].status = "Active" /\ milestone[q][k].status # "Approved"
       \/ project[q].status = "Disputed" /\ milestone[q][k].status = "Pending"
  BY <1>2, <1>5, <1>6
<1> QED
  BY <1>1, <1>3, <1>8, <1>10, <1>11, <1>12, <1>13, <1>14, CalledOffRecord

(* emergencyAdminCancel *)
LEMMA AdminCancelEffect ==
  ASSUME RegistryInv, NEW c, NEW q \in Projects, EmergencyAdminCancel(c, q)
  PROVE  IsCalledOff(q) /\ TokensMove(q) /\ OthersRest(q)
<1> DEFINE k == project[q].settledMilestoneCount
           n == project[q].plan.milestoneCount
           pending == {i \in Milestones(q) : milestone[q][i].status = "Pending"}
           refunded == FreeLiquidity(q)
           payout == 0
           t == project[q].token
           new == [project[q] EXCEPT !.refundedAmount = @ + refunded,
                     !.settledMilestoneCount = @ + Cardinality(pending),
                     !.status = "Cancelled"]
           ms == [i \in MilestoneIndexes |->
                    IF i \in pending THEN [status |-> "Refunded", reviewEnteredAt |-> 0]
                    ELSE milestone[q][i]]
           g == ProjectRecipient(q, project[q].client)
<1>1. /\ Operable(q) /\ project[q].activeDisputeCount = 0
      /\ \A i \in Milestones(q) : milestone[q][i].status \notin {"Approved", "Submitted"}
      /\ project' = [project EXCEPT ![q] = new]
      /\ milestone' = [milestone EXCEPT ![q] = ms]
      /\ ReduceOutstanding(t, refunded) /\ Pay(t, NoAddress, 0, g, refunded)
      /\ projectCount' = projectCount
  <2>1. milestone' = [milestone EXCEPT ![q] = ms]
    BY DEF EmergencyAdminCancel, RegistryInv, ProjectsOK, ProjectsTypeOK
  <2> QED
    BY <2>1, Zenon DEF EmergencyAdminCancel
<1>2. Exists(q) /\ project[q].status \in {"Active", "Disputed"} /\ ProjectsOK
  BY <1>1 DEF Operable, RegistryInv
<1>3. /\ project[q] \in ProjectType /\ k \in Nat /\ n \in Nat /\ k \in Milestones(q)
      /\ project[q].fundedAmount \in Nat
      /\ project[q].releasedAmount \in Nat /\ project[q].refundedAmount \in Nat
      /\ project[q].releasedAmount + project[q].refundedAmount <= project[q].fundedAmount
      /\ project[q].status = "Active" /\ project[q].reservedAmount = 0
      /\ milestone[q][k].status \notin {"Approved", "Submitted"}
  BY <1>1, OpenFacts
<1>4. pending = {i \in Milestones(q) : ~Settled(q, i)}
  <2>1. \A i \in Milestones(q) : milestone[q][i].status \in MilestoneStatuses
    BY <1>1, OpenFacts
  <2> QED
    BY <1>1, <2>1 DEF Settled, MilestoneStatuses
<1>5. pending = k..(n - 1) /\ Cardinality(pending) = n - k
  BY <1>2, <1>4, LeftToSettle
<1>6. refunded \in Nat /\ refunded = AvailableLiquidity(q)
  BY <1>3 DEF FreeLiquidity, AvailableLiquidity
<1> HIDE DEF pending, refunded
<1>7. /\ new.plan = project[q].plan /\ new.token = project[q].token
      /\ new.fundedAmount = project[q].fundedAmount
      /\ new.releasedAmount = project[q].releasedAmount + payout
      /\ new.refundedAmount = project[q].refundedAmount + refunded
      /\ new.settledMilestoneCount = n /\ new.status = "Cancelled"
  <2>1. k + Cardinality(pending) = n /\ project[q].releasedAmount + 0 = project[q].releasedAmount
    BY <1>3, <1>5
  <2> QED
    BY <1>3, <2>1 DEF ProjectType
<1>8. ASSUME NEW i \in MilestoneIndexes
      PROVE  ms[i].status =
               IF i \notin k..(n - 1) THEN milestone[q][i].status
               ELSE IF i = k /\ milestone[q][k].status = "Submitted" THEN "Released"
                    ELSE "Refunded"
  BY <1>3, <1>5
<1>9. /\ payout \in Nat /\ payout + refunded = AvailableLiquidity(q)
      /\ payout = IF milestone[q][k].status = "Submitted" THEN Amount(q, k) ELSE 0
      /\ Pay(t, NoAddress, payout, g, refunded)
      /\ ReduceOutstanding(t, payout + refunded)
  <2>1. 0 + refunded = refunded
    BY <1>6
  <2> QED
    BY <1>1, <1>3, <1>6, <2>1
<1>10. project[q].status = "Active" /\ milestone[q][k].status # "Approved"
  BY <1>3
<1> HIDE DEF new, ms, g, payout
<1> QED
  BY <1>1, <1>6, <1>7, <1>8, <1>9, <1>10, CalledOffRecord

(* createProject *)
LEMMA CreateEffect ==
  ASSUME RegistryInv, NEW c, NEW f, NEW t \in Tokens, NEW plan \in Plans,
         CreateProject(c, f, t, plan)
  PROVE  /\ \E q \in Projects : IsAgreed(q, plan) /\ OthersRest(q)
         /\ UNCHANGED <<tokenOutstanding, balance>>
<1>1. PICK q \in Projects : q = projectCount + 1
  BY StepTypes, MaxProjectsAssumption DEF CreateProject, Projects
<1> DEFINE new == [NoProject EXCEPT !.client = c, !.freelancer = f,
                                    !.token = t, !.plan = plan]
           ms == [i \in MilestoneIndexes |->
                    IF i < plan.milestoneCount THEN NewMilestone ELSE milestone[q][i]]
<1>2. /\ projectCount \in 0..MaxProjects /\ projectCount' = q
      /\ plan.milestoneCount # 0
      /\ \A i \in 0..(plan.milestoneCount - 1) :
           plan.runningTotal[i + 1] # plan.runningTotal[i]
      /\ UNCHANGED <<tokenOutstanding, balance>>
      /\ project' = [project EXCEPT ![q] = new] /\ milestone' = [milestone EXCEPT ![q] = ms]
  BY <1>1, StepTypes DEF CreateProject, tokenVars
<1>3. /\ new.plan = plan /\ new.token = t
      /\ new.fundedAmount = 0 /\ new.releasedAmount = 0 /\ new.refundedAmount = 0
      /\ new.settledMilestoneCount = 0 /\ new.status = "Active"
  BY DEF NoProject
<1>4. ASSUME NEW i \in 0..(plan.milestoneCount - 1)
      PROVE  /\ ms[i].status = "Pending"
             /\ plan.runningTotal[i] < plan.runningTotal[i + 1]
  <2>1. i \in MilestoneIndexes /\ plan.runningTotal[i + 1] - plan.runningTotal[i] \in Nat
    BY PlanFacts
  <2>2. i \in 0..plan.milestoneCount /\ i + 1 \in 0..plan.milestoneCount
    BY PlanFacts
  <2>3. plan.runningTotal[i + 1] \in Nat /\ plan.runningTotal[i] \in Nat
    BY <2>2, PlanFacts
  <2>4. plan.runningTotal[i + 1] # plan.runningTotal[i] /\ i < plan.milestoneCount
    BY <1>2, PlanFacts
  <2>5. plan.runningTotal[i] < plan.runningTotal[i + 1]
    BY <2>1, <2>3, <2>4
  <2> QED
    BY <2>1, <2>4, <2>5 DEF NewMilestone
<1>5. ~Exists(q) /\ Exists(q)' /\ \A p \in Projects \ {q} : Exists(p)' <=> Exists(p)
  <2>1. \A p : p \in 1..q <=> p \in 1..projectCount \/ p = q
    BY <1>1, <1>2
  <2>2. q \notin 1..projectCount
    BY <1>1, <1>2
  <2> QED
    BY <1>2, <2>1, <2>2 DEF Exists
<1> HIDE DEF new, ms
<1>6. project'[q] = new /\ milestone'[q] = ms
  BY <1>2, StepTypes
<1>7. ASSUME NEW p \in Projects \ {q}
      PROVE  project'[p] = project[p] /\ milestone'[p] = milestone[p]
  BY <1>2, StepTypes
<1>8. OthersRest(q)
  BY <1>5, <1>7 DEF OthersRest, Rests
<1>9. IsAgreed(q, plan)
  BY <1>2, <1>3, <1>4, <1>5, <1>6 DEF IsAgreed
<1> QED
  BY <1>2, <1>8, <1>9

-----------------------------------------------------------------------------
(* What every step does to the books.                                      *)

(* The terms of a project are those createProject accepts, and a project    *)
(* that was not created is blank.                                           *)
TermsOK ==
  \A p \in Projects :
    /\ Exists(p) => \A i \in Milestones(p) :
         project[p].plan.runningTotal[i] < project[p].plan.runningTotal[i + 1]
    /\ ~Exists(p) => project[p] = NoProject

(* If the registry loses tokens, it still holds what it owes. *)
NothingMissing ==
  \A u \in Tokens :
    \/ balance'[u][Registry] >= balance[u][Registry]
    \/ balance'[u][Registry] >= tokenOutstanding[u]

(* A transaction leaves the books of every project alone, creates one, or   *)
(* moves the books of one project and the token with them.                  *)
BookStep ==
  \/ (\A p \in Projects : Rests(p)) /\ UNCHANGED tokenOutstanding /\ NothingMissing
  \/ \E q \in Projects : OthersRest(q) /\ TokensMove(q) /\ Progresses(q)
  \/ \E q \in Projects, plan \in Plans :
       /\ OthersRest(q) /\ IsAgreed(q, plan)
       /\ UNCHANGED <<tokenOutstanding, balance>>

LEMMA RestingSteps ==
  ASSUME RegistryInv, UNCHANGED <<projectCount, project, milestone>>
  PROVE  \A p \in Projects : Rests(p)
BY DEF Rests, Exists

(* Nobody works for nothing: a milestone has a price. *)
LEMMA WorkHasPrice ==
  ASSUME RegistryInv, TermsOK, NEW q, Operable(q), NEW i \in Milestones(q)
  PROVE  Amount(q, i) # 0
<1>1. /\ i \in 0..(project[q].plan.milestoneCount - 1) /\ project[q].plan \in Plans
      /\ q \in Projects
  BY OpenFacts DEF Milestones
<1>2. project[q].plan.runningTotal[i + 1] \in Nat /\ project[q].plan.runningTotal[i] \in Nat
  BY <1>1, PlanFacts
<1>3. project[q].plan.runningTotal[i] < project[q].plan.runningTotal[i + 1]
  BY <1>1 DEF TermsOK, Operable
<1> QED
  BY <1>2, <1>3 DEF Amount

(* Only what is not owed can be swept, and nobody else takes from it. *)
LEMMA StepsBesideTokens ==
  ASSUME RegistryInv, AdminStep \/ RecipientStep \/ EnvironmentStep \/ UNCHANGED vars
  PROVE  NothingMissing
<1>1. /\ balance \in [Tokens -> [Holders -> Nat]] /\ tokenOutstanding \in [Tokens -> Nat]
      /\ Registry \in Holders /\ Registry \notin Accounts /\ StrayAmounts \subseteq Nat
      /\ Accounts \subseteq Holders
  BY ChoicesAssumption, AddressAssumption DEF RegistryInv, TokensTypeOK, Holders
<1>2. UNCHANGED balance => NothingMissing
  BY <1>1 DEF NothingMissing
<1>3. CASE AdminStep
  <2>1. ASSUME NEW c, NEW t \in Tokens, NEW to \in Accounts, NEW amount \in StrayAmounts,
               SweepUntrackedToken(c, t, to, amount)
        PROVE  NothingMissing
    <3> SUFFICES ASSUME NEW u \in Tokens
                 PROVE  \/ balance'[u][Registry] >= balance[u][Registry]
                        \/ balance'[u][Registry] >= tokenOutstanding[u]
      BY DEF NothingMissing
    <3>1. balance' = [balance EXCEPT ![t][Registry] = @ - amount, ![t][to] = @ + amount]
          /\ balance[t][Registry] - tokenOutstanding[t] >= amount
      BY <2>1 DEF SweepUntrackedToken, Untracked
    <3>2. balance'[u][Registry] = balance[u][Registry] - (IF u = t THEN amount ELSE 0)
      BY <1>1, <3>1
    <3>3. /\ balance[u][Registry] \in Nat /\ tokenOutstanding[u] \in Nat /\ amount \in Nat
      BY <1>1
    <3> QED
      BY <3>1, <3>2, <3>3
  <2>2. CASE ChangeRoles
    BY <1>2, <2>2 DEF ChangeRoles, tokenVars
  <2>3. ASSUME NEW c, Pause(c) \/ Unpause(c)
        PROVE  NothingMissing
    BY <1>2, <2>3 DEF Pause, Unpause, tokenVars
  <2>4. ASSUME NEW c, NEW t, NEW allowed,
               AttestTokenReviewForAllowlist(c, t) \/ SetAllowedToken(c, t, allowed)
        PROVE  NothingMissing
    BY <1>2, <2>4 DEF AttestTokenReviewForAllowlist, SetAllowedToken, tokenVars
  <2> QED
    BY <1>3, <2>1, <2>2, <2>3, <2>4 DEF AdminStep
<1>4. CASE RecipientStep
  <2>1. ASSUME NEW c, NEW p, NEW s, NEW l, NEW new, NEW nonce, NEW deadline,
               \/ SetPartyAuthorizedRecipient(c, p, s, l, new)
               \/ SetAlternativeRecipient(c, p, s, l, new)
               \/ SignRecipientConsent(c, p, s, l, new, nonce, deadline)
               \/ ExecuteAlternativeRecipient(c, p, s, l)
        PROVE  UNCHANGED balance
    <3>1. CASE SetPartyAuthorizedRecipient(c, p, s, l, new)
      BY <3>1 DEF SetPartyAuthorizedRecipient, tokenVars
    <3>2. CASE SetAlternativeRecipient(c, p, s, l, new)
      BY <3>2 DEF SetAlternativeRecipient, tokenVars
    <3>3. CASE SignRecipientConsent(c, p, s, l, new, nonce, deadline)
      BY <3>3 DEF SignRecipientConsent, tokenVars
    <3>4. CASE ExecuteAlternativeRecipient(c, p, s, l)
      BY <3>4 DEF ExecuteAlternativeRecipient, tokenVars
    <3> QED
      BY <2>1, <3>1, <3>2, <3>3, <3>4
  <2>2. ASSUME NEW consent, SetPartyAuthorizedRecipientBySig(consent)
        PROVE  UNCHANGED balance
    BY <2>2 DEF SetPartyAuthorizedRecipientBySig, tokenVars
  <2> QED
    BY <1>2, <1>4, <2>1, <2>2 DEF RecipientStep
<1>5. CASE EnvironmentStep
  <2>1. ASSUME NEW t \in Tokens, NEW from \in Accounts, NEW amount \in StrayAmounts,
               StrayTransfer(from, t, amount)
        PROVE  NothingMissing
    <3> SUFFICES ASSUME NEW u \in Tokens
                 PROVE  balance'[u][Registry] >= balance[u][Registry]
      BY DEF NothingMissing
    <3>1. balance' =
            [balance EXCEPT ![t][from] = @ - amount, ![t][Registry] = @ + amount]
      BY <2>1 DEF StrayTransfer
    <3>2. balance'[u][Registry] = balance[u][Registry] + (IF u = t THEN amount ELSE 0)
      BY <1>1, <3>1
    <3>3. balance[u][Registry] \in Nat /\ amount \in Nat
      BY <1>1
    <3> QED
      BY <3>2, <3>3
  <2>2. CASE Tick
    BY <1>2, <2>2 DEF Tick, tokenVars
  <2>3. ASSUME NEW a, NEW t, NEW b, SetBlocked(t, a, b)
        PROVE  NothingMissing
    BY <1>2, <2>3 DEF SetBlocked
  <2> QED
    BY <1>5, <2>1, <2>2, <2>3 DEF EnvironmentStep
<1>6. CASE UNCHANGED vars
  BY <1>2, <1>6 DEF vars, tokenVars
<1> QED
  BY <1>3, <1>4, <1>5, <1>6

LEMMA EveryBookStep ==
  ASSUME RegistryInv, TermsOK, [Next]_vars
  PROVE  BookStep
<1>0. UNCHANGED balance => NothingMissing
  BY DEF NothingMissing, RegistryInv, TokensTypeOK, Holders
<1>1. ASSUME NEW q \in Projects, NEW i, Operable(q), i \in Milestones(q)
      PROVE  Amount(q, i) # 0
  BY <1>1, WorkHasPrice
<1>2. CASE AdminStep \/ RecipientStep \/ EnvironmentStep \/ UNCHANGED vars
  BY <1>2, StepsBesideProjects, StepsBesideTokens, RestingSteps DEF BookStep
<1>3. CASE ProjectStep
  <2>1. ASSUME NEW parties \in Parties, NEW t \in Tokens, NEW plan \in Plans,
               CreateProject(parties[1], parties[2], t, plan)
        PROVE  BookStep
    BY <2>1, CreateEffect DEF BookStep
  <2>2. ASSUME NEW c \in Accounts, NEW q \in Projects, NEW amount \in FundingAmounts,
               FundProject(c, q, amount)
        PROVE  BookStep
    BY <2>2, FundEffect DEF BookStep, Progresses
  <2>3. ASSUME NEW c \in Accounts, NEW q \in Projects,
               CancelProject(c, q) \/ EmergencyAdminCancel(c, q)
        PROVE  BookStep
    BY <2>3, CancelEffect, AdminCancelEffect DEF BookStep, Progresses
  <2> QED
    BY <1>3, <2>1, <2>2, <2>3 DEF ProjectStep
<1>4. CASE MilestoneStep
  <2> SUFFICES ASSUME NEW c \in Accounts, NEW q \in Projects, NEW i \in MilestoneIndexes,
                      \/ SubmitMilestone(c, q, i) \/ ApproveMilestone(c, q, i)
                      \/ ReleaseMilestone(c, q, i) \/ RaiseDispute(c, q, i)
                      \/ AppendDisputeEvidence(c, q, i)
                      \/ ResolveStaleDisputeByTimeout(c, q, i)
               PROVE  BookStep
    BY <1>4 DEF MilestoneStep
  <2>1. CASE SubmitMilestone(c, q, i) \/ ApproveMilestone(c, q, i)
    BY <2>1, DeliveryEffect DEF BookStep, Progresses
  <2>2. CASE ReleaseMilestone(c, q, i)
    <3>1. Operable(q) /\ i \in Milestones(q)
      BY <2>2 DEF ReleaseMilestone
    <3>2. Amount(q, i) \in Nat /\ 0 \in Nat
      BY <3>1, OpenFacts
    <3> QED
      BY <1>1, <2>2, <3>1, <3>2, ReleaseEffect DEF BookStep, Progresses
  <2>3. CASE RaiseDispute(c, q, i)
    BY <2>3, RaiseEffect DEF BookStep, Progresses
  <2>4. CASE AppendDisputeEvidence(c, q, i)
    BY <1>0, <2>4, RestingSteps DEF AppendDisputeEvidence, BookStep, tokenVars
  <2>5. CASE ResolveStaleDisputeByTimeout(c, q, i)
    BY <2>5, StaleEffect DEF BookStep, Progresses
  <2> QED
    BY <2>1, <2>2, <2>3, <2>4, <2>5
<1>5. CASE ResolutionStep
  <2> SUFFICES ASSUME NEW c \in Accounts, NEW q \in Projects, NEW i \in MilestoneIndexes,
                      NEW r \in Resolutions,
                      \/ VoteOnDispute(c, q, i, r) \/ ResolveDispute(c, q, i, r)
                      \/ ProposeEmergencyResolveDispute(c, q, i, r)
                      \/ CancelEmergencyResolveDispute(c, q, i, r)
                      \/ EmergencyResolveDispute(c, q, i, r)
               PROVE  BookStep
    BY <1>5 DEF ResolutionStep
  <2>1. CASE ResolveDispute(c, q, i, r) \/ EmergencyResolveDispute(c, q, i, r)
    <3>1. Operable(q) /\ i \in Milestones(q)
      BY <2>1 DEF ResolveDispute, EmergencyResolveDispute, ValidEmergency
    <3> QED
      BY <1>1, <2>1, <3>1, ResolvingEffect DEF BookStep, Progresses
  <2>2. CASE \/ VoteOnDispute(c, q, i, r) \/ ProposeEmergencyResolveDispute(c, q, i, r)
             \/ CancelEmergencyResolveDispute(c, q, i, r)
    BY <1>0, <2>2, ProposingSteps, RestingSteps DEF BookStep
  <2> QED
    BY <2>1, <2>2
<1> QED
  BY <1>2, <1>3, <1>4, <1>5 DEF Next

LEMMA TermsNext ==
  ASSUME RegistryInv, TermsOK, [Next]_vars
  PROVE  TermsOK'
<1> SUFFICES ASSUME NEW p \in Projects
             PROVE  /\ Exists(p)' => \A i \in Milestones(p)' :
                         project'[p].plan.runningTotal[i] < project'[p].plan.runningTotal[i + 1]
                    /\ ~Exists(p)' => project'[p] = NoProject
  BY DEF TermsOK
<1>1. CASE Rests(p)
  BY <1>1 DEF Rests, TermsOK, Milestones
<1>2. CASE GoesOn(p)
  BY <1>2 DEF GoesOn, Operable, TermsOK, Milestones
<1>3. ASSUME NEW plan \in Plans, IsAgreed(p, plan)
      PROVE  /\ Exists(p)' => \A i \in Milestones(p)' :
                  project'[p].plan.runningTotal[i] < project'[p].plan.runningTotal[i + 1]
             /\ ~Exists(p)' => project'[p] = NoProject
  BY <1>3 DEF IsAgreed, Milestones
<1>4. ASSUME NEW q \in Projects, Progresses(q)
      PROVE  GoesOn(q)
  BY <1>4 DEF Progresses, IsFunded, IsHandedOn, IsContested, IsSettled, IsCalledOff
<1> QED
  BY <1>1, <1>2, <1>3, <1>4, EveryBookStep DEF BookStep, OthersRest

-----------------------------------------------------------------------------
(* The steps of the books are steps of the lifecycle.                      *)

(* Outside of its own steps a project does not move. *)
LEMMA RestingStutters ==
  ASSUME RegistryInv, NEW p \in Projects, Rests(p)
  PROVE  UNCHANGED Lifecycle(p)!lifecycleVars
<1>1. NextOf(p)' = NextOf(p) /\ AgreementOf(project[p].plan)' = AgreementOf(project[p].plan)
  BY DEF Rests, NextOf, AgreementOf
<1>2. WorkOf(p)' = WorkOf(p)
  <2>1. NextOf(p) < project[p].plan.milestoneCount => NextOf(p) \in MilestoneIndexes
    <3>1. /\ project[p] \in ProjectType
      BY StepTypes
    <3>2. /\ project[p].settledMilestoneCount \in Nat
          /\ project[p].plan.milestoneCount \in 0..MAX_MILESTONES
      BY <3>1 DEF ProjectType, PlanType
    <3> QED
      BY <3>2, MilestonesAssumption DEF NextOf, MilestoneIndexes
  <2> QED
    BY <1>1, <2>1 DEF Rests, WorkOf, NextOf
<1>3. OutcomeOf(p)' = OutcomeOf(p)
  BY <1>1 DEF Rests, OutcomeOf
<1> QED
  BY <1>1, <1>2, <1>3 DEF Rests, Lifecycle!lifecycleVars

(* What was never created has the initial lifecycle. *)
LEMMA BlankIsInitial ==
  ASSUME NEW p \in Projects, ~Exists(p), project[p] = NoProject
  PROVE  Lifecycle(p)!LifecycleInit
<1> DEFINE S == {i + 1 : i \in MilestoneIndexes}
           D == {0} \cup S
<1>1. D = 0..MAX_MILESTONES
  <2>1. ASSUME NEW x \in S  PROVE x \in 0..MAX_MILESTONES
    BY <2>1, MilestonesAssumption DEF MilestoneIndexes
  <2>2. ASSUME NEW x \in 0..MAX_MILESTONES, x # 0  PROVE x \in S
    <3>1. x - 1 \in MilestoneIndexes /\ x = (x - 1) + 1
      BY <2>2, MilestonesAssumption DEF MilestoneIndexes
    <3> QED
      BY <3>1
  <2>3. 0 \in 0..MAX_MILESTONES
    BY MilestonesAssumption
  <2> HIDE DEF S
  <2> QED
    BY <2>1, <2>2, <2>3
<1>2. AgreementOf(project[p].plan) = Lifecycle(p)!NoAgreement
  <2>1. Lifecycle(p)!NoAgreement = [count |-> 0, cost |-> [k \in D |-> 0]]
    BY DEF Lifecycle!NoAgreement
  <2> HIDE DEF D
  <2>2. AgreementOf(project[p].plan) =
          [count |-> 0, cost |-> [k \in 0..MAX_MILESTONES |-> 0]]
    <3>1. project[p].plan = NoPlan
      BY DEF NoProject
    <3>2. /\ NoPlan.milestoneCount = 0
          /\ NoPlan.runningTotal = [k \in 0..MAX_MILESTONES |-> 0]
      BY DEF NoPlan
    <3> QED
      BY <3>1, <3>2, Zenon DEF AgreementOf
  <2> QED
    BY <1>1, <2>1, <2>2, Zenon
<1>3. NextOf(p) = 0 /\ project[p].plan.milestoneCount = 0
  BY DEF NextOf, NoProject, NoPlan
<1>4. WorkOf(p) = "Pending"
  BY <1>3 DEF WorkOf
<1>5. OutcomeOf(p) = [i \in MilestoneIndexes |-> "Pending"]
  BY <1>3 DEF OutcomeOf, MilestoneIndexes
<1>6. /\ project[p].fundedAmount = 0 /\ project[p].releasedAmount = 0
      /\ project[p].refundedAmount = 0
  BY DEF NoProject
<1> QED
  BY <1>2, <1>3, <1>4, <1>5, <1>6 DEF Lifecycle!LifecycleInit

(* createProject agrees on the milestones. *)
LEMMA AgreedStep ==
  ASSUME TermsOK, NEW p \in Projects, NEW plan \in Plans, IsAgreed(p, plan)
  PROVE  Lifecycle(p)!LifecycleNext
<1> DEFINE a == AgreementOf(plan)
<1>1. Lifecycle(p)!LifecycleInit /\ project[p] = NoProject /\ ~Exists(p)
  BY BlankIsInitial DEF TermsOK, IsAgreed
<1>2. a \in {AgreementOf(x) : x \in Plans}
  OBVIOUS
<1>3. /\ a.count = plan.milestoneCount /\ a.cost = plan.runningTotal
      /\ plan.milestoneCount \in Nat /\ plan.milestoneCount # 0
  BY PlanFacts DEF AgreementOf, IsAgreed
<1>4. NextOf(p)' = 0 /\ WorkOf(p)' = "Pending"
      /\ OutcomeOf(p)' = [i \in MilestoneIndexes |-> "Pending"]
  <2>1. NextOf(p)' = 0
    BY DEF IsAgreed, NextOf
  <2>2. 0 \in 0..(plan.milestoneCount - 1) /\ 0 < plan.milestoneCount
    BY <1>3
  <2>3. WorkOf(p)' = "Pending"
    BY <2>1, <2>2 DEF IsAgreed, WorkOf
  <2>4. OutcomeOf(p)' = [i \in MilestoneIndexes |-> "Pending"]
    BY <2>1 DEF OutcomeOf, MilestoneIndexes
  <2> QED
    BY <2>1, <2>3, <2>4
<1>5. AgreementOf(project[p].plan)' = a
  BY DEF IsAgreed, AgreementOf
<1> HIDE DEF a
<1>6. Lifecycle(p)!Agree(a)
  <2>1. \A i \in 0..(a.count - 1) : a.cost[i] < a.cost[i + 1]
    BY <1>3 DEF IsAgreed
  <2>2. a.count > 0
    BY <1>3
  <2>3. /\ (IF Exists(p) THEN project[p].status ELSE "None") = "None"
        /\ (IF Exists(p) THEN project[p].status ELSE "None")' = "Active"
    BY <1>1 DEF IsAgreed
  <2>4. /\ project'[p].fundedAmount = project[p].fundedAmount
        /\ project'[p].releasedAmount = project[p].releasedAmount
        /\ project'[p].refundedAmount = project[p].refundedAmount
    BY <1>1 DEF IsAgreed, NoProject
  <2>5. NextOf(p)' = NextOf(p) /\ WorkOf(p)' = WorkOf(p) /\ OutcomeOf(p)' = OutcomeOf(p)
    BY <1>1, <1>4 DEF Lifecycle!LifecycleInit
  <2> QED
    BY <1>5, <2>1, <2>2, <2>3, <2>4, <2>5 DEF Lifecycle!Agree
<1> QED
  BY <1>2, <1>6 DEF Lifecycle!LifecycleNext

(* What the lifecycle sees of an open project, before and after a step.     *)
LEMMA OpenView ==
  ASSUME RegistryInv, NEW q, Operable(q)
  PROVE  LET k == project[q].settledMilestoneCount IN
         /\ (IF Exists(q) THEN project[q].status ELSE "None") = project[q].status
         /\ NextOf(q) = k /\ WorkOf(q) = milestone[q][k].status
         /\ Lifecycle(q)!Price = Amount(q, k)
         /\ Lifecycle(q)!Held = AvailableLiquidity(q)
<1>1. project[q].settledMilestoneCount < project[q].plan.milestoneCount
  BY OpenFacts
<1>2. NextOf(q) = project[q].settledMilestoneCount
      /\ WorkOf(q) = milestone[q][project[q].settledMilestoneCount].status
  BY <1>1 DEF NextOf, WorkOf
<1>3. Lifecycle(q)!Price = Amount(q, project[q].settledMilestoneCount)
  BY <1>2 DEF Lifecycle!Price, AgreementOf, Amount
<1>4. Lifecycle(q)!Held = AvailableLiquidity(q)
  BY DEF Lifecycle!Held, AvailableLiquidity
<1> QED
  BY <1>2, <1>3, <1>4 DEF Operable

LEMMA NextView ==
  ASSUME NEW q, GoesOn(q)
  PROVE  /\ (IF Exists(q) THEN project[q].status ELSE "None")' = project'[q].status
         /\ AgreementOf(project[q].plan)' = AgreementOf(project[q].plan)
  BY DEF GoesOn, AgreementOf

(* Settled milestones stay as they are, the one in work does too unless the  *)
(* step says otherwise.                                                      *)
LEMMA SameView ==
  ASSUME RegistryInv, NEW q, GoesOn(q),
         project'[q].settledMilestoneCount = project[q].settledMilestoneCount,
         \A i \in MilestoneIndexes \ {project[q].settledMilestoneCount} :
           milestone'[q][i].status = milestone[q][i].status
  PROVE  /\ NextOf(q)' = NextOf(q) /\ OutcomeOf(q)' = OutcomeOf(q)
         /\ WorkOf(q)' = milestone'[q][project[q].settledMilestoneCount].status
<1> DEFINE k == project[q].settledMilestoneCount
<1>1. k \in Nat /\ k < project[q].plan.milestoneCount
  BY OpenFacts DEF GoesOn
<1>2. NextOf(q) = k /\ NextOf(q)' = k /\ project'[q].plan = project[q].plan
  BY DEF NextOf, GoesOn
<1>3. WorkOf(q)' = milestone'[q][k].status
  BY <1>1, <1>2 DEF WorkOf
<1>4. ASSUME NEW i \in MilestoneIndexes, i < k
      PROVE  milestone'[q][i].status = milestone[q][i].status
  BY <1>1, <1>4
<1>5. OutcomeOf(q)' = OutcomeOf(q)
  <2> HIDE DEF k
  <2> QED
    BY <1>2, <1>4 DEF OutcomeOf
<1> QED
  BY <1>2, <1>3, <1>5

(* fundProject is a deposit. *)
LEMMA FundedStep ==
  ASSUME RegistryInv, NEW q \in Projects, NEW amount \in FundingAmounts,
         IsFunded(q, amount)
  PROVE  Lifecycle(q)!LifecycleNext
<1>1. GoesOn(q) /\ Operable(q) /\ project[q].settledMilestoneCount \in MilestoneIndexes
  BY OpenFacts DEF IsFunded, GoesOn
<1>2. NextOf(q)' = NextOf(q) /\ OutcomeOf(q)' = OutcomeOf(q) /\ WorkOf(q)' = WorkOf(q)
  BY <1>1, SameView, OpenView DEF IsFunded
<1>3. Lifecycle(q)!Deposit(amount)
  BY <1>1, <1>2, OpenView, NextView
    DEF IsFunded, Operable, TotalAmount, Lifecycle!Deposit, Lifecycle!IsOpen, AgreementOf
<1> QED
  BY <1>3 DEF Lifecycle!LifecycleNext

(* submitMilestone delivers, approveMilestone approves. *)
LEMMA HandedOnStep ==
  ASSUME RegistryInv, NEW q \in Projects,
         \/ IsHandedOn(q, "Pending", "Submitted")
         \/ IsHandedOn(q, "Submitted", "Approved")
  PROVE  Lifecycle(q)!LifecycleNext
<1>1. GoesOn(q) /\ Operable(q)
  BY DEF IsHandedOn, GoesOn
<1>2. /\ NextOf(q)' = NextOf(q) /\ OutcomeOf(q)' = OutcomeOf(q)
      /\ WorkOf(q)' = milestone'[q][project[q].settledMilestoneCount].status
  BY <1>1, SameView DEF IsHandedOn
<1>3. /\ Amount(q, project[q].settledMilestoneCount) \in Nat
      /\ AvailableLiquidity(q) \in Int
  BY <1>1, OpenFacts DEF AvailableLiquidity
<1>4. ASSUME IsHandedOn(q, "Pending", "Submitted")
      PROVE  Lifecycle(q)!Deliver
  BY <1>1, <1>2, <1>3, <1>4, OpenView, NextView DEF IsHandedOn, Lifecycle!Deliver
<1>5. ASSUME IsHandedOn(q, "Submitted", "Approved")
      PROVE  Lifecycle(q)!Approve
  BY <1>1, <1>2, <1>5, OpenView, NextView DEF IsHandedOn, Lifecycle!Approve
<1> QED
  BY <1>4, <1>5 DEF Lifecycle!LifecycleNext

(* raiseDispute contests. *)
LEMMA ContestedStep ==
  ASSUME RegistryInv, NEW q \in Projects, IsContested(q)
  PROVE  Lifecycle(q)!LifecycleNext
<1>1. GoesOn(q) /\ Operable(q) /\ project[q].settledMilestoneCount \in MilestoneIndexes
  BY OpenFacts DEF IsContested, GoesOn
<1>2. NextOf(q)' = NextOf(q) /\ OutcomeOf(q)' = OutcomeOf(q) /\ WorkOf(q)' = WorkOf(q)
  BY <1>1, SameView, OpenView DEF IsContested
<1>3. /\ Amount(q, project[q].settledMilestoneCount) \in Nat
      /\ AvailableLiquidity(q) \in Int
  BY <1>1, OpenFacts DEF AvailableLiquidity
<1>4. Lifecycle(q)!Contest
  BY <1>1, <1>2, <1>3, OpenView, NextView DEF IsContested, Lifecycle!Contest
<1> QED
  BY <1>4 DEF Lifecycle!LifecycleNext

(* The milestones after the one in work have not been touched.               *)
LEMMA AheadIsPending ==
  ASSUME RegistryInv, NEW q, Operable(q), NEW i \in Milestones(q),
         i > project[q].settledMilestoneCount
  PROVE  milestone[q][i].status = "Pending"
<1>1. i \in Nat /\ project[q].settledMilestoneCount \in Nat
      /\ milestone[q][i].status \in MilestoneStatuses
      /\ ~Settled(q, i) /\ ~Delivered(q, i)
  <2>1. i \in Nat
    BY OpenFacts DEF Milestones
  <2> QED
    BY <2>1, OpenFacts
<1> QED
  BY <1>1 DEF MilestoneStatuses, Settled, Delivered

(* A settlement moves the pointer over the milestone it was for.             *)
LEMMA SettledView ==
  ASSUME RegistryInv, NEW q \in Projects, NEW a \in Nat, NEW b \in Nat, IsSettled(q, a, b)
  PROVE  /\ NextOf(q)' = NextOf(q) + 1 /\ WorkOf(q)' = "Pending"
         /\ OutcomeOf(q)' = [OutcomeOf(q) EXCEPT ![NextOf(q)] =
                               IF a = 0 THEN "Refunded" ELSE "Released"]
<1> DEFINE k == project[q].settledMilestoneCount
           n == project[q].plan.milestoneCount
<1>1. GoesOn(q) /\ Operable(q)
  BY DEF IsSettled, GoesOn
<1>2. k \in Nat /\ n \in Nat /\ k < n /\ k \in MilestoneIndexes
  BY <1>1, OpenFacts
<1>3. /\ NextOf(q) = k /\ NextOf(q)' = k + 1 /\ project'[q].plan.milestoneCount = n
      /\ milestone'[q][k].status = IF a = 0 THEN "Refunded" ELSE "Released"
      /\ \A i \in MilestoneIndexes \ {k} :
           milestone'[q][i].status = milestone[q][i].status
  BY <1>1 DEF IsSettled, NextOf, GoesOn
<1>4. WorkOf(q)' = "Pending"
  <2>1. CASE k + 1 < n
    <3>1. k + 1 \in Milestones(q) /\ k + 1 > k
      BY <1>2, <2>1 DEF Milestones
    <3>2. k + 1 \in MilestoneIndexes /\ milestone[q][k + 1].status = "Pending"
      BY <1>1, <3>1, OpenFacts, AheadIsPending
    <3>3. milestone'[q][k + 1].status = "Pending"
      BY <1>2, <1>3, <3>2
    <3> QED
      BY <1>3, <2>1, <3>3 DEF WorkOf
  <2>2. CASE ~(k + 1 < n)
    BY <1>3, <2>2 DEF WorkOf
  <2> QED
    BY <2>1, <2>2
<1>5. OutcomeOf(q)' = [OutcomeOf(q) EXCEPT ![NextOf(q)] =
                        IF a = 0 THEN "Refunded" ELSE "Released"]
  <2> DEFINE v == IF a = 0 THEN "Refunded" ELSE "Released"
             old(i) == IF i < k THEN milestone[q][i].status ELSE "Pending"
             new(i) == IF i < k + 1 THEN milestone'[q][i].status ELSE "Pending"
  <2>1. ASSUME NEW i \in MilestoneIndexes
        PROVE  new(i) = IF i = k THEN v ELSE old(i)
    <3>1. i \in Nat
      BY MilestonesAssumption DEF MilestoneIndexes
    <3> QED
      BY <1>2, <1>3, <3>1
  <2>2. OutcomeOf(q)' = [i \in MilestoneIndexes |-> new(i)]
        /\ OutcomeOf(q) = [i \in MilestoneIndexes |-> old(i)]
    BY <1>3 DEF OutcomeOf
  <2> HIDE DEF k, v, old, new
  <2>3. [i \in MilestoneIndexes |-> new(i)]
          = [[i \in MilestoneIndexes |-> old(i)] EXCEPT ![k] = v]
    BY <1>2, <2>1
  <2> QED
    BY <1>3, <2>2, <2>3 DEF v
<1> QED
  BY <1>3, <1>4, <1>5

(* Every way to settle a milestone releases or decides it. *)
LEMMA SettledStep ==
  ASSUME RegistryInv, NEW q \in Projects, NEW a \in Nat, NEW b \in Nat, IsSettled(q, a, b)
  PROVE  Lifecycle(q)!LifecycleNext
<1> DEFINE k == project[q].settledMilestoneCount
           price == Lifecycle(q)!Price
<1>1. GoesOn(q) /\ Operable(q) /\ a + b = Amount(q, k)
  BY DEF IsSettled, GoesOn
<1>2. price = Amount(q, k) /\ price \in Nat /\ a + b = price
  BY <1>1, OpenView, OpenFacts
<1>3. /\ NextOf(q) = k /\ WorkOf(q) = milestone[q][k].status
      /\ (IF Exists(q) THEN project[q].status ELSE "None") = project[q].status
      /\ (IF Exists(q) THEN project[q].status ELSE "None")' = project'[q].status
      /\ AgreementOf(project[q].plan)' = AgreementOf(project[q].plan)
  BY <1>1, OpenView, NextView
<1>4. Lifecycle(q)!Settle(a, b)
  <2>1. /\ project'[q].releasedAmount = project[q].releasedAmount + a
        /\ project'[q].refundedAmount = project[q].refundedAmount + b
        /\ project'[q].fundedAmount = project[q].fundedAmount
    BY DEF IsSettled
  <2>2. project'[q].status = IF NextOf(q) + 1 = AgreementOf(project[q].plan).count
                             THEN "Completed" ELSE "Active"
    BY <1>3 DEF IsSettled, AgreementOf
  <2>3. a + b = Lifecycle(q)!Price
    BY <1>2
  <2> HIDE DEF k, price
  <2> QED
    BY <1>3, <2>1, <2>2, <2>3, SettledView DEF Lifecycle!Settle
<1> HIDE DEF k, price
<1>5. CASE project[q].status = "Active" /\ milestone[q][k].status = "Approved" /\ b = 0
  <2>1. a = price
    BY <1>2, <1>5
  <2>2. Lifecycle(q)!Settle(price, 0)
    BY <1>4, <1>5, <2>1
  <2>3. Lifecycle(q)!Release
    BY <1>3, <1>5, <2>2 DEF Lifecycle!Release, price
  <2> QED
    BY <2>3 DEF Lifecycle!LifecycleNext
<1>6. CASE project[q].status = "Disputed" /\ (milestone[q][k].status = "Pending" => a = 0)
  <2>1. b = price - a /\ a \in 0..price
    BY <1>2
  <2>2. Lifecycle(q)!Settle(a, price - a)
    BY <1>4, <2>1
  <2>3. Lifecycle(q)!Decide(a)
    BY <1>3, <1>6, <2>2 DEF Lifecycle!Decide, price
  <2> QED
    BY <1>3, <1>6, <2>1, <2>3 DEF Lifecycle!LifecycleNext, price
<1> QED
  BY <1>5, <1>6 DEF IsSettled, k

(* cancelProject and emergencyAdminCancel call the project off.              *)
LEMMA CalledOffStep ==
  ASSUME RegistryInv, NEW q \in Projects, IsCalledOff(q)
  PROVE  Lifecycle(q)!LifecycleNext
<1> DEFINE k == project[q].settledMilestoneCount
           n == project[q].plan.milestoneCount
           submitted == milestone[q][k].status = "Submitted"
           payout == IF submitted THEN Amount(q, k) ELSE 0
<1>1. GoesOn(q) /\ Operable(q)
  BY DEF IsCalledOff, GoesOn
<1>2. k \in Nat /\ n \in Nat /\ k < n /\ k \in MilestoneIndexes
  BY <1>1, OpenFacts
<1>3. /\ NextOf(q) = k /\ WorkOf(q) = milestone[q][k].status
      /\ Lifecycle(q)!Price = Amount(q, k) /\ Lifecycle(q)!Held = AvailableLiquidity(q)
      /\ (IF Exists(q) THEN project[q].status ELSE "None") = project[q].status
      /\ (IF Exists(q) THEN project[q].status ELSE "None")' = project'[q].status
      /\ AgreementOf(project[q].plan)' = AgreementOf(project[q].plan)
      /\ AgreementOf(project[q].plan).count = n
  BY <1>1, OpenView, NextView DEF AgreementOf
<1>4. /\ \/ project[q].status = "Active" /\ milestone[q][k].status # "Approved"
         \/ project[q].status = "Disputed" /\ milestone[q][k].status = "Pending"
      /\ payout <= AvailableLiquidity(q)
      /\ project'[q].fundedAmount = project[q].fundedAmount
      /\ project'[q].releasedAmount = project[q].releasedAmount + payout
      /\ project'[q].refundedAmount =
           project[q].refundedAmount + AvailableLiquidity(q) - payout
      /\ project'[q].settledMilestoneCount = n
      /\ project'[q].status = "Cancelled"
      /\ \A i \in MilestoneIndexes :
           milestone'[q][i].status =
             IF i \notin k..(n - 1) THEN milestone[q][i].status
             ELSE IF i = k /\ submitted THEN "Released" ELSE "Refunded"
  BY DEF IsCalledOff
<1>5. NextOf(q)' = n /\ WorkOf(q)' = "Pending"
  <2>1. NextOf(q)' = n /\ project'[q].plan.milestoneCount = n
    BY <1>1, <1>4 DEF NextOf, GoesOn
  <2> QED
    BY <1>2, <2>1 DEF WorkOf
<1>6. OutcomeOf(q)' = [i \in MilestoneIndexes |->
        IF i \notin k..(n - 1) THEN OutcomeOf(q)[i]
        ELSE IF i = k /\ submitted THEN "Released" ELSE "Refunded"]
  <2> DEFINE new(i) == IF i < n THEN milestone'[q][i].status ELSE "Pending"
             end(i) == IF i \notin k..(n - 1) THEN OutcomeOf(q)[i]
                       ELSE IF i = k /\ submitted THEN "Released" ELSE "Refunded"
  <2>1. ASSUME NEW i \in MilestoneIndexes
        PROVE  new(i) = end(i)
    <3>1. i \in Nat
      BY MilestonesAssumption DEF MilestoneIndexes
    <3>2. OutcomeOf(q)[i] = IF i < k THEN milestone[q][i].status ELSE "Pending"
      BY <1>3 DEF OutcomeOf
    <3> QED
      BY <1>2, <1>4, <3>1, <3>2
  <2>2. OutcomeOf(q)' = [i \in MilestoneIndexes |-> new(i)]
    BY <1>5 DEF OutcomeOf
  <2> HIDE DEF new, end
  <2>3. OutcomeOf(q)' = [i \in MilestoneIndexes |-> end(i)]
    BY <2>1, <2>2
  <2> QED
    BY <2>3 DEF end
<1> HIDE DEF k, n
<1>7. Lifecycle(q)!CallOff
  <2>1. payout = IF WorkOf(q) = "Submitted" THEN Lifecycle(q)!Price ELSE 0
    BY <1>3
  <2> HIDE DEF payout
  <2>2. \/ project[q].status = "Active" /\ WorkOf(q) # "Approved"
        \/ project[q].status = "Disputed" /\ WorkOf(q) = "Pending"
    BY <1>3, <1>4
  <2> QED
    BY <1>3, <1>4, <1>5, <1>6, <2>1, <2>2 DEF Lifecycle!CallOff
<1> QED
  BY <1>7 DEF Lifecycle!LifecycleNext

LEMMA ProgressStep ==
  ASSUME RegistryInv, NEW q \in Projects, Progresses(q)
  PROVE  Lifecycle(q)!LifecycleNext
  BY FundedStep, HandedOnStep, ContestedStep, SettledStep, CalledOffStep DEF Progresses

LEMMA LifecycleStep ==
  ASSUME RegistryInv, TermsOK, [Next]_vars, NEW p \in Projects
  PROVE  /\ Exists(p) \/ Lifecycle(p)!LifecycleInit
         /\ [Lifecycle(p)!LifecycleNext]_(Lifecycle(p)!lifecycleVars)
<1>1. Exists(p) \/ Lifecycle(p)!LifecycleInit
  BY BlankIsInitial DEF TermsOK
<1>2. Rests(p) => UNCHANGED Lifecycle(p)!lifecycleVars
  BY RestingStutters
<1>3. Progresses(p) => Lifecycle(p)!LifecycleNext
  BY ProgressStep
<1>4. (\E plan \in Plans : IsAgreed(p, plan)) => Lifecycle(p)!LifecycleNext
  BY AgreedStep
<1>5. \/ Rests(p) \/ Progresses(p) \/ \E plan \in Plans : IsAgreed(p, plan)
  BY EveryBookStep DEF BookStep, OthersRest
<1> QED
  BY <1>1, <1>2, <1>3, <1>4, <1>5

-----------------------------------------------------------------------------
(* Prices stay positive and what was not created stays blank.               *)
THEOREM TermsInvariant == Spec => [](RegistryInv /\ TermsOK)
<1>1. Init => TermsOK
  BY DEF Init, TermsOK, Exists
<1>2. RegistryInv /\ TermsOK /\ [Next]_vars => TermsOK'
  BY TermsNext
<1> QED
  BY <1>1, <1>2, RegistryInvariant, PTL DEF Spec

(* The registry keeps every project's promise: what happens to one project  *)
(* is always a step of EscrowLifecycle.                                     *)
THEOREM RegistryKeepsLifecycle == Spec => KeepsLifecycle
<1> DEFINE P == \A p \in Projects :
              /\ Exists(p) \/ Lifecycle(p)!LifecycleInit
              /\ [Lifecycle(p)!LifecycleNext]_(Lifecycle(p)!lifecycleVars)
<1>1. RegistryInv /\ TermsOK /\ [Next]_vars => [P]_vars
  BY LifecycleStep
<1> HIDE DEF P
<1>2. Spec => [][P]_vars
  BY <1>1, TermsInvariant, PTL DEF Spec
<1> QED
  BY <1>2 DEF KeepsLifecycle, P

(* EscrowFlowRegistry implements the lifecycle of each of its projects. *)
THEOREM RegistryImplementsLifecycle ==
  ASSUME NEW p \in Projects
  PROVE  Spec => Lifecycle(p)!LifecycleSpec
<1>1. Init => Lifecycle(p)!LifecycleInit
  BY BlankIsInitial DEF Init, Exists
<1>2. /\ RegistryInv /\ TermsOK /\ [Next]_vars
      => [Lifecycle(p)!LifecycleNext]_(Lifecycle(p)!lifecycleVars)
  BY LifecycleStep
<1> QED
  BY <1>1, <1>2, TermsInvariant, PTL DEF Spec, Lifecycle!LifecycleSpec

-----------------------------------------------------------------------------
(* Sums over finite sets.                                                  *)

Pick(s) == CHOOSE x \in s : TRUE

(* The function by which MapThenSumSet adds up the values w over S. *)
Adds(S, w, it) ==
  it = [s \in SUBSET S |->
          IF s = {} THEN 0 ELSE w[CHOOSE x \in s : TRUE] + it[s \ {CHOOSE x \in s : TRUE}]]
SumOver(w, S) == (CHOOSE it : Adds(S, w, it))[S]

(* Among some finite sets there is one that contains no other. *)
LEMMA SmallestSet ==
  ASSUME NEW S, IsFiniteSet(S), NEW T \in SUBSET (SUBSET S), T # {}
  PROVE  \E s \in T : \A r \in T : r \subseteq s => r = s
<1>1. IsWellFoundedOn(StrictSubsetOrdering(S), SUBSET S)
  BY FS_StrictSubsetOrderingWellFounded, FS_FiniteSubsetsOfFinite
<1>2. \E s \in T : \A r \in T : ~ (<<r, s>> \in StrictSubsetOrdering(S))
  BY <1>1, WFMin
<1>3. ASSUME NEW r \in T, NEW s \in T, r \subseteq s, r # s
      PROVE  <<r, s>> \in StrictSubsetOrdering(S)
  BY <1>3 DEF StrictSubsetOrdering
<1> QED
  BY <1>2, <1>3

LEMMA AddsAt ==
  ASSUME NEW S, NEW w, NEW it, Adds(S, w, it)
  PROVE  /\ it[{}] = 0
         /\ \A s \in SUBSET S : s # {} =>
              /\ Pick(s) \in s /\ s \ {Pick(s)} \in SUBSET S /\ s \ {Pick(s)} # s
              /\ it[s] = w[Pick(s)] + it[s \ {Pick(s)}]
<1>1. it[{}] = 0
  BY DEF Adds
<1>2. ASSUME NEW s \in SUBSET S, s # {}
      PROVE  /\ Pick(s) \in s /\ s \ {Pick(s)} \in SUBSET S /\ s \ {Pick(s)} # s
             /\ it[s] = w[Pick(s)] + it[s \ {Pick(s)}]
  <2>1. Pick(s) \in s
    BY <1>2 DEF Pick
  <2>2. it[s] = w[Pick(s)] + it[s \ {Pick(s)}]
    BY <1>2 DEF Adds, Pick
  <2> QED
    BY <2>1, <2>2
<1> QED
  BY <1>1, <1>2

(* Two such functions agree where both are defined. *)
LEMMA AddsUnique ==
  ASSUME NEW S, IsFiniteSet(S), NEW R \in SUBSET S, NEW w, NEW g, NEW h,
         Adds(S, w, g), Adds(R, w, h)
  PROVE  \A s \in SUBSET R : g[s] = h[s]
<1> DEFINE T == {s \in SUBSET R : g[s] # h[s]}
<1> SUFFICES ASSUME T # {} PROVE FALSE
  OBVIOUS
<1>1. T \in SUBSET (SUBSET S)
  OBVIOUS
<1>2. PICK s \in T : \A r \in T : r \subseteq s => r = s
  <2> HIDE DEF T
  <2> QED
    BY <1>1, SmallestSet
<1>3. s \in SUBSET R /\ s \in SUBSET S /\ s # {}
  BY AddsAt
<1>4. /\ Pick(s) \in s /\ s \ {Pick(s)} \in SUBSET R /\ s \ {Pick(s)} # s
      /\ g[s] = w[Pick(s)] + g[s \ {Pick(s)}] /\ h[s] = w[Pick(s)] + h[s \ {Pick(s)}]
  BY <1>3, AddsAt
<1>5. s \ {Pick(s)} \notin T
  BY <1>2, <1>4
<1> QED
  BY <1>2, <1>4, <1>5

(* It exists for every finite set. *)
LEMMA AddsExists ==
  ASSUME NEW S, IsFiniteSet(S), NEW w
  PROVE  \E it : Adds(S, w, it)
<1> DEFINE T == {s \in SUBSET S : ~ \E it : Adds(s, w, it)}
<1> SUFFICES ASSUME T # {} PROVE FALSE
  BY Zenon
<1>1. PICK s \in T : \A r \in T : r \subseteq s => r = s
  <2>1. T \in SUBSET (SUBSET S)
    OBVIOUS
  <2> HIDE DEF T
  <2> QED
    BY <2>1, SmallestSet
<1>2. s \in SUBSET S /\ ~ \E it : Adds(s, w, it)
  OBVIOUS
<1> DEFINE f(r) == (CHOOSE it : Adds(r, w, it))[r]
           it0 == [r \in SUBSET s |-> IF r = {} THEN 0
                                      ELSE w[Pick(r)] + f(r \ {Pick(r)})]
<1>3. ASSUME NEW r \in SUBSET s, r # s
      PROVE  IsFiniteSet(r) /\ Adds(r, w, CHOOSE it : Adds(r, w, it))
  <2>1. r \in SUBSET S /\ r \notin T
    BY <1>1, <1>2, <1>3
  <2>2. \E it : Adds(r, w, it)
    BY <2>1
  <2> QED
    BY <2>1, <2>2, FS_Subset, Zenon
<1>4. ASSUME NEW r \in SUBSET s, r # s
      PROVE  f(r) = it0[r]
  <2> DEFINE h == CHOOSE it : Adds(r, w, it)
  <2>1. Adds(r, w, h) /\ IsFiniteSet(r)
    BY <1>3, <1>4
  <2>2. CASE r = {}
    <3> HIDE DEF h
    <3>1. h[r] = 0
      BY <2>1, <2>2, AddsAt
    <3> QED
      BY <2>2, <3>1 DEF h
  <2>3. CASE r # {}
    <3> DEFINE v == r \ {Pick(r)}
               g == CHOOSE it : Adds(v, w, it)
    <3> HIDE DEF h
    <3>1. h[r] = w[Pick(r)] + h[v] /\ v \in SUBSET r /\ Pick(r) \in r
      BY <2>1, <2>3, AddsAt
    <3>2. v \in SUBSET s /\ v # s
      BY <3>1
    <3>3. Adds(v, w, g)
      BY <1>3, <3>2
    <3> HIDE DEF v, g
    <3>4. h[v] = g[v]
      BY <2>1, <3>1, <3>3, AddsUnique
    <3> QED
      BY <2>3, <3>1, <3>4 DEF h, g, v
  <2> QED
    BY <2>2, <2>3
<1>5. ASSUME NEW r \in SUBSET s
      PROVE  it0[r] = IF r = {} THEN 0 ELSE w[Pick(r)] + it0[r \ {Pick(r)}]
  <2>1. CASE r # {}
    <3>1. Pick(r) \in r
      BY <2>1 DEF Pick
    <3>2. r \ {Pick(r)} \in SUBSET s /\ r \ {Pick(r)} # s
      BY <3>1
    <3>3. f(r \ {Pick(r)}) = it0[r \ {Pick(r)}]
      BY <1>4, <3>2
    <3> QED
      BY <2>1, <3>3
  <2> QED
    BY <2>1
<1>6. it0 = [r \in SUBSET s |-> it0[r]]
  OBVIOUS
<1> HIDE DEF it0
<1>7. Adds(s, w, it0)
  BY <1>5, <1>6 DEF Adds, Pick
<1> QED
  BY <1>2, <1>7

(* How the sum over a set is made from the sum over a smaller one. *)
LEMMA SumStep ==
  ASSUME NEW S, IsFiniteSet(S), NEW w
  PROVE  /\ SumOver(w, {}) = 0
         /\ S # {} => /\ Pick(S) \in S
                      /\ SumOver(w, S) = w[Pick(S)] + SumOver(w, S \ {Pick(S)})
<1> DEFINE g(R) == CHOOSE it : Adds(R, w, it)
<1>1. ASSUME NEW R, IsFiniteSet(R)
      PROVE  Adds(R, w, g(R))
  BY <1>1, AddsExists, Zenon
<1>2. \A R : SumOver(w, R) = g(R)[R]
  BY DEF SumOver
<1> HIDE DEF g
<1>3. SumOver(w, {}) = 0
  BY <1>1, <1>2, AddsAt, FS_EmptySet
<1>4. ASSUME S # {}
      PROVE  /\ Pick(S) \in S
             /\ SumOver(w, S) = w[Pick(S)] + SumOver(w, S \ {Pick(S)})
  <2> DEFINE R == S \ {Pick(S)}
  <2>1. Adds(S, w, g(S)) /\ IsFiniteSet(R) /\ Adds(R, w, g(R))
    BY <1>1, FS_Subset
  <2>2. Pick(S) \in S /\ g(S)[S] = w[Pick(S)] + g(S)[R]
    BY <1>4, <2>1, AddsAt
  <2>3. R \in SUBSET S /\ R \in SUBSET R
    OBVIOUS
  <2> HIDE DEF R
  <2>4. g(S)[R] = g(R)[R]
    BY <2>1, <2>3, AddsUnique
  <2> QED
    BY <1>2, <2>2, <2>4 DEF R
<1> QED
  BY <1>3, <1>4

LEMMA SumType ==
  ASSUME NEW S, IsFiniteSet(S), NEW w, \A x \in S : w[x] \in Int
  PROVE  SumOver(w, S) \in Int
<1> DEFINE T == {s \in SUBSET S : SumOver(w, s) \notin Int}
<1> SUFFICES ASSUME T # {} PROVE FALSE
  OBVIOUS
<1>1. PICK s \in T : \A r \in T : r \subseteq s => r = s
  <2>1. T \in SUBSET (SUBSET S)
    OBVIOUS
  <2> HIDE DEF T
  <2> QED
    BY <2>1, SmallestSet
<1>2. s \in SUBSET S /\ SumOver(w, s) \notin Int /\ IsFiniteSet(s)
  BY FS_Subset
<1>3. s # {} /\ Pick(s) \in s /\ SumOver(w, s) = w[Pick(s)] + SumOver(w, s \ {Pick(s)})
  <2>1. SumOver(w, {}) = 0
    BY SumStep
  <2>2. s # {}
    BY <1>2, <2>1
  <2> HIDE DEF T
  <2> QED
    BY <1>2, <2>2, SumStep
<1>4. SumOver(w, s \ {Pick(s)}) \in Int
  BY <1>1, <1>2, <1>3
<1> QED
  BY <1>2, <1>3, <1>4

(* It does not matter which element is taken first. *)
LEMMA SumRemove ==
  ASSUME NEW S, IsFiniteSet(S), NEW w, \A x \in S : w[x] \in Int
  PROVE  \A y \in S : SumOver(w, S) = w[y] + SumOver(w, S \ {y})
<1> DEFINE Fails(s) == \E y \in s : SumOver(w, s) # w[y] + SumOver(w, s \ {y})
           T == {s \in SUBSET S : Fails(s)}
<1> SUFFICES ASSUME T # {} PROVE FALSE
  OBVIOUS
<1>1. PICK s \in T : \A r \in T : r \subseteq s => r = s
  <2>1. T \in SUBSET (SUBSET S)
    OBVIOUS
  <2> HIDE DEF T
  <2> QED
    BY <2>1, SmallestSet
<1>2. /\ s \in SUBSET S /\ IsFiniteSet(s)
      /\ \A r \in SUBSET s : r # s => r \in SUBSET S /\ IsFiniteSet(r) /\ ~Fails(r)
  BY <1>1, FS_Subset
<1>3. PICK y \in s : SumOver(w, s) # w[y] + SumOver(w, s \ {y})
  OBVIOUS
<1> DEFINE x == Pick(s)
           r == s \ {x, y}
<1>4. x \in s /\ SumOver(w, s) = w[x] + SumOver(w, s \ {x})
  BY <1>2, <1>3, SumStep
<1> HIDE DEF x
<1>5. x # y
  BY <1>3, <1>4
<1>6. /\ SumOver(w, s \ {x}) = w[y] + SumOver(w, (s \ {x}) \ {y})
      /\ SumOver(w, s \ {y}) = w[x] + SumOver(w, (s \ {y}) \ {x})
  BY <1>2, <1>3, <1>4, <1>5
<1>7. (s \ {x}) \ {y} = r /\ (s \ {y}) \ {x} = r
  OBVIOUS
<1>8. w[x] \in Int /\ w[y] \in Int /\ SumOver(w, r) \in Int
  <2>1. r \in SUBSET S /\ IsFiniteSet(r)
    BY <1>2, FS_Subset
  <2>2. SumOver(w, r) \in Int
    BY <2>1, SumType
  <2> QED
    BY <1>2, <1>3, <1>4, <2>2
<1> HIDE DEF r, Fails, T
<1>9. /\ SumOver(w, s \ {x}) = w[y] + SumOver(w, r)
      /\ SumOver(w, s \ {y}) = w[x] + SumOver(w, r)
  BY <1>6, <1>7, Zenon
<1>10. SumOver(w, s) = w[y] + (w[x] + SumOver(w, r))
  BY <1>4, <1>8, <1>9
<1> QED
  BY <1>3, <1>9, <1>10

(* Only the values over the set count. *)
LEMMA SumSame ==
  ASSUME NEW S, IsFiniteSet(S), NEW w, NEW v, \A x \in S : w[x] = v[x]
  PROVE  SumOver(w, S) = SumOver(v, S)
<1> DEFINE T == {s \in SUBSET S : SumOver(w, s) # SumOver(v, s)}
<1> SUFFICES ASSUME T # {} PROVE FALSE
  OBVIOUS
<1>1. PICK s \in T : \A r \in T : r \subseteq s => r = s
  <2>1. T \in SUBSET (SUBSET S)
    OBVIOUS
  <2> HIDE DEF T
  <2> QED
    BY <2>1, SmallestSet
<1>2. s \in SUBSET S /\ SumOver(w, s) # SumOver(v, s) /\ IsFiniteSet(s)
  BY FS_Subset
<1>3. s # {}
  <2>1. SumOver(w, {}) = 0 /\ SumOver(v, {}) = 0
    BY SumStep
  <2> QED
    BY <1>2, <2>1
<1>4. /\ Pick(s) \in s
      /\ SumOver(w, s) = w[Pick(s)] + SumOver(w, s \ {Pick(s)})
      /\ SumOver(v, s) = v[Pick(s)] + SumOver(v, s \ {Pick(s)})
  BY <1>2, <1>3, SumStep
<1>5. SumOver(w, s \ {Pick(s)}) = SumOver(v, s \ {Pick(s)})
  BY <1>1, <1>2, <1>4
<1> QED
  BY <1>2, <1>4, <1>5

(* If one value changes, the sum changes by as much. *)
LEMMA SumMoves ==
  ASSUME NEW S, IsFiniteSet(S), NEW w, NEW v, NEW q \in S,
         \A x \in S : w[x] \in Int /\ v[x] \in Int,
         \A x \in S \ {q} : w[x] = v[x]
  PROVE  SumOver(v, S) = SumOver(w, S) + (v[q] - w[q])
<1>1. IsFiniteSet(S \ {q})
  BY FS_RemoveElement
<1>2. SumOver(w, S \ {q}) = SumOver(v, S \ {q}) /\ SumOver(w, S \ {q}) \in Int
  BY <1>1, SumSame, SumType
<1>3. SumOver(w, S) = w[q] + SumOver(w, S \ {q}) /\ SumOver(v, S) = v[q] + SumOver(v, S \ {q})
  BY SumRemove
<1> QED
  BY <1>2, <1>3

-----------------------------------------------------------------------------
(* Liabilities.                                                            *)

Liquidity == [p \in Projects |-> AvailableLiquidity(p)]
OwedIn(t) == {p \in Created : project[p].token = t}

(* What is owed in a token is the sum over its projects, and it is there. *)
LiabilitiesOK ==
  \A t \in Tokens :
    /\ tokenOutstanding[t] = SumOver(Liquidity, OwedIn(t))
    /\ balance[t][Registry] >= tokenOutstanding[t]

LEMMA OwedFacts ==
  ASSUME RegistryInv
  PROVE  /\ \A t : OwedIn(t) \in SUBSET Projects /\ IsFiniteSet(OwedIn(t))
         /\ \A p \in Projects : Liquidity[p] = AvailableLiquidity(p) /\ Liquidity[p] \in Int
<1>1. IsFiniteSet(Projects)
  BY FS_Interval, MaxProjectsAssumption DEF Projects
<1>2. Created \subseteq Projects
  BY MaxProjectsAssumption DEF RegistryInv, ProjectsOK, ProjectsTypeOK, Created, Projects
<1>3. ASSUME NEW t
      PROVE  OwedIn(t) \in SUBSET Projects /\ IsFiniteSet(OwedIn(t))
  <2>1. OwedIn(t) \in SUBSET Projects
    BY <1>2 DEF OwedIn
  <2> QED
    BY <1>1, <2>1, FS_Subset
<1>4. ASSUME NEW p \in Projects
      PROVE  Liquidity[p] = AvailableLiquidity(p) /\ Liquidity[p] \in Int
  <2>1. project[p] \in ProjectType
    BY StepTypes
  <2>2. AvailableLiquidity(p) \in Int
    BY <2>1 DEF AvailableLiquidity, ProjectType
  <2> QED
    BY <2>2 DEF Liquidity
<1> QED
  BY <1>3, <1>4

LEMMA OwedFactsNext ==
  ASSUME RegistryInv'
  PROVE  /\ \A t : OwedIn(t)' \in SUBSET Projects /\ IsFiniteSet(OwedIn(t)')
         /\ \A p \in Projects : Liquidity'[p] = AvailableLiquidity(p)' /\ Liquidity'[p] \in Int
<1>1. IsFiniteSet(Projects)
  BY FS_Interval, MaxProjectsAssumption DEF Projects
<1>2. Created' \subseteq Projects
  BY MaxProjectsAssumption DEF RegistryInv, ProjectsOK, ProjectsTypeOK, Created, Projects
<1>3. ASSUME NEW t
      PROVE  OwedIn(t)' \in SUBSET Projects /\ IsFiniteSet(OwedIn(t)')
  <2>1. OwedIn(t)' \in SUBSET Projects
    BY <1>2 DEF OwedIn
  <2> QED
    BY <1>1, <2>1, FS_Subset
<1>4. ASSUME NEW p \in Projects
      PROVE  Liquidity'[p] = AvailableLiquidity(p)' /\ Liquidity'[p] \in Int
  <2>1. project'[p] \in ProjectType
    BY DEF RegistryInv, ProjectsOK, ProjectsTypeOK
  <2>2. AvailableLiquidity(p)' \in Int
    BY <2>1 DEF AvailableLiquidity, ProjectType
  <2> QED
    BY <2>2 DEF Liquidity
<1> QED
  BY <1>3, <1>4

(* A project that rests owes what it owed, in the same token. *)
LEMMA RestingOwes ==
  ASSUME RegistryInv, RegistryInv', NEW p \in Projects, Rests(p)
  PROVE  /\ Liquidity'[p] = Liquidity[p]
         /\ \A t : p \in OwedIn(t)' <=> p \in OwedIn(t)
<1>1. AvailableLiquidity(p)' = AvailableLiquidity(p)
  BY DEF Rests, AvailableLiquidity
<1>2. ASSUME NEW t
      PROVE  p \in OwedIn(t)' <=> p \in OwedIn(t)
  BY DEF Rests, OwedIn, Created, Exists
<1> QED
  BY <1>1, <1>2, OwedFacts, OwedFactsNext

(* The sum follows a step that moves one project, or none. *)
LEMMA OwedMoves ==
  ASSUME RegistryInv, RegistryInv', NEW q \in Projects, OthersRest(q),
         NEW t \in Tokens,
         q \in OwedIn(t)' <=> q \in OwedIn(t)
  PROVE  SumOver(Liquidity, OwedIn(t))' = SumOver(Liquidity, OwedIn(t)) +
           (IF q \in OwedIn(t) THEN AvailableLiquidity(q)' - AvailableLiquidity(q) ELSE 0)
<1> DEFINE w == Liquidity
           v == Liquidity'
           S == OwedIn(t)
<1>1. /\ S \in SUBSET Projects /\ IsFiniteSet(S)
      /\ \A p \in Projects : w[p] \in Int /\ v[p] \in Int
      /\ w[q] = AvailableLiquidity(q) /\ v[q] = AvailableLiquidity(q)'
  BY OwedFacts, OwedFactsNext
<1>2. \A p \in Projects \ {q} :
        v[p] = w[p] /\ (p \in OwedIn(t)' <=> p \in S)
  BY RestingOwes DEF OthersRest
<1>3. OwedIn(t)' = S
  BY <1>1, <1>2, OwedFactsNext
<1>4. SumOver(Liquidity, OwedIn(t))' = SumOver(v, S)
  BY <1>3
<1> HIDE DEF w, v, S
<1>5. CASE q \in S
  <2>1. SumOver(v, S) = SumOver(w, S) + (v[q] - w[q])
    BY <1>1, <1>2, <1>5, SumMoves
  <2> QED
    BY <1>1, <1>4, <1>5, <2>1 DEF w, S
<1>6. CASE q \notin S
  <2>1. SumOver(v, S) = SumOver(w, S)
    BY <1>1, <1>2, <1>6, SumSame
  <2>2. SumOver(w, S) \in Int
    BY <1>1, SumType
  <2> QED
    BY <1>4, <1>6, <2>1, <2>2 DEF w, S
<1> QED
  BY <1>5, <1>6

LEMMA LiabilitiesNext ==
  ASSUME RegistryInv, TermsOK, LiabilitiesOK, RegistryInv', [Next]_vars
  PROVE  LiabilitiesOK'
<1> SUFFICES ASSUME NEW t \in Tokens
             PROVE  /\ tokenOutstanding'[t] = SumOver(Liquidity, OwedIn(t))'
                    /\ balance'[t][Registry] >= tokenOutstanding'[t]
  BY DEF LiabilitiesOK
<1>1. /\ tokenOutstanding[t] = SumOver(Liquidity, OwedIn(t))
      /\ balance[t][Registry] >= tokenOutstanding[t]
      /\ tokenOutstanding[t] \in Nat /\ balance[t][Registry] \in Nat
      /\ balance'[t][Registry] \in Nat
  <2>1. Registry \in Holders
    BY DEF Holders
  <2> QED
    BY <2>1 DEF LiabilitiesOK, RegistryInv, TokensTypeOK
<1>2. CASE (\A p \in Projects : Rests(p)) /\ UNCHANGED tokenOutstanding /\ NothingMissing
  <2>1. SumOver(Liquidity, OwedIn(t))' = SumOver(Liquidity, OwedIn(t))
    <3>1. OwedIn(t)' = OwedIn(t)
      BY <1>2, RestingOwes, OwedFacts, OwedFactsNext
    <3>2. \A p \in OwedIn(t) : Liquidity[p] = Liquidity'[p]
      BY <1>2, RestingOwes, OwedFacts
    <3>3. IsFiniteSet(OwedIn(t))
      BY OwedFacts
    <3>4. SumOver(Liquidity, OwedIn(t)) = SumOver(Liquidity', OwedIn(t))
      <4> DEFINE w == Liquidity
                 v == Liquidity'
                 S == OwedIn(t)
      <4>1. IsFiniteSet(S) /\ \A p \in S : w[p] = v[p]
        BY <3>2, <3>3
      <4> HIDE DEF w, v, S
      <4>2. SumOver(w, S) = SumOver(v, S)
        BY <4>1, SumSame
      <4> QED
        BY <4>2 DEF w, v, S
    <3> QED
      BY <3>1, <3>4
  <2>2. balance'[t][Registry] >= balance[t][Registry]
        \/ balance'[t][Registry] >= tokenOutstanding[t]
    BY <1>2 DEF NothingMissing
  <2> QED
    BY <1>1, <1>2, <2>1, <2>2
<1>3. ASSUME NEW q \in Projects, OthersRest(q), TokensMove(q), Progresses(q)
      PROVE  /\ tokenOutstanding'[t] = SumOver(Liquidity, OwedIn(t))'
             /\ balance'[t][Registry] >= tokenOutstanding'[t]
  <2>1. GoesOn(q)
    BY <1>3 DEF Progresses, IsFunded, IsHandedOn, IsContested, IsSettled, IsCalledOff
  <2>2. q \in OwedIn(t) <=> project[q].token = t
    BY <2>1 DEF OwedIn, GoesOn, Operable, Exists, Created
  <2>3. q \in OwedIn(t)' <=> project[q].token = t
    BY <2>1 DEF OwedIn, GoesOn, Exists, Created
  <2> DEFINE moved == IF t = project[q].token
                      THEN AvailableLiquidity(q)' - AvailableLiquidity(q) ELSE 0
  <2>4. SumOver(Liquidity, OwedIn(t))' = SumOver(Liquidity, OwedIn(t)) + moved
    BY <1>3, <2>2, <2>3, OwedMoves
  <2>5. /\ tokenOutstanding'[t] = tokenOutstanding[t] + moved
        /\ balance'[t][Registry] = balance[t][Registry] + moved
    BY <1>3 DEF TokensMove
  <2>6. moved \in Int
    BY <2>1, OwedFacts, OwedFactsNext
  <2> HIDE DEF moved
  <2> QED
    BY <1>1, <2>4, <2>5, <2>6
<1>4. ASSUME NEW q \in Projects, NEW plan \in Plans, OthersRest(q), IsAgreed(q, plan),
             UNCHANGED <<tokenOutstanding, balance>>
      PROVE  /\ tokenOutstanding'[t] = SumOver(Liquidity, OwedIn(t))'
             /\ balance'[t][Registry] >= tokenOutstanding'[t]
  <2> DEFINE w == Liquidity
             v == Liquidity'
             S == OwedIn(t)
             R == OwedIn(t)'
  <2>1. /\ S \in SUBSET Projects /\ R \in SUBSET Projects
        /\ IsFiniteSet(S) /\ IsFiniteSet(R)
        /\ \A p \in Projects : w[p] \in Int /\ v[p] \in Int
        /\ v[q] = AvailableLiquidity(q)'
    BY OwedFacts, OwedFactsNext
  <2>2. \A p \in Projects \ {q} : v[p] = w[p] /\ (p \in R <=> p \in S)
    BY <1>4, RestingOwes DEF OthersRest
  <2>3. q \notin S
    BY <1>4 DEF IsAgreed, OwedIn, Exists, Created
  <2>4. v[q] = 0
    BY <1>4, <2>1 DEF IsAgreed, AvailableLiquidity
  <2>5. SumOver(Liquidity, OwedIn(t))' = SumOver(v, R) /\ SumOver(Liquidity, OwedIn(t)) = SumOver(w, S)
    OBVIOUS
  <2> HIDE DEF w, v, S, R
  <2>6. SumOver(w, S) = SumOver(v, S)
    BY <2>1, <2>2, <2>3, SumSame
  <2>7. SumOver(v, R) = SumOver(v, S)
    <3>1. CASE q \in R
      <4>1. R \ {q} = S
        BY <2>1, <2>2, <2>3, <3>1
      <4>2. \A p \in R : v[p] \in Int
        BY <2>1
      <4>3. SumOver(v, R) = v[q] + SumOver(v, R \ {q})
        BY <2>1, <3>1, <4>2, SumRemove
      <4>4. SumOver(v, S) \in Int
        BY <2>1, SumType
      <4>5. SumOver(v, R) = v[q] + SumOver(v, S)
        BY <4>1, <4>3, Zenon
      <4> QED
        BY <2>4, <4>4, <4>5
    <3>2. CASE q \notin R
      <4>1. R = S
        BY <2>1, <2>2, <2>3, <3>2
      <4> QED
        BY <4>1, Zenon
    <3> QED
      BY <3>1, <3>2
  <2> QED
    BY <1>1, <1>4, <2>5, <2>6, <2>7
<1> QED
  BY <1>2, <1>3, <1>4, EveryBookStep DEF BookStep

LEMMA LiabilitiesInit == Init => LiabilitiesOK
<1> SUFFICES ASSUME Init, NEW t \in Tokens
             PROVE  /\ tokenOutstanding[t] = SumOver(Liquidity, OwedIn(t))
                    /\ balance[t][Registry] >= tokenOutstanding[t]
  BY DEF LiabilitiesOK
<1>1. OwedIn(t) = {}
  BY DEF Init, OwedIn, Created
<1>2. SumOver(Liquidity, OwedIn(t)) = 0
  <2> DEFINE w == Liquidity
  <2> HIDE DEF w
  <2>1. SumOver(w, {}) = 0
    BY FS_EmptySet, SumStep
  <2> QED
    BY <1>1, <2>1 DEF w
<1>3. tokenOutstanding[t] = 0 /\ balance[t][Registry] = 0
  BY DEF Init, Holders
<1> QED
  BY <1>2, <1>3

(* The sum of the property is this sum. *)
LEMMA LiquiditySum ==
  ASSUME NEW S \in SUBSET Projects, IsFiniteSet(S)
  PROVE  MapThenSumSet(AvailableLiquidity, S) = SumOver(Liquidity, S)
<1> DEFINE w == Liquidity
           Counts(it) == it = [s \in SUBSET S |-> IF s = {} THEN 0 ELSE
               AvailableLiquidity(CHOOSE x \in s : TRUE) + it[s \ {CHOOSE x \in s : TRUE}]]
           g == CHOOSE it : Counts(it)
           h == CHOOSE it : Adds(S, w, it)
<1>1. MapThenSumSet(AvailableLiquidity, S) = g[S]
  BY DEF MapThenSumSet, MapThenFoldSet
<1>2. \A s \in SUBSET S : s # {} =>
        w[CHOOSE x \in s : TRUE] = AvailableLiquidity(CHOOSE x \in s : TRUE)
  BY DEF Liquidity
<1>3. ASSUME NEW it
      PROVE  Counts(it) <=> Adds(S, w, it)
  <2> DEFINE a(s) == IF s = {} THEN 0 ELSE
               AvailableLiquidity(CHOOSE x \in s : TRUE) + it[s \ {CHOOSE x \in s : TRUE}]
             b(s) == IF s = {} THEN 0 ELSE
               w[CHOOSE x \in s : TRUE] + it[s \ {CHOOSE x \in s : TRUE}]
  <2>1. \A s \in SUBSET S : a(s) = b(s)
    BY <1>2
  <2>2. (Counts(it) <=> it = [s \in SUBSET S |-> a(s)])
        /\ (Adds(S, w, it) <=> it = [s \in SUBSET S |-> b(s)])
    BY DEF Adds
  <2> HIDE DEF a, b, Counts
  <2> QED
    BY <2>1, <2>2
<1> HIDE DEF w, Counts
<1>4. Adds(S, w, h)
  <2>1. \E it : Adds(S, w, it)
    BY AddsExists
  <2> QED
    BY <2>1, Zenon
<1>5. Adds(S, w, g)
  <2>1. \E it : Counts(it)
    BY <1>3, <1>4, Zenon
  <2>2. Counts(g)
    BY <2>1, Zenon
  <2> QED
    BY <1>3, <2>2, Zenon
<1> HIDE DEF g, h
<1>6. g[S] = h[S]
  BY <1>4, <1>5, AddsUnique
<1>7. h[S] = SumOver(w, S)
  BY DEF SumOver, h
<1> QED
  BY <1>1, <1>6, <1>7 DEF w

(* The liabilities of the registry are the funds its projects have not paid *)
(* out, and it holds at least that much of every token.                     *)
THEOREM RegistryIsSolvent == Spec => []TokensCoverLiabilities
<1>1. RegistryInv /\ LiabilitiesOK => TokensCoverLiabilities
  <2> SUFFICES ASSUME RegistryInv, LiabilitiesOK, NEW t \in Tokens
               PROVE  tokenOutstanding[t] =
                        MapThenSumSet(AvailableLiquidity, {p \in Created : project[p].token = t})
                      /\ balance[t][Registry] >= tokenOutstanding[t]
    BY DEF TokensCoverLiabilities
  <2>1. MapThenSumSet(AvailableLiquidity, OwedIn(t)) = SumOver(Liquidity, OwedIn(t))
    BY OwedFacts, LiquiditySum
  <2> QED
    BY <2>1 DEF LiabilitiesOK, OwedIn
<1>2. Init => LiabilitiesOK
  BY LiabilitiesInit
<1>3. /\ RegistryInv /\ TermsOK /\ LiabilitiesOK /\ RegistryInv' /\ [Next]_vars
      => LiabilitiesOK'
  BY LiabilitiesNext
<1> QED
  BY <1>1, <1>2, <1>3, TermsInvariant, PTL DEF Spec

-----------------------------------------------------------------------------
(* Votes.                                                                  *)

(* A vote counts towards a dispute that is open, while nothing is paused. *)
CastsVote ==
  \E s : \E c \in Accounts, q \in Projects, j \in MilestoneIndexes :
    /\ ArbitratorVote(c, s)
    /\ s.project = q /\ s.milestone = j
    /\ Exists(q) /\ j \in Milestones(q) /\ dispute[q][j].active /\ ~paused

LEMMA VoteSteps ==
  ASSUME RegistryInv, [Next]_vars
  PROVE  UNCHANGED multisigVars \/ RoleStep \/ CastsVote
<1>1. CASE AdminStep
  <2>1. ASSUME NEW c, NEW t, NEW allowed, NEW to, NEW amount,
               \/ Pause(c) \/ Unpause(c) \/ AttestTokenReviewForAllowlist(c, t)
               \/ SetAllowedToken(c, t, allowed) \/ SweepUntrackedToken(c, t, to, amount)
        PROVE  UNCHANGED multisigVars
    BY <2>1 DEF Pause, Unpause, AttestTokenReviewForAllowlist, SetAllowedToken,
       SweepUntrackedToken
  <2> QED
    BY <1>1, <2>1 DEF AdminStep, ChangeRoles
<1>2. CASE EnvironmentStep \/ UNCHANGED vars
  BY <1>2 DEF EnvironmentStep, StrayTransfer, SetBlocked, Tick, vars
<1>3. CASE ProjectStep
  <2>1. \A c, f, t, plan : CreateProject(c, f, t, plan) => UNCHANGED multisigVars
    BY DEF CreateProject
  <2>2. \A c, q, amount : FundProject(c, q, amount) => UNCHANGED multisigVars
    BY DEF FundProject
  <2>3. \A c, q : EmergencyAdminCancel(c, q) => UNCHANGED multisigVars
    BY DEF EmergencyAdminCancel
  <2>4. \A c, q : CancelProject(c, q) => UNCHANGED multisigVars
    BY DEF CancelProject
  <2> QED
    BY <1>3, <2>1, <2>2, <2>3, <2>4 DEF ProjectStep
<1>4. CASE MilestoneStep
  BY <1>4 DEF MilestoneStep, SubmitMilestone, ApproveMilestone, ReleaseMilestone, RaiseDispute,
     AppendDisputeEvidence, ResolveStaleDisputeByTimeout
<1>5. CASE ResolutionStep
  <2>1. ASSUME NEW c, NEW q, NEW j, NEW r,
               \/ ProposeEmergencyResolveDispute(c, q, j, r)
               \/ CancelEmergencyResolveDispute(c, q, j, r)
               \/ EmergencyResolveDispute(c, q, j, r)
        PROVE  UNCHANGED multisigVars
    BY <2>1 DEF ProposeEmergencyResolveDispute, CancelEmergencyResolveDispute,
       EmergencyResolveDispute
  <2>2. ASSUME NEW c \in Accounts, NEW q \in Projects, NEW j \in MilestoneIndexes, NEW r,
               VoteOnDispute(c, q, j, r) \/ ResolveDispute(c, q, j, r)
        PROVE  CastsVote
    <3> DEFINE s == ResolveSubject(q, j, r)
    <3>1. /\ ArbitratorVote(c, s) /\ Exists(q) /\ j \in Milestones(q)
          /\ dispute[q][j].active /\ ~paused
      BY <2>2 DEF VoteOnDispute, ResolveDispute, Operable
    <3>2. s.project = q /\ s.milestone = j
      BY DEF ResolveSubject
    <3> HIDE DEF s
    <3> QED
      BY <3>1, <3>2 DEF CastsVote
  <2> QED
    BY <1>5, <2>1, <2>2 DEF ResolutionStep
<1>6. CASE RecipientStep
  <2>1. ASSUME NEW c, NEW q, NEW s, NEW k, NEW new, NEW nonce, NEW deadline,
               \/ SetPartyAuthorizedRecipient(c, q, s, k, new)
               \/ ExecuteAlternativeRecipient(c, q, s, k)
               \/ SignRecipientConsent(c, q, s, k, new, nonce, deadline)
        PROVE  UNCHANGED multisigVars
    BY <2>1 DEF SetPartyAuthorizedRecipient, ExecuteAlternativeRecipient, SignRecipientConsent
  <2>2. \A consent : SetPartyAuthorizedRecipientBySig(consent) => UNCHANGED multisigVars
    BY DEF SetPartyAuthorizedRecipientBySig
  <2>3. ASSUME NEW c \in Accounts, NEW q \in Projects, NEW j \in MilestoneIndexes,
               NEW k, NEW new, SetAlternativeRecipient(c, q, j, k, new)
        PROVE  CastsVote
    <3> DEFINE s == AlternativeSubject(q, j, k, new)
    <3>1. /\ ArbitratorVote(c, s) /\ Exists(q) /\ j \in Milestones(q)
          /\ dispute[q][j].active /\ ~paused
      BY <2>3 DEF SetAlternativeRecipient
    <3>2. s.project = q /\ s.milestone = j
      BY DEF AlternativeSubject
    <3> HIDE DEF s
    <3> QED
      BY <3>1, <3>2 DEF CastsVote
  <2>4. \A choice \in RecipientChoices : choice[1] # ProjectWide => choice[1] \in MilestoneIndexes
    BY ChoicesAssumption DEF Scopes
  <2> QED
    BY <1>6, <2>1, <2>2, <2>3, <2>4 DEF RecipientStep
<1> QED
  BY <1>1, <1>2, <1>3, <1>4, <1>5, <1>6 DEF Next

(* Every vote of the registry is one of the multisig, on an open dispute. *)
THEOREM RegistryVotes == Spec => VotesAreMultisigSteps
<1>1. RegistryInv /\ [Next]_vars => VotesThroughMultisig
  <2> SUFFICES ASSUME RegistryInv, [Next]_vars, CastsVote
               PROVE  \E v \in votes' :
                        LET s == v[1].subject IN
                        ArbitratorVote(v[2], s) /\ dispute[s.project][s.milestone].active
    BY VoteSteps DEF VotesThroughMultisig
  <2>0. PICK s : \E c \in Accounts, q \in Projects, j \in MilestoneIndexes :
          /\ ArbitratorVote(c, s) /\ s.project = q /\ s.milestone = j
          /\ dispute[q][j].active
    BY DEF CastsVote
  <2>1. PICK c \in Accounts, q \in Projects, j \in MilestoneIndexes :
          /\ ArbitratorVote(c, s) /\ s.project = q /\ s.milestone = j
          /\ dispute[q][j].active
    BY <2>0
  <2> DEFINE id == ActionId(s)
             v == <<id, c>>
  <2>2. id.subject = s
    BY DEF ActionId
  <2>3. v \in votes'
    BY <2>1 DEF ArbitratorVote, ConfirmArbitratorAction
  <2> HIDE DEF id
  <2>4. v[2] = c /\ v[1].subject = s
    BY <2>2
  <2> HIDE DEF v
  <2> QED
    BY <2>1, <2>3, <2>4
<1> QED
  BY <1>1, RegistryInvariant, PTL DEF Spec, VotesAreMultisigSteps

(* What the council promises of its votes, the registry keeps. *)
THEOREM RegistryVoteSteps == Spec => VotesOnlyForTheLiveConfiguration
<1> DEFINE Step ==
      /\ votes \subseteq votes' /\ executedActions \subseteq executedActions'
      /\ \A v \in votes' \ votes :
           /\ v[1].configNonce = arbitratorConfigNonce
           /\ v[1] \notin executedActions
<1>1. RoleStep => Step
  BY DEF RoleStep, GrantRole, RevokeRole, RenounceRole, RemoveFromRole,
         SetArbitratorThreshold
<1>2. CastsVote => Step
  BY DEF CastsVote, ArbitratorVote, ConfirmArbitratorAction, ActionId
<1>3. RegistryInv /\ [Next]_vars => [Step]_multisigVars
  BY <1>1, <1>2, VoteSteps
<1> QED
  BY <1>3, RegistryInvariant, PTL DEF Spec, VotesOnlyForTheLiveConfiguration

(* The deciding vote is a new one, and marks the action executed. *)
LEMMA DecidingVote ==
  ASSUME RegistryInv, NEW c \in Accounts, NEW s, ArbitratorVote(c, s), QuorumWith(c, s)
  PROVE  executedActions' # executedActions
<1> DEFINE id == ActionId(s)
<1>1. /\ id \notin executedActions /\ id.threshold = arbitratorThreshold
      /\ executedActions' = IF <<id, c>> \notin votes THEN executedActions \cup {id}
                            ELSE executedActions
  BY DEF ArbitratorVote, ConfirmArbitratorAction, ActionId
<1>2. ASSUME <<id, c>> \in votes
      PROVE  FALSE
  <2>1. ApproversOf(id) \cup {c} = ApproversOf(id)
    BY <1>2 DEF ApproversOf
  <2>2. Cardinality(ApproversOf(id)) >= id.threshold
    BY <1>1, <2>1 DEF QuorumWith
  <2>3. id \in executedActions \cup {v[1] : v \in votes}
    BY <1>2
  <2> HIDE DEF id
  <2> QED
    BY <1>1, <2>2, <2>3 DEF RegistryInv, MultisigInv, QuorumExactlyWhenExecuted
<1> QED
  BY <1>1, <1>2

-----------------------------------------------------------------------------
(* Delivered work.                                                         *)

(* The step turns delivered work into a refund. *)
TakesBack(p, i) == Delivered(p, i) /\ milestone'[p][i].status = "Refunded"

(* Agreeing, funding, handing on, contesting and calling off never do. *)
LEMMA BooksTakeNothingBack ==
  ASSUME RegistryInv, NEW q \in Projects, OthersRest(q),
         \/ \E amount \in FundingAmounts : IsFunded(q, amount)
         \/ IsHandedOn(q, "Pending", "Submitted") \/ IsHandedOn(q, "Submitted", "Approved")
         \/ IsContested(q) \/ IsCalledOff(q)
         \/ \E plan \in Plans : IsAgreed(q, plan),
         NEW p \in Created, NEW i \in Milestones(p)
  PROVE  ~TakesBack(p, i)
<1> DEFINE k == project[q].settledMilestoneCount
<1>1. p \in Projects /\ Exists(p) /\ i \in MilestoneIndexes
  BY OpenIsUnsettled, ProjectFacts DEF RegistryInv, Created, Exists
<1>2. CASE p # q
  BY <1>1, <1>2 DEF OthersRest, Rests, TakesBack, Delivered
<1>3. CASE p = q
  <2>1. CASE \/ \E amount \in FundingAmounts : IsFunded(q, amount)
             \/ IsContested(q)
    BY <1>1, <1>3, <2>1 DEF IsFunded, IsContested, TakesBack, Delivered
  <2>2. CASE IsHandedOn(q, "Pending", "Submitted") \/ IsHandedOn(q, "Submitted", "Approved")
    BY <1>1, <1>3, <2>2 DEF IsHandedOn, TakesBack, Delivered
  <2>3. CASE IsCalledOff(q)
    <3>1. GoesOn(q) /\ Operable(q)
      BY <2>3 DEF IsCalledOff, GoesOn
    <3>2. /\ Delivered(p, i) \/ dispute[q][i].active => i = k
          /\ k \in MilestoneIndexes /\ k \in k..(project[q].plan.milestoneCount - 1)
      BY <1>3, <3>1, OpenFacts
    <3>3. /\ milestone[q][k].status # "Approved"
          /\ milestone[q][k].status = "Submitted" => milestone'[q][k].status = "Released"
      BY <2>3, <3>2 DEF IsCalledOff
    <3> QED
      BY <1>3, <3>2, <3>3 DEF TakesBack, Delivered
  <2>4. CASE \E plan \in Plans : IsAgreed(q, plan)
    BY <1>1, <1>3, <2>4 DEF IsAgreed
  <2> QED
    BY <2>1, <2>2, <2>3, <2>4
<1> QED
  BY <1>2, <1>3

(* A decision on an open dispute, of the arbitrators or of the admin. *)
DecidesDispute(p, i) ==
  /\ dispute[p][i].active
  /\ \/ executedActions' # executedActions
     \/ \E e \in emergencyReadyAt \ emergencyReadyAt' :
          e[1].project = p /\ e[1].milestone = i /\ now >= e[2]

(* A settled milestone does not change the status of another one. *)
LEMMA SettledTakesBackItself ==
  ASSUME RegistryInv, NEW q \in Projects, NEW j \in MilestoneIndexes, NEW m,
         milestone' = [milestone EXCEPT ![q][j] = m],
         NEW p \in Created, NEW i \in Milestones(p), TakesBack(p, i)
  PROVE  p = q /\ i = j /\ m.status = "Refunded" /\ Delivered(q, j)
<1>1. p \in Projects /\ i \in MilestoneIndexes
  BY OpenIsUnsettled, ProjectFacts DEF RegistryInv, Created, Exists
<1>2. CASE p = q /\ i = j
  BY <1>1, <1>2, StepTypes DEF TakesBack
<1>3. CASE ~(p = q /\ i = j)
  <2>1. milestone'[p][i] = milestone[p][i]
    BY <1>1, <1>3, StepTypes
  <2> QED
    BY <2>1 DEF TakesBack, Delivered
<1> QED
  BY <1>2, <1>3

LEMMA OnlyDecisionsTakeBack ==
  ASSUME RegistryInv, [Next]_vars, NEW p \in Created, NEW i \in Milestones(p),
         TakesBack(p, i)
  PROVE  DecidesDispute(p, i)
<1>1. CASE \/ AdminStep \/ RecipientStep \/ EnvironmentStep \/ UNCHANGED vars
  BY <1>1, StepsBesideProjects DEF TakesBack, Delivered
<1>2. CASE ProjectStep
  <2>1. ASSUME NEW parties \in Parties, NEW t \in Tokens, NEW plan \in Plans,
               CreateProject(parties[1], parties[2], t, plan)
        PROVE  FALSE
    BY <2>1, CreateEffect, BooksTakeNothingBack
  <2>2. ASSUME NEW c \in Accounts, NEW q \in Projects, NEW amount \in FundingAmounts,
               FundProject(c, q, amount)
        PROVE  FALSE
    BY <2>2, FundEffect, BooksTakeNothingBack
  <2>3. ASSUME NEW c \in Accounts, NEW q \in Projects,
               CancelProject(c, q) \/ EmergencyAdminCancel(c, q)
        PROVE  FALSE
    BY <2>3, CancelEffect, AdminCancelEffect, BooksTakeNothingBack
  <2> QED
    BY <1>2, <2>1, <2>2, <2>3 DEF ProjectStep
<1>3. CASE MilestoneStep
  <2> SUFFICES ASSUME NEW c \in Accounts, NEW q \in Projects, NEW j \in MilestoneIndexes,
                      \/ SubmitMilestone(c, q, j) \/ ApproveMilestone(c, q, j)
                      \/ ReleaseMilestone(c, q, j) \/ RaiseDispute(c, q, j)
                      \/ AppendDisputeEvidence(c, q, j)
                      \/ ResolveStaleDisputeByTimeout(c, q, j)
               PROVE  FALSE
    BY <1>3 DEF MilestoneStep
  <2>1. CASE SubmitMilestone(c, q, j) \/ ApproveMilestone(c, q, j)
    BY <2>1, DeliveryEffect, BooksTakeNothingBack
  <2>2. CASE ReleaseMilestone(c, q, j)
    <3> DEFINE m == [status |-> "Released", reviewEnteredAt |-> 0]
    <3>1. milestone' = [milestone EXCEPT ![q][j] = m] /\ m.status # "Refunded"
      BY <2>2 DEF ReleaseMilestone
    <3> HIDE DEF m
    <3> QED
      BY <3>1, SettledTakesBackItself
  <2>3. CASE RaiseDispute(c, q, j)
    BY <2>3, RaiseEffect, BooksTakeNothingBack
  <2>4. CASE AppendDisputeEvidence(c, q, j)
    BY <2>4 DEF AppendDisputeEvidence, TakesBack, Delivered
  <2>5. CASE ResolveStaleDisputeByTimeout(c, q, j)
    <3> DEFINE m == [milestone[q][j] EXCEPT !.status = "Refunded"]
    <3>1. milestone' = [milestone EXCEPT ![q][j] = m] /\ milestone[q][j].status = "Pending"
      BY <2>5, StepTypes DEF ResolveStaleDisputeByTimeout, DisputeTimedOut
    <3> HIDE DEF m
    <3> QED
      BY <3>1, SettledTakesBackItself DEF Delivered
  <2> QED
    BY <2>1, <2>2, <2>3, <2>4, <2>5
<1>4. CASE ResolutionStep
  <2> SUFFICES ASSUME NEW c \in Accounts, NEW q \in Projects, NEW j \in MilestoneIndexes,
                      NEW r \in Resolutions,
                      \/ VoteOnDispute(c, q, j, r) \/ ResolveDispute(c, q, j, r)
                      \/ ProposeEmergencyResolveDispute(c, q, j, r)
                      \/ CancelEmergencyResolveDispute(c, q, j, r)
                      \/ EmergencyResolveDispute(c, q, j, r)
               PROVE  DecidesDispute(p, i)
    BY <1>4 DEF ResolutionStep
  <2>1. CASE ResolveDispute(c, q, j, r) \/ EmergencyResolveDispute(c, q, j, r)
    <3> DEFINE m == [status |-> SettledStatus(r.kind), reviewEnteredAt |-> 0]
    <3>1. milestone' = [milestone EXCEPT ![q][j] = m] /\ dispute[q][j].active
      BY <2>1 DEF ResolveDispute, EmergencyResolveDispute, ValidEmergency
    <3> HIDE DEF m
    <3>2. p = q /\ i = j
      BY <3>1, SettledTakesBackItself
    <3>3. CASE ResolveDispute(c, q, j, r)
      <4> DEFINE s == ResolveSubject(q, j, r)
      <4>1. ArbitratorVote(c, s) /\ QuorumWith(c, s)
        BY <3>3 DEF ResolveDispute
      <4> HIDE DEF s
      <4>2. executedActions' # executedActions
        BY <4>1, DecidingVote
      <4> QED
        BY <3>1, <3>2, <4>2 DEF DecidesDispute
    <3>4. CASE EmergencyResolveDispute(c, q, j, r)
      <4>1. PICK e \in emergencyReadyAt : e[1] = EmergencyAction(q, j, r) /\ now >= e[2]
        BY <3>4 DEF EmergencyResolveDispute
      <4>2. e \notin emergencyReadyAt'
        BY <3>4, <4>1 DEF EmergencyResolveDispute
      <4>3. e[1].project = q /\ e[1].milestone = j
        BY <4>1 DEF EmergencyAction
      <4> QED
        BY <3>1, <3>2, <4>1, <4>2, <4>3 DEF DecidesDispute
    <3> QED
      BY <2>1, <3>3, <3>4
  <2>2. CASE \/ VoteOnDispute(c, q, j, r) \/ ProposeEmergencyResolveDispute(c, q, j, r)
             \/ CancelEmergencyResolveDispute(c, q, j, r)
    BY <2>2, ProposingSteps DEF TakesBack, Delivered
  <2> QED
    BY <2>1, <2>2
<1> QED
  BY <1>1, <1>2, <1>3, <1>4 DEF Next

(* Neither cancellation nor a timeout takes delivered work back: only a     *)
(* decision on its open dispute does.                                       *)
THEOREM RegistryDeliveredWork == Spec => DeliveredWorkIsNotTakenBack
<1>1. RegistryInv /\ [Next]_vars =>
        [\A p \in Created : \A i \in Milestones(p) :
           Delivered(p, i) /\ milestone'[p][i].status = "Refunded" =>
             /\ dispute[p][i].active
             /\ \/ executedActions' # executedActions
                \/ \E e \in emergencyReadyAt \ emergencyReadyAt' :
                     e[1].project = p /\ e[1].milestone = i /\ now >= e[2]]_vars
  BY OnlyDecisionsTakeBack DEF TakesBack, DecidesDispute
<1> QED
  BY <1>1, RegistryInvariant, PTL DEF Spec, DeliveredWorkIsNotTakenBack

-----------------------------------------------------------------------------
(* Pause.                                                                  *)

(* Every transaction that is gated by pause drops out; of the others only   *)
(* the admin's emergency paths touch a project.                             *)
LEMMA StepsWhilePaused ==
  ASSUME RegistryInv, paused, [Next]_vars
  PROVE  \/ /\ UNCHANGED <<projectCount, project, milestone>>
            /\ \A p \in Projects, i \in MilestoneIndexes :
                 dispute'[p][i].active = dispute[p][i].active
         \/ \E c \in Accounts, q \in Projects : EmergencyAdminCancel(c, q)
         \/ \E c \in Accounts, q \in Projects, j \in MilestoneIndexes, r \in Resolutions :
              EmergencyResolveDispute(c, q, j, r)
<1>1. CASE \/ AdminStep \/ RecipientStep \/ EnvironmentStep \/ UNCHANGED vars
  BY <1>1, StepsBesideProjects
<1>2. CASE ProjectStep
  <2>1. \A c, f, t, plan : ~CreateProject(c, f, t, plan)
    BY DEF CreateProject
  <2>2. \A c, q, amount : ~FundProject(c, q, amount)
    BY DEF FundProject
  <2>3. \A c, q : ~CancelProject(c, q)
    BY DEF CancelProject
  <2> QED
    BY <1>2, <2>1, <2>2, <2>3 DEF ProjectStep
<1>3. CASE MilestoneStep
  <2>1. PICK c \in Accounts, q \in Projects, j \in MilestoneIndexes :
               AppendDisputeEvidence(c, q, j)
    BY <1>3 DEF MilestoneStep, SubmitMilestone, ApproveMilestone, ReleaseMilestone,
       RaiseDispute, ResolveStaleDisputeByTimeout
  <2>2. dispute' = [dispute EXCEPT ![q][j].evidence = TRUE]
    BY <2>1 DEF AppendDisputeEvidence
  <2>3. \A p \in Projects, i \in MilestoneIndexes :
          dispute'[p][i].active = dispute[p][i].active
    BY <2>2, StepTypes DEF DisputeType
  <2> QED
    BY <2>1, <2>3 DEF AppendDisputeEvidence
<1>4. CASE ResolutionStep
  <2>1. \A c, q, j, r : ~ResolveDispute(c, q, j, r)
    BY DEF ResolveDispute
  <2> QED
    BY <1>4, <2>1, ProposingSteps DEF ResolutionStep
<1> QED
  BY <1>1, <1>2, <1>3, <1>4 DEF Next

(* What pause promises of one project. *)
PausedProject(p) ==
  /\ project'[p].fundedAmount = project[p].fundedAmount
  /\ \A i \in Milestones(p) :
       /\ Delivered(p, i)' => milestone'[p][i] = milestone[p][i]
       /\ dispute'[p][i].active => dispute[p][i].active
  /\ project'[p] # project[p] =>
       \/ \E e \in emergencyReadyAt \ emergencyReadyAt' :
            e[1].project = p /\ now >= e[2]
       \/ /\ project'[p].status = "Cancelled"
          /\ \A i \in Milestones(p) : ~InFlight(p, i)

LEMMA AdminCancelWhilePaused ==
  ASSUME RegistryInv, NEW c \in Accounts, NEW q \in Projects, EmergencyAdminCancel(c, q),
         NEW p \in Created
  PROVE  PausedProject(p)
<1>1. /\ Operable(q) /\ project[q].activeDisputeCount = 0
      /\ \A i \in Milestones(q) : milestone[q][i].status \notin {"Approved", "Submitted"}
      /\ UNCHANGED dispute
  BY DEF EmergencyAdminCancel
<1>2. p \in Projects /\ \A i \in Milestones(p) : i \in MilestoneIndexes
  BY OpenIsUnsettled, ProjectFacts DEF RegistryInv, Created, Exists
<1>3. CASE p # q
  <2>1. project'[p] = project[p] /\ milestone'[p] = milestone[p]
    BY <1>2, <1>3, StepTypes DEF EmergencyAdminCancel
  <2> QED
    BY <1>1, <2>1 DEF PausedProject
<1>4. CASE p = q
  <2>1. /\ project'[q].status = "Cancelled"
        /\ project'[q].fundedAmount = project[q].fundedAmount
    BY AdminCancelEffect DEF IsCalledOff
  <2>2. ASSUME NEW i \in Milestones(q)
        PROVE  ~InFlight(q, i)
    <3>1. i = project[q].settledMilestoneCount => ~dispute[q][i].active
      BY <1>1, OpenFacts
    <3> QED
      BY <1>1, <3>1, OpenFacts DEF InFlight, Delivered
  <2>3. ASSUME NEW i \in Milestones(q)
        PROVE  \/ milestone'[q][i] = milestone[q][i]
               \/ milestone'[q][i].status = "Refunded"
    BY <1>2, <1>4, <2>3, StepTypes DEF EmergencyAdminCancel
  <2> QED
    BY <1>1, <1>4, <2>1, <2>2, <2>3 DEF PausedProject, Delivered
<1> QED
  BY <1>3, <1>4

LEMMA EmergencyWhilePaused ==
  ASSUME RegistryInv, TermsOK, NEW c \in Accounts, NEW q \in Projects,
         NEW j \in MilestoneIndexes, NEW r \in Resolutions,
         EmergencyResolveDispute(c, q, j, r), NEW p \in Created
  PROVE  PausedProject(p)
<1>1. /\ Operable(q) /\ j \in Milestones(q) /\ dispute[q][j].active
      /\ dispute' = [dispute EXCEPT ![q][j] = NoDispute]
  BY DEF EmergencyResolveDispute, ValidEmergency, SettleDispute
<1>2. p \in Projects /\ \A i \in Milestones(p) : i \in MilestoneIndexes
  BY OpenIsUnsettled, ProjectFacts DEF RegistryInv, Created, Exists
<1>3. ASSUME NEW i \in Milestones(p), dispute'[p][i].active
      PROVE  dispute[p][i].active
  BY <1>1, <1>2, <1>3, StepTypes DEF NoDispute
<1> DEFINE m == [status |-> SettledStatus(r.kind), reviewEnteredAt |-> 0]
<1>4. milestone' = [milestone EXCEPT ![q][j] = m] /\ m.status \in {"Released", "Refunded"}
  BY DEF EmergencyResolveDispute, SettledStatus
<1> HIDE DEF m
<1>5. ASSUME NEW i \in Milestones(p)
      PROVE  \/ milestone'[p][i] = milestone[p][i]
             \/ milestone'[p][i].status \in {"Released", "Refunded"}
  BY <1>2, <1>4, StepTypes
<1>6. CASE p # q
  <2>1. project'[p] = project[p]
    BY <1>2, <1>6, StepTypes DEF EmergencyResolveDispute, SettleDispute
  <2> QED
    BY <1>3, <1>5, <2>1 DEF PausedProject, Delivered
<1>7. CASE p = q
  <2>1. Amount(q, j) # 0
    BY <1>1, WorkHasPrice
  <2>2. project'[q].fundedAmount = project[q].fundedAmount
    <3>1. IsSettled(q, r.freelancerAmount, r.clientAmount)
      BY <2>1, ResolvingEffect
    <3> QED
      BY <3>1 DEF IsSettled
  <2>3. PICK e \in emergencyReadyAt : e[1] = EmergencyAction(q, j, r) /\ now >= e[2]
    BY DEF EmergencyResolveDispute
  <2>4. e \notin emergencyReadyAt' /\ e[1].project = q
    BY <2>3 DEF EmergencyResolveDispute, EmergencyAction
  <2> QED
    BY <1>3, <1>5, <1>7, <2>2, <2>3, <2>4 DEF PausedProject, Delivered
<1> QED
  BY <1>6, <1>7

(* While the registry is paused, money leaves only by the admin's emergency *)
(* paths, and nothing else begins or is decided.                            *)
THEOREM RegistryPause == Spec => PauseLeavesOnlyEmergencyPaths
<1> DEFINE Promise ==
      paused /\ paused' =>
       /\ votes' = votes /\ projectCount' = projectCount
       /\ \A p \in Created :
            /\ project'[p].fundedAmount = project[p].fundedAmount
            /\ \A i \in Milestones(p) :
                 /\ Delivered(p, i)' => milestone'[p][i] = milestone[p][i]
                 /\ dispute'[p][i].active => dispute[p][i].active
            /\ project'[p] # project[p] =>
                 \/ \E e \in emergencyReadyAt \ emergencyReadyAt' :
                      e[1].project = p /\ now >= e[2]
                 \/ /\ project'[p].status = "Cancelled"
                    /\ \A i \in Milestones(p) : ~InFlight(p, i)
<1>1. ASSUME RegistryInv, TermsOK, [Next]_vars
      PROVE  Promise
  <2> SUFFICES ASSUME paused, paused'
               PROVE  /\ votes' = votes /\ projectCount' = projectCount
                      /\ \A p \in Created : PausedProject(p)
    BY DEF PausedProject
  <2>1. votes' = votes
    <3>1. ~CastsVote
      BY DEF CastsVote
    <3>2. RoleStep => votes' = votes
      BY DEF RoleStep, GrantRole, RevokeRole, RenounceRole, RemoveFromRole,
             SetArbitratorThreshold
    <3> QED
      BY <1>1, <3>1, <3>2, VoteSteps DEF multisigVars
  <2>2. projectCount' = projectCount
    BY <1>1, StepsWhilePaused DEF EmergencyAdminCancel, EmergencyResolveDispute
  <2>3. ASSUME NEW p \in Created
        PROVE  PausedProject(p)
    <3>1. p \in Projects /\ \A i \in Milestones(p) : i \in MilestoneIndexes
      BY <1>1, OpenIsUnsettled, ProjectFacts DEF RegistryInv, Created, Exists
    <3>2. CASE /\ UNCHANGED <<projectCount, project, milestone>>
               /\ \A q \in Projects, i \in MilestoneIndexes :
                    dispute'[q][i].active = dispute[q][i].active
      BY <3>1, <3>2 DEF PausedProject
    <3> QED
      BY <1>1, <3>2, StepsWhilePaused, AdminCancelWhilePaused, EmergencyWhilePaused
  <2> QED
    BY <2>1, <2>2, <2>3
<1> QED
  <2>1. RegistryInv /\ TermsOK /\ [Next]_vars => [Promise]_vars
    BY <1>1
  <2> QED
    BY <2>1, TermsInvariant, PTL DEF Spec, PauseLeavesOnlyEmergencyPaths

-----------------------------------------------------------------------------
(* Payouts.                                                                *)

(* Whom the source of a payout names is a choice of the party it is due to. *)
LEMMA RecipientsAreChosen ==
  ASSUME NEW p, NEW i \in MilestoneIndexes
  PROVE  /\ LegRecipient(p, i, "freelancer", project[p].freelancer)
              \in ChoicesOf(p, "freelancer")
         /\ LegRecipient(p, i, "client", project[p].client) \in ChoicesOf(p, "client")
         /\ ProjectRecipient(p, project[p].client) \in ChoicesOf(p, "client")
<1>1. /\ i \in Scopes /\ ProjectWide \in Scopes
      /\ PartyOf(p, "freelancer") = project[p].freelancer
      /\ PartyOf(p, "client") = project[p].client
  BY DEF Scopes, PartyOf
<1>2. ASSUME NEW leg
      PROVE  LegRecipient(p, i, leg, PartyOf(p, leg)) \in ChoicesOf(p, leg)
  BY <1>1 DEF LegRecipient, FirstSet, ChoicesOf
<1>3. ProjectRecipient(p, PartyOf(p, "client")) \in ChoicesOf(p, "client")
  BY <1>1 DEF ProjectRecipient, FirstSet, ChoicesOf
<1> QED
  BY <1>1, <1>2, <1>3

(* The project pays recipients its parties chose, and books what it pays. *)
PaysAsChosen(q) ==
  \E f, c : \E a, b \in Nat :
    /\ Pay(project[q].token, f, a, c, b)
    /\ a > 0 => f \in ChoicesOf(q, "freelancer")
    /\ b > 0 => c \in ChoicesOf(q, "client")
    /\ project'[q].releasedAmount = project[q].releasedAmount + a
    /\ project'[q].refundedAmount = project[q].refundedAmount + b

(* Only the two recipients gain by a payment, and only what it is about. *)
LEMMA PaymentsGain ==
  ASSUME TokensTypeOK, NEW t \in Tokens, NEW f, NEW c, NEW a \in Nat, NEW b \in Nat,
         Pay(t, f, a, c, b), NEW h \in Accounts, balance'[t][h] > balance[t][h]
  PROVE  \/ a > 0 /\ h = f
         \/ b > 0 /\ h = c
<1>1. h \in Holders /\ h # Registry /\ balance[t][h] \in Nat
  BY AddressAssumption DEF TokensTypeOK, Holders
<1>2. balance'[t] = [x \in Holders |->
        balance[t][x] + (IF x = f THEN a ELSE 0) + (IF x = c THEN b ELSE 0)
          - (IF x = Registry THEN a + b ELSE 0)]
  BY DEF Pay, TokensTypeOK
<1>3. balance'[t][h] =
        balance[t][h] + (IF h = f THEN a ELSE 0) + (IF h = c THEN b ELSE 0) - 0
  BY <1>1, <1>2
<1> QED
  BY <1>1, <1>3

LEMMA PayingIsConsented ==
  ASSUME RegistryInv, NEW q \in Projects, Exists(q), OthersRest(q), PaysAsChosen(q)
  PROVE  PaysConsentedRecipients
<1>1. PICK f, c : \E a, b \in Nat :
          /\ Pay(project[q].token, f, a, c, b)
          /\ a > 0 => f \in ChoicesOf(q, "freelancer")
          /\ b > 0 => c \in ChoicesOf(q, "client")
          /\ project'[q].releasedAmount = project[q].releasedAmount + a
          /\ project'[q].refundedAmount = project[q].refundedAmount + b
  BY DEF PaysAsChosen
<1>2. PICK a \in Nat, b \in Nat :
          /\ Pay(project[q].token, f, a, c, b)
          /\ a > 0 => f \in ChoicesOf(q, "freelancer")
          /\ b > 0 => c \in ChoicesOf(q, "client")
          /\ project'[q].releasedAmount = project[q].releasedAmount + a
          /\ project'[q].refundedAmount = project[q].refundedAmount + b
  BY <1>1
<1>3. /\ project[q].token \in Tokens /\ TokensTypeOK
      /\ project[q].releasedAmount \in Nat /\ project[q].refundedAmount \in Nat
  BY ProjectFacts DEF RegistryInv, ProjectType
<1> DEFINE released(p) == project'[p].releasedAmount > project[p].releasedAmount
           refunded(p) == project'[p].refundedAmount > project[p].refundedAmount
           gains(p) == {h \in Accounts :
                balance'[project[p].token][h] > balance[project[p].token][h]}
           may(p) == (IF released(p) THEN ChoicesOf(p, "freelancer") ELSE {})
                \cup (IF refunded(p) THEN ChoicesOf(p, "client") ELSE {})
<1>4. ASSUME NEW p \in Created, released(p) \/ refunded(p)
      PROVE  gains(p) \subseteq may(p)
  <2>1. p \in Projects /\ project[p] \in ProjectType
    BY ProjectFacts DEF RegistryInv, Created, Exists
  <2>2. p = q
    <3>1. project[p].releasedAmount \in Nat /\ project[p].refundedAmount \in Nat
      BY <2>1 DEF ProjectType
    <3> QED
      BY <1>4, <2>1, <3>1 DEF OthersRest, Rests
  <2>3. (a > 0 => released(q)) /\ (b > 0 => refunded(q))
    BY <1>2, <1>3
  <2> SUFFICES ASSUME NEW h \in Accounts,
                      balance'[project[q].token][h] > balance[project[q].token][h]
               PROVE  h \in may(q)
    BY <2>2
  <2> HIDE DEF released, refunded
  <2>4. \/ a > 0 /\ h = f
        \/ b > 0 /\ h = c
    BY <1>2, <1>3, PaymentsGain
  <2> QED
    BY <1>2, <2>3, <2>4
<1> QED
  BY <1>4 DEF PaysConsentedRecipients

(* A step that books no payout pays nobody. *)
LEMMA NothingIsPaid ==
  ASSUME RegistryInv,
         \A p \in Projects : Exists(p) =>
           /\ project'[p].releasedAmount = project[p].releasedAmount
           /\ project'[p].refundedAmount = project[p].refundedAmount
  PROVE  PaysConsentedRecipients
<1> SUFFICES ASSUME NEW p \in Created
             PROVE  /\ ~(project'[p].releasedAmount > project[p].releasedAmount)
                    /\ ~(project'[p].refundedAmount > project[p].refundedAmount)
  BY DEF PaysConsentedRecipients
<1>1. p \in Projects /\ Exists(p) /\ project[p] \in ProjectType
  BY ProjectFacts DEF RegistryInv, Created, Exists
<1>2. project[p].releasedAmount \in Nat /\ project[p].refundedAmount \in Nat
  BY <1>1 DEF ProjectType
<1> QED
  BY <1>1, <1>2

LEMMA BooksPayNobody ==
  ASSUME RegistryInv, NEW q \in Projects, OthersRest(q),
         \/ \E amount \in FundingAmounts : IsFunded(q, amount)
         \/ IsHandedOn(q, "Pending", "Submitted") \/ IsHandedOn(q, "Submitted", "Approved")
         \/ IsContested(q)
         \/ \E plan \in Plans : IsAgreed(q, plan)
  PROVE  PaysConsentedRecipients
<1>1. Exists(q) => /\ project'[q].releasedAmount = project[q].releasedAmount
                   /\ project'[q].refundedAmount = project[q].refundedAmount
  BY DEF IsFunded, IsHandedOn, IsContested, IsAgreed
<1> QED
  BY <1>1, NothingIsPaid DEF OthersRest, Rests

LEMMA ReleasePays ==
  ASSUME RegistryInv, TermsOK, NEW c \in Accounts, NEW q \in Projects,
         NEW i \in MilestoneIndexes, ReleaseMilestone(c, q, i)
  PROVE  PaysConsentedRecipients
<1> DEFINE f == LegRecipient(q, i, "freelancer", project[q].freelancer)
           a == Amount(q, i)
<1>1. /\ Operable(q) /\ Exists(q) /\ i \in Milestones(q)
      /\ Pay(project[q].token, f, a, NoAddress, 0)
  BY DEF ReleaseMilestone, Operable
<1>2. a \in Nat /\ 0 \in Nat /\ ~(0 > 0)
  BY <1>1, OpenFacts
<1>3. IsSettled(q, a, 0) /\ OthersRest(q)
  BY <1>1, ReleaseEffect, WorkHasPrice
<1>4. /\ project'[q].releasedAmount = project[q].releasedAmount + a
      /\ project'[q].refundedAmount = project[q].refundedAmount + 0
  BY <1>3 DEF IsSettled
<1>5. f \in ChoicesOf(q, "freelancer")
  BY RecipientsAreChosen
<1> HIDE DEF f, a
<1>6. PaysAsChosen(q)
  BY <1>1, <1>2, <1>4, <1>5 DEF PaysAsChosen
<1> QED
  BY <1>1, <1>3, <1>6, PayingIsConsented

(* The calls that settle a dispute. *)
LEMMA SettlingPays ==
  ASSUME RegistryInv, NEW q \in Projects, NEW i \in MilestoneIndexes, Exists(q),
         NEW f, NEW a \in Nat, NEW b \in Nat, SettleDispute(q, i, f, a, b),
         a > 0 => f \in ChoicesOf(q, "freelancer"),
         IsSettled(q, a, b), OthersRest(q)
  PROVE  PaysConsentedRecipients
<1> DEFINE c == LegRecipient(q, i, "client", project[q].client)
<1>1. Pay(project[q].token, f, a, c, b)
  BY DEF SettleDispute
<1>2. c \in ChoicesOf(q, "client")
  BY RecipientsAreChosen
<1> HIDE DEF c
<1>3. /\ project'[q].releasedAmount = project[q].releasedAmount + a
      /\ project'[q].refundedAmount = project[q].refundedAmount + b
  BY DEF IsSettled
<1>4. PaysAsChosen(q)
  BY <1>1, <1>2, <1>3 DEF PaysAsChosen
<1> QED
  BY <1>4, PayingIsConsented

(* cancelProject *)
LEMMA CancelPays ==
  ASSUME RegistryInv, NEW c, NEW q \in Projects, CancelProject(c, q)
  PROVE  PaysConsentedRecipients
<1> DEFINE stale   == StaleDisputes(q)
           due     == DueReviews(q)
           closed  == stale \cup due \cup Untouched(q)
           payout  == SumOfAmounts(q, due)
           reserve == SumOfAmounts(q, stale)
           refundable == AvailableLiquidity(q) - payout
           t == project[q].token
           reserved == project[q].reservedAmount - reserve
           refunded == IF refundable <= reserved THEN 0 ELSE refundable - reserved
           new == [project[q] EXCEPT !.activeDisputeCount = @ - Cardinality(stale),
                     !.reservedAmount = reserved,
                     !.releasedAmount = @ + payout,
                     !.refundedAmount = @ + refunded,
                     !.settledMilestoneCount = @ + Cardinality(closed),
                     !.status = "Cancelled"]
           g == ProjectRecipient(q, project[q].client)
           fs == {LegRecipient(q, i, "freelancer", project[q].freelancer) : i \in due}
                 \cup (IF due = {} THEN {NoAddress} ELSE {})
<1>1. /\ Operable(q) /\ \A i \in Milestones(q) : CancelMayClose(q, i)
      /\ due # {} => CanSettle(q, payout)
      /\ project' = [project EXCEPT ![q] = new]
      /\ \E f \in fs : Pay(t, f, payout, g, refunded)
  BY Zenon DEF CancelProject
<1>2. /\ payout \in Nat /\ reserve = project[q].reservedAmount
  BY <1>1, CancelFacts DEF Operable, RegistryInv
<1>3. /\ project[q] \in ProjectType /\ AvailableLiquidity(q) \in Int
      /\ project[q].reservedAmount \in Nat
      /\ \A i \in Milestones(q) : i \in MilestoneIndexes
  BY <1>1, OpenFacts DEF AvailableLiquidity, ProjectType
<1>4. payout > 0 => due # {}
  BY SumOfNone
<1>5. due \subseteq Milestones(q)
  BY DEF DueReviews
<1>6. ASSUME NEW f \in fs, payout > 0
      PROVE  f \in ChoicesOf(q, "freelancer")
  <2>1. PICK i \in due : f = LegRecipient(q, i, "freelancer", project[q].freelancer)
    BY <1>4, <1>6
  <2>2. i \in MilestoneIndexes
    BY <1>3, <1>5
  <2> QED
    BY <2>1, <2>2, RecipientsAreChosen
<1>7. g \in ChoicesOf(q, "client")
  BY RecipientsAreChosen, MilestonesAssumption DEF MilestoneIndexes
<1> HIDE DEF stale, due, closed, payout, reserve, fs, g
<1>8. refunded \in Nat
  BY <1>2, <1>3
<1> HIDE DEF refunded, reserved, refundable
<1>9. /\ new.releasedAmount = project[q].releasedAmount + payout
      /\ new.refundedAmount = project[q].refundedAmount + refunded
  BY <1>3 DEF ProjectType
<1> HIDE DEF new
<1>10. project'[q] = new
  BY <1>1, StepTypes
<1>11. PaysAsChosen(q)
  BY <1>1, <1>2, <1>6, <1>7, <1>8, <1>9, <1>10 DEF PaysAsChosen
<1>12. OthersRest(q)
  BY CancelEffect
<1> QED
  BY <1>1, <1>11, <1>12, PayingIsConsented DEF Operable

(* emergencyAdminCancel *)
LEMMA AdminCancelPays ==
  ASSUME RegistryInv, NEW c, NEW q \in Projects, EmergencyAdminCancel(c, q)
  PROVE  PaysConsentedRecipients
<1> DEFINE b == FreeLiquidity(q)
           g == ProjectRecipient(q, project[q].client)
           pending == {i \in Milestones(q) : milestone[q][i].status = "Pending"}
           new == [project[q] EXCEPT !.refundedAmount = @ + b,
                     !.settledMilestoneCount = @ + Cardinality(pending),
                     !.status = "Cancelled"]
<1>1. /\ Operable(q) /\ project' = [project EXCEPT ![q] = new]
      /\ Pay(project[q].token, NoAddress, 0, g, b)
  BY Zenon DEF EmergencyAdminCancel
<1>2. /\ project[q] \in ProjectType /\ b \in Nat
      /\ project[q].releasedAmount + 0 = project[q].releasedAmount
  <2>1. /\ project[q] \in ProjectType /\ project[q].fundedAmount \in Nat
        /\ project[q].releasedAmount \in Nat /\ project[q].refundedAmount \in Nat
        /\ project[q].reservedAmount \in Nat
    BY <1>1, OpenFacts DEF ProjectType
  <2> QED
    BY <2>1 DEF FreeLiquidity, AvailableLiquidity
<1>3. g \in ChoicesOf(q, "client")
  BY RecipientsAreChosen, MilestonesAssumption DEF MilestoneIndexes
<1> HIDE DEF b, g, pending
<1>4. /\ new.releasedAmount = project[q].releasedAmount
      /\ new.refundedAmount = project[q].refundedAmount + b
  BY <1>2 DEF ProjectType
<1> HIDE DEF new
<1>5. project'[q] = new
  BY <1>1, StepTypes
<1>6. 0 \in Nat /\ ~(0 > 0)
  OBVIOUS
<1>7. PaysAsChosen(q)
  BY <1>1, <1>2, <1>3, <1>4, <1>5, <1>6 DEF PaysAsChosen
<1>8. OthersRest(q)
  BY AdminCancelEffect
<1> QED
  BY <1>1, <1>7, <1>8, PayingIsConsented DEF Operable

LEMMA EveryPayIsConsented ==
  ASSUME RegistryInv, TermsOK, [Next]_vars
  PROVE  PaysConsentedRecipients
<1>1. CASE \/ AdminStep \/ RecipientStep \/ EnvironmentStep \/ UNCHANGED vars
  BY <1>1, StepsBesideProjects, NothingIsPaid
<1>2. CASE ProjectStep
  <2>1. ASSUME NEW parties \in Parties, NEW t \in Tokens, NEW plan \in Plans,
               CreateProject(parties[1], parties[2], t, plan)
        PROVE  PaysConsentedRecipients
    BY <2>1, CreateEffect, BooksPayNobody
  <2>2. ASSUME NEW c \in Accounts, NEW q \in Projects, NEW amount \in FundingAmounts,
               FundProject(c, q, amount)
        PROVE  PaysConsentedRecipients
    BY <2>2, FundEffect, BooksPayNobody
  <2> QED
    BY <1>2, <2>1, <2>2, CancelPays, AdminCancelPays DEF ProjectStep
<1>3. CASE MilestoneStep
  <2> SUFFICES ASSUME NEW c \in Accounts, NEW q \in Projects, NEW j \in MilestoneIndexes,
                      \/ SubmitMilestone(c, q, j) \/ ApproveMilestone(c, q, j)
                      \/ ReleaseMilestone(c, q, j) \/ RaiseDispute(c, q, j)
                      \/ AppendDisputeEvidence(c, q, j)
                      \/ ResolveStaleDisputeByTimeout(c, q, j)
               PROVE  PaysConsentedRecipients
    BY <1>3 DEF MilestoneStep
  <2>1. CASE SubmitMilestone(c, q, j) \/ ApproveMilestone(c, q, j)
    BY <2>1, DeliveryEffect, BooksPayNobody
  <2>2. CASE ReleaseMilestone(c, q, j)
    BY <2>2, ReleasePays
  <2>3. CASE RaiseDispute(c, q, j)
    BY <2>3, RaiseEffect, BooksPayNobody
  <2>4. CASE AppendDisputeEvidence(c, q, j)
    BY <2>4, NothingIsPaid DEF AppendDisputeEvidence
  <2>5. CASE ResolveStaleDisputeByTimeout(c, q, j)
    <3>1. Exists(q) /\ SettleDispute(q, j, NoAddress, 0, Amount(q, j))
      BY <2>5 DEF ResolveStaleDisputeByTimeout, Operable
    <3>2. Amount(q, j) \in Nat /\ IsSettled(q, 0, Amount(q, j)) /\ OthersRest(q)
      BY <2>5, StaleEffect
    <3>3. 0 \in Nat /\ ~(0 > 0)
      OBVIOUS
    <3> QED
      BY <3>1, <3>2, <3>3, SettlingPays
  <2> QED
    BY <2>1, <2>2, <2>3, <2>4, <2>5
<1>4. CASE ResolutionStep
  <2> SUFFICES ASSUME NEW c \in Accounts, NEW q \in Projects, NEW j \in MilestoneIndexes,
                      NEW r \in Resolutions,
                      \/ VoteOnDispute(c, q, j, r) \/ ResolveDispute(c, q, j, r)
                      \/ ProposeEmergencyResolveDispute(c, q, j, r)
                      \/ CancelEmergencyResolveDispute(c, q, j, r)
                      \/ EmergencyResolveDispute(c, q, j, r)
               PROVE  PaysConsentedRecipients
    BY <1>4 DEF ResolutionStep
  <2>1. CASE ResolveDispute(c, q, j, r) \/ EmergencyResolveDispute(c, q, j, r)
    <3> DEFINE f == LegRecipient(q, j, "freelancer", project[q].freelancer)
    <3>1. /\ Operable(q) /\ Exists(q) /\ j \in Milestones(q)
          /\ SettleDispute(q, j, f, r.freelancerAmount, r.clientAmount)
      BY <2>1 DEF ResolveDispute, EmergencyResolveDispute, ValidEmergency, Operable
    <3>2. Amount(q, j) # 0
      BY <3>1, WorkHasPrice
    <3>3. /\ r.freelancerAmount \in Nat /\ r.clientAmount \in Nat
          /\ IsSettled(q, r.freelancerAmount, r.clientAmount) /\ OthersRest(q)
      BY <2>1, <3>2, ResolvingEffect
    <3>4. f \in ChoicesOf(q, "freelancer")
      BY RecipientsAreChosen
    <3> HIDE DEF f
    <3> QED
      BY <3>1, <3>3, <3>4, SettlingPays
  <2>2. CASE \/ VoteOnDispute(c, q, j, r) \/ ProposeEmergencyResolveDispute(c, q, j, r)
             \/ CancelEmergencyResolveDispute(c, q, j, r)
    BY <2>2, ProposingSteps, NothingIsPaid
  <2> QED
    BY <2>1, <2>2
<1> QED
  BY <1>1, <1>2, <1>3, <1>4 DEF Next

(* Whoever gains by a payout is the party it is due to or whom that party   *)
(* named, whatever arbitrators and admins decide.                           *)
THEOREM RegistryPaysConsented == Spec => OnlyConsentedRecipientsArePaid
<1>1. RegistryInv /\ TermsOK /\ [Next]_vars => PaysConsentedRecipients
  BY EveryPayIsConsented
<1> QED
  BY <1>1, TermsInvariant, PTL DEF Spec, OnlyConsentedRecipientsArePaid

=============================================================================
