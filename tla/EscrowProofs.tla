---------------------------- MODULE EscrowProofs ----------------------------
(***************************************************************************)
(* Every transaction of the registry preserves the invariant, for any      *)
(* accounts, tokens, plans, timeouts and bounds; what the registry         *)
(* promises about its books and its milestones follows.                    *)
(*                                                                         *)
(* The first part states the invariant on the values of one project (its   *)
(* record, its milestones, its disputes) and says what each way of         *)
(* changing a project does to it, so that its lemmas are about values, not *)
(* about behaviours.  The second goes through the transactions.            *)
(***************************************************************************)
EXTENDS EscrowProperties, ArbitratorMultisigProofs

(* Milestones are settled in order, and only the next one can be delivered  *)
(* or disputed.                                                             *)
InOrder(proj, ms, ds) ==
  \A i \in 0..(proj.plan.milestoneCount - 1) :
    /\ ms[i].status \in {"Released", "Refunded"} <=> i < proj.settledMilestoneCount
    /\ ms[i].status \in {"Submitted", "Approved"} \/ ds[i].active
         => i = proj.settledMilestoneCount

(* An open project has paid the price of its settled milestones; the        *)
(* dispute on the next one, if any, is all that is reserved, and what is    *)
(* delivered or disputed is funded.                                         *)
OpenBooks(proj, m, d) ==
  LET k     == proj.settledMilestoneCount
      total == proj.plan.runningTotal
  IN
  /\ k < proj.plan.milestoneCount
  /\ proj.releasedAmount + proj.refundedAmount = total[k]
  /\ d.active =>
       /\ proj.status = "Disputed" /\ proj.activeDisputeCount = 1
       /\ proj.reservedAmount = total[k + 1] - total[k]
  /\ ~d.active =>
       /\ proj.status = "Active" /\ proj.activeDisputeCount = 0
       /\ proj.reservedAmount = 0
  /\ m.status \in {"Submitted", "Approved"} \/ d.active
       => total[k + 1] <= proj.fundedAmount

(* A closed project has settled every milestone and holds nothing. *)
ClosedBooks(proj) ==
  LET n == proj.plan.milestoneCount  paid == proj.releasedAmount + proj.refundedAmount IN
  /\ proj.settledMilestoneCount = n /\ paid = proj.fundedAmount
  /\ proj.activeDisputeCount = 0 /\ proj.reservedAmount = 0
  /\ proj.status = "Completed" => paid = proj.plan.runningTotal[n]

(* The values of one project: its record, milestones and disputes. *)
Sound(proj, ms, ds) ==
  /\ proj.plan \in Plans /\ proj.token \in Tokens
  /\ proj.settledMilestoneCount <= proj.plan.milestoneCount
  /\ proj.releasedAmount + proj.refundedAmount <= proj.fundedAmount
  /\ proj.fundedAmount <= proj.plan.runningTotal[proj.plan.milestoneCount]
  /\ InOrder(proj, ms, ds)
  /\ proj.status \in {"Active", "Disputed"} =>
       OpenBooks(proj, ms[proj.settledMilestoneCount], ds[proj.settledMilestoneCount])
  /\ proj.status \in {"Completed", "Cancelled"} => ClosedBooks(proj)

ProjectsSound ==
  \A p \in Projects :
    /\ p <= projectCount => Sound(project[p], milestone[p], dispute[p])
    /\ p > projectCount => \A i \in MilestoneIndexes : ~dispute[p][i].active

-----------------------------------------------------------------------------
(* Facts about plans and types.                                            *)

(* The running totals of a plan are amounts, and grow with the milestones. *)
LEMMA PlanFacts ==
  ASSUME NEW plan \in Plans
  PROVE  /\ plan \in PlanType
         /\ plan.milestoneCount \in 0..MAX_MILESTONES
         /\ \A i \in 0..plan.milestoneCount : plan.runningTotal[i] \in Nat
         /\ plan.runningTotal[0] = 0
         /\ \A i \in 0..(plan.milestoneCount - 1) :
              /\ i \in MilestoneIndexes /\ i + 1 \in 0..plan.milestoneCount
              /\ plan.runningTotal[i + 1] - plan.runningTotal[i] \in Nat
<1>1. plan \in PlanType /\ plan.milestoneCount \in 0..MAX_MILESTONES
  BY PlansAssumption DEF PlanType
<1>2. \A i \in 0..MAX_MILESTONES : plan.runningTotal[i] \in Nat
  BY <1>1 DEF PlanType
<1>3. \A i \in 0..(plan.milestoneCount - 1) :
        i \in MilestoneIndexes /\ i \in 0..MAX_MILESTONES /\ i + 1 \in 0..MAX_MILESTONES
          /\ i + 1 \in 0..plan.milestoneCount
  BY <1>1, MilestonesAssumption DEF MilestoneIndexes
<1>4. /\ plan.runningTotal[0] = 0
      /\ \A i \in 0..(plan.milestoneCount - 1) :
           plan.runningTotal[i] <= plan.runningTotal[i + 1]
  BY PlansAssumption
<1>5. \A i \in 0..plan.milestoneCount : i \in 0..MAX_MILESTONES
  BY <1>1, MilestonesAssumption
<1> QED
  BY <1>1, <1>2, <1>3, <1>4, <1>5

(* The milestone whose turn it is: no unsettled one can have its            *)
(* predecessors settled but the one with index settledMilestoneCount.       *)
LEMMA NextMilestone ==
  ASSUME NEW proj \in ProjectType, NEW ms, NEW ds, Sound(proj, ms, ds),
         NEW i \in 0..(proj.plan.milestoneCount - 1),
         ms[i].status \notin {"Released", "Refunded"},
         \/ \A j \in 0..(i - 1) : ms[j].status \in {"Released", "Refunded"}
         \/ ms[i].status \in {"Submitted", "Approved"} \/ ds[i].active
  PROVE  i = proj.settledMilestoneCount
<1> DEFINE k == proj.settledMilestoneCount
<1>1. k \in Nat /\ i \in Nat /\ proj.plan.milestoneCount \in Nat
  BY PlanFacts DEF ProjectType, Sound
<1>2. ~(i < k)
  BY DEF Sound, InOrder
<1>3. CASE \A j \in 0..(i - 1) : ms[j].status \in {"Released", "Refunded"}
  <2>1. SUFFICES ASSUME k < i PROVE FALSE
    BY <1>1, <1>2
  <2>2. k \in 0..(i - 1) /\ k \in 0..(proj.plan.milestoneCount - 1)
    BY <1>1, <2>1
  <2>3. k < k
    BY <1>3, <2>2 DEF Sound, InOrder
  <2> QED
    BY <1>1, <2>3
<1>4. CASE ms[i].status \in {"Submitted", "Approved"} \/ ds[i].active
  BY <1>4 DEF Sound, InOrder
<1> QED
  BY <1>3, <1>4

-----------------------------------------------------------------------------
(* How a project's values change, in the order of its life.                *)

(* fundProject *)
LEMMA FundSound ==
  ASSUME NEW proj \in ProjectType, NEW ms \in [MilestoneIndexes -> MilestoneType],
         NEW ds \in [MilestoneIndexes -> DisputeType], Sound(proj, ms, ds),
         NEW amount \in Nat,
         proj.status \in {"Active", "Disputed"},
         proj.fundedAmount + amount <= proj.plan.runningTotal[proj.plan.milestoneCount]
  PROVE  LET new == [proj EXCEPT !.fundedAmount = @ + amount] IN
         new \in ProjectType /\ Sound(new, ms, ds)
<1> DEFINE new == [proj EXCEPT !.fundedAmount = @ + amount]
<1>1. new \in ProjectType
  BY DEF ProjectType
<1>2. /\ new.plan = proj.plan /\ new.token = proj.token /\ new.status = proj.status
      /\ new.settledMilestoneCount = proj.settledMilestoneCount
      /\ new.releasedAmount = proj.releasedAmount
      /\ new.refundedAmount = proj.refundedAmount
      /\ new.activeDisputeCount = proj.activeDisputeCount
      /\ new.reservedAmount = proj.reservedAmount
      /\ new.fundedAmount = proj.fundedAmount + amount
  BY DEF ProjectType
<1>3. /\ proj.plan \in Plans /\ proj.fundedAmount \in Nat
      /\ proj.releasedAmount \in Nat /\ proj.refundedAmount \in Nat
      /\ proj.settledMilestoneCount \in Nat
  BY DEF ProjectType, Sound
<1> HIDE DEF new
<1>4. Sound(new, ms, ds)
  BY <1>2, <1>3, PlanFacts DEF Sound, InOrder, OpenBooks
<1> QED
  BY <1>1, <1>4 DEF new

(* submitMilestone and approveMilestone *)
LEMMA DeliverySound ==
  ASSUME NEW proj \in ProjectType, NEW ms \in [MilestoneIndexes -> MilestoneType],
         NEW ds \in [MilestoneIndexes -> DisputeType], Sound(proj, ms, ds),
         proj.status \in {"Active", "Disputed"},
         NEW i \in 0..(proj.plan.milestoneCount - 1), NEW m \in MilestoneType,
         m.status \in {"Submitted", "Approved"}, ~ds[i].active,
         ms[i].status \in {"Pending", "Submitted"},
         \A j \in 0..(i - 1) : ms[j].status \in {"Released", "Refunded"},
         proj.plan.runningTotal[i + 1] <= proj.fundedAmount
  PROVE  Sound(proj, [ms EXCEPT ![i] = m], ds)
<1> DEFINE k == proj.settledMilestoneCount
           new == [ms EXCEPT ![i] = m]
<1>1. proj.plan \in Plans /\ k \in Nat
  BY DEF ProjectType, Sound
<1>2. i \in MilestoneIndexes
  BY <1>1, PlanFacts
<1>3. new[i] = m /\ \A j \in MilestoneIndexes \ {i} : new[j] = ms[j]
  BY <1>2
<1>4. i = k
  BY NextMilestone
<1>5. \A j \in 0..(proj.plan.milestoneCount - 1) : j \in MilestoneIndexes
  BY <1>1, PlanFacts
<1> HIDE DEF new, k
<1>6. InOrder(proj, new, ds)
  BY <1>1, <1>3, <1>4, <1>5 DEF Sound, InOrder, k
<1>7. OpenBooks(proj, new[k], ds[k])
  BY <1>1, <1>3, <1>4 DEF Sound, OpenBooks, k
<1> QED
  BY <1>6, <1>7 DEF Sound, k, new

(* raiseDispute *)
LEMMA RaiseSound ==
  ASSUME NEW proj \in ProjectType, NEW ms \in [MilestoneIndexes -> MilestoneType],
         NEW ds \in [MilestoneIndexes -> DisputeType], Sound(proj, ms, ds),
         proj.status \in {"Active", "Disputed"},
         NEW i \in 0..(proj.plan.milestoneCount - 1), NEW d \in DisputeType, d.active,
         ms[i].status \in {"Pending", "Submitted", "Approved"}, ~ds[i].active,
         \A j \in 0..(i - 1) : ms[j].status \in {"Released", "Refunded"},
         proj.plan.runningTotal[i + 1] <= proj.fundedAmount
  PROVE  LET amount == proj.plan.runningTotal[i + 1] - proj.plan.runningTotal[i]
             new == [proj EXCEPT !.activeDisputeCount = @ + 1,
                                 !.reservedAmount = @ + amount,
                                 !.status = "Disputed"]
         IN new \in ProjectType /\ Sound(new, ms, [ds EXCEPT ![i] = d])
<1> DEFINE k == proj.settledMilestoneCount
           amount == proj.plan.runningTotal[i + 1] - proj.plan.runningTotal[i]
           new == [proj EXCEPT !.activeDisputeCount = @ + 1,
                               !.reservedAmount = @ + amount,
                               !.status = "Disputed"]
           newDs == [ds EXCEPT ![i] = d]
<1>1. proj.plan \in Plans /\ k \in Nat
  BY DEF ProjectType, Sound
<1>2. i \in MilestoneIndexes /\ amount \in Nat
  BY <1>1, PlanFacts
<1>3. newDs[i] = d /\ \A j \in MilestoneIndexes \ {i} : newDs[j] = ds[j]
  BY <1>2
<1>4. i = k
  BY NextMilestone
<1>5. \A j \in 0..(proj.plan.milestoneCount - 1) : j \in MilestoneIndexes
  BY <1>1, PlanFacts
<1> HIDE DEF amount
<1>6. /\ new \in ProjectType /\ new.plan = proj.plan /\ new.token = proj.token
      /\ new.status = "Disputed" /\ new.settledMilestoneCount = k
      /\ new.releasedAmount = proj.releasedAmount
      /\ new.refundedAmount = proj.refundedAmount
      /\ new.fundedAmount = proj.fundedAmount
      /\ new.activeDisputeCount = proj.activeDisputeCount + 1
      /\ new.reservedAmount = proj.reservedAmount + amount
  <2>1. proj.activeDisputeCount + 1 \in Nat /\ proj.reservedAmount + amount \in Nat
    BY <1>2 DEF ProjectType
  <2> QED
    BY <2>1 DEF ProjectType, ProjectStatuses
<1>7. OpenBooks(proj, ms[k], ds[k])
  BY DEF Sound
<1>8. amount = proj.plan.runningTotal[k + 1] - proj.plan.runningTotal[k]
  BY <1>4 DEF amount
<1>9. ~ds[k].active /\ newDs[k].active /\ proj.plan.runningTotal[k + 1] <= proj.fundedAmount
  BY <1>3, <1>4
<1> HIDE DEF new, newDs
<1>10. InOrder(new, ms, newDs)
  BY <1>1, <1>3, <1>4, <1>5, <1>6 DEF Sound, InOrder, k
<1>11. OpenBooks(new, ms[k], newDs[k])
  <2>1. new.reservedAmount = amount /\ new.activeDisputeCount = 1
    BY <1>2, <1>6, <1>7, <1>9 DEF OpenBooks
  <2> QED
    BY <1>1, <1>6, <1>7, <1>8, <1>9, <2>1 DEF OpenBooks
<1>12. Sound(new, ms, newDs)
  BY <1>1, <1>6, <1>10, <1>11 DEF Sound, k
<1> QED
  BY <1>6, <1>12 DEF new, newDs, amount

(* Every way of settling one milestone: releaseMilestone, resolveDispute,   *)
(* resolveStaleDisputeByTimeout, emergencyResolveDispute.                   *)
LEMMA SettleSound ==
  ASSUME NEW proj \in ProjectType, NEW ms \in [MilestoneIndexes -> MilestoneType],
         NEW ds \in [MilestoneIndexes -> DisputeType], Sound(proj, ms, ds),
         proj.status \in {"Active", "Disputed"},
         NEW i \in 0..(proj.plan.milestoneCount - 1),
         ms[i].status \in {"Submitted", "Approved"} \/ ds[i].active,
         NEW m \in MilestoneType, m.status \in {"Released", "Refunded"},
         NEW new \in ProjectType,
         new.plan = proj.plan, new.token = proj.token,
         new.fundedAmount = proj.fundedAmount,
         new.releasedAmount + new.refundedAmount =
           proj.releasedAmount + proj.refundedAmount
             + (proj.plan.runningTotal[i + 1] - proj.plan.runningTotal[i]),
         new.settledMilestoneCount = proj.settledMilestoneCount + 1,
         new.activeDisputeCount =
           proj.activeDisputeCount - (IF ds[i].active THEN 1 ELSE 0),
         new.reservedAmount = proj.reservedAmount
           - (IF ds[i].active
              THEN proj.plan.runningTotal[i + 1] - proj.plan.runningTotal[i] ELSE 0),
         new.status = IF new.activeDisputeCount > 0 THEN "Disputed"
                      ELSE IF new.settledMilestoneCount = new.plan.milestoneCount
                           THEN "Completed" ELSE "Active",
         NEW d \in DisputeType, ~d.active
  PROVE  Sound(new, [ms EXCEPT ![i] = m], [ds EXCEPT ![i] = d])
<1> DEFINE k == proj.settledMilestoneCount
           n == proj.plan.milestoneCount
           total == proj.plan.runningTotal
           newMs == [ms EXCEPT ![i] = m]
           newDs == [ds EXCEPT ![i] = d]
<1>1. /\ proj.plan \in Plans /\ k \in Nat /\ n \in Nat
      /\ \A j \in 0..n : total[j] \in Nat
      /\ \A j \in 0..(n - 1) : j \in MilestoneIndexes
  BY PlanFacts DEF ProjectType, Sound
<1>2. OpenBooks(proj, ms[k], ds[k]) /\ InOrder(proj, ms, ds)
  BY DEF Sound
<1>3. i = k
  BY <1>2 DEF InOrder
<1>4. newMs[i] = m /\ \A j \in MilestoneIndexes \ {i} : newMs[j] = ms[j]
  BY <1>1
<1>5. newDs[i] = d /\ \A j \in MilestoneIndexes \ {i} : newDs[j] = ds[j]
  BY <1>1
<1>6. /\ new.activeDisputeCount = 0 /\ new.reservedAmount = 0
      /\ new.settledMilestoneCount = k + 1
      /\ new.releasedAmount + new.refundedAmount = total[k + 1]
      /\ total[k + 1] <= new.fundedAmount /\ new.fundedAmount <= total[n]
      /\ new.status = IF k + 1 = n THEN "Completed" ELSE "Active"
      /\ k + 1 <= n
  <2>1. k < n /\ total[k] \in Nat /\ total[k + 1] \in Nat /\ k + 1 <= n
    BY <1>1, <1>2 DEF OpenBooks
  <2>2. /\ new.activeDisputeCount = 0 /\ new.reservedAmount = 0
    BY <1>2, <1>3, <2>1 DEF OpenBooks
  <2>3. new.releasedAmount + new.refundedAmount = total[k + 1]
    BY <1>2, <1>3, <2>1 DEF OpenBooks, ProjectType
  <2>4. total[k + 1] <= new.fundedAmount /\ new.fundedAmount <= total[n]
    BY <1>2, <1>3 DEF OpenBooks, Sound
  <2> QED
    BY <1>1, <2>1, <2>2, <2>3, <2>4
<1> HIDE DEF newMs, newDs
<1>7. InOrder(new, newMs, newDs)
  <2> SUFFICES ASSUME NEW j \in 0..(n - 1)
               PROVE  /\ newMs[j].status \in {"Released", "Refunded"} <=> j < k + 1
                      /\ newMs[j].status \in {"Submitted", "Approved"} \/ newDs[j].active
                           => j = k + 1
    BY <1>6 DEF InOrder
  <2>1. CASE j = i
    BY <1>1, <1>3, <1>4, <1>5, <2>1
  <2>2. CASE j # i
    <3>1. newMs[j] = ms[j] /\ newDs[j] = ds[j] /\ j \in Nat
      BY <1>1, <1>4, <1>5, <2>2
    <3>2. j < k <=> j < k + 1
      BY <1>1, <1>3, <2>2, <3>1
    <3> QED
      BY <1>2, <1>3, <2>2, <3>1, <3>2 DEF InOrder
  <2> QED
    BY <2>1, <2>2
<1>8. CASE k + 1 = n
  <2>1. ClosedBooks(new)
    BY <1>1, <1>6, <1>8 DEF ClosedBooks, ProjectType
  <2> QED
    BY <1>1, <1>6, <1>7, <1>8, <2>1 DEF Sound, newMs, newDs, ProjectType
<1>9. CASE k + 1 # n
  <2>1. k + 1 < n /\ k + 1 \in 0..(n - 1)
    BY <1>1, <1>6, <1>9
  <2>2. ~(newDs[k + 1].active) /\ newMs[k + 1].status \notin {"Submitted", "Approved"}
    <3>1. k + 1 \in MilestoneIndexes /\ k + 1 # i /\ k + 1 # k
      BY <1>1, <1>3, <2>1
    <3> QED
      BY <1>2, <1>4, <1>5, <2>1, <3>1 DEF InOrder
  <2>3. OpenBooks(new, newMs[k + 1], newDs[k + 1])
    BY <1>1, <1>6, <1>9, <2>1, <2>2 DEF OpenBooks
  <2> QED
    BY <1>1, <1>6, <1>7, <1>9, <2>1, <2>3 DEF Sound, newMs, newDs, ProjectType
<1> QED
  BY <1>8, <1>9

(* cancelProject and emergencyAdminCancel, which settle what is left. *)
LEMMA CloseSound ==
  ASSUME NEW proj \in ProjectType, NEW ms, NEW ds, Sound(proj, ms, ds),
         NEW new \in ProjectType, new.plan = proj.plan, new.token = proj.token,
         new.fundedAmount = proj.fundedAmount,
         new.releasedAmount + new.refundedAmount = new.fundedAmount,
         new.settledMilestoneCount = new.plan.milestoneCount,
         new.activeDisputeCount = 0, new.reservedAmount = 0,
         new.status = "Cancelled",
         NEW newMs, NEW newDs,
         \A i \in 0..(proj.plan.milestoneCount - 1) :
           newMs[i].status \in {"Released", "Refunded"} /\ ~newDs[i].active
  PROVE  Sound(new, newMs, newDs)
<1>1. /\ new.plan \in Plans /\ new.plan.milestoneCount \in Nat
      /\ new.fundedAmount \in Nat
  BY PlanFacts DEF Sound, ProjectType
<1>2. InOrder(new, newMs, newDs)
  BY <1>1 DEF InOrder
<1>3. ClosedBooks(new)
  BY DEF ClosedBooks
<1> QED
  BY <1>1, <1>2, <1>3 DEF Sound

(* createProject *)
LEMMA CreateSound ==
  ASSUME NEW plan \in Plans, plan.milestoneCount # 0, NEW t \in Tokens,
         NEW c \in Accounts, NEW f \in Holders,
         NEW ms, NEW ds,
         \A i \in 0..(plan.milestoneCount - 1) :
           ms[i].status = "Pending" /\ ~ds[i].active
  PROVE  LET new == [NoProject EXCEPT !.client = c, !.freelancer = f,
                                      !.token = t, !.plan = plan]
         IN new \in ProjectType /\ Sound(new, ms, ds)
<1> DEFINE new == [NoProject EXCEPT !.client = c, !.freelancer = f,
                                    !.token = t, !.plan = plan]
<1>1. NoProject \in ProjectType
  <2>1. NoPlan \in PlanType
    BY MilestonesAssumption DEF NoPlan, PlanType
  <2> QED
    BY <2>1 DEF NoProject, ProjectType, ProjectStatuses, Addresses
<1>2. /\ new \in ProjectType /\ new.token = t /\ new.plan = plan
      /\ new.fundedAmount = 0 /\ new.releasedAmount = 0 /\ new.refundedAmount = 0
      /\ new.reservedAmount = 0 /\ new.activeDisputeCount = 0
      /\ new.settledMilestoneCount = 0 /\ new.status = "Active"
  <2>1. /\ NoProject.fundedAmount = 0 /\ NoProject.releasedAmount = 0
        /\ NoProject.refundedAmount = 0 /\ NoProject.reservedAmount = 0
        /\ NoProject.activeDisputeCount = 0 /\ NoProject.settledMilestoneCount = 0
        /\ NoProject.status = "Active"
    BY DEF NoProject
  <2>2. plan \in PlanType
    BY PlanFacts
  <2> HIDE DEF NoProject
  <2> QED
    BY <1>1, <2>1, <2>2 DEF ProjectType, Addresses
<1> HIDE DEF new
<1>3. /\ plan.milestoneCount \in Nat /\ 0 \in 0..(plan.milestoneCount - 1)
      /\ plan.runningTotal[0] = 0
      /\ plan.runningTotal[plan.milestoneCount] \in Nat
  BY PlanFacts
<1>4. InOrder(new, ms, ds)
  BY <1>2, <1>3 DEF InOrder
<1>5. OpenBooks(new, ms[0], ds[0])
  BY <1>2, <1>3 DEF OpenBooks
<1>6. Sound(new, ms, ds)
  BY <1>2, <1>3, <1>4, <1>5 DEF Sound
<1> QED
  BY <1>2, <1>6 DEF new

-----------------------------------------------------------------------------
(* Sums and counts of the milestones cancelProject goes through.           *)

(* When there is nothing to pay out or to release, the sum is nothing. *)
LEMMA SumOfNone == ASSUME NEW p PROVE SumOfAmounts(p, {}) = 0
<1> DEFINE Iter(it) == it = [s \in SUBSET {} |-> IF s = {} THEN 0 ELSE
               Amount(p, CHOOSE x \in s : TRUE) + it[s \ {CHOOSE x \in s : TRUE}]]
<1>1. Iter([s \in SUBSET {} |-> 0])
  OBVIOUS
<1>2. Iter(CHOOSE it : Iter(it))
  BY <1>1, Zenon
<1>3. (CHOOSE it : Iter(it))[{}] = 0
  BY <1>2
<1> HIDE DEF Iter
<1>4. SumOfAmounts(p, {}) = (CHOOSE it : Iter(it))[{}]
  BY DEF SumOfAmounts, MapThenSumSet, MapThenFoldSet, Iter
<1> QED
  BY <1>3, <1>4

(* Of one milestone, the sum is its price. *)
LEMMA SumOfOne ==
  ASSUME NEW p, NEW i, Amount(p, i) \in Int
  PROVE  SumOfAmounts(p, {i}) = Amount(p, i)
<1> DEFINE Iter(it) == it = [s \in SUBSET {i} |-> IF s = {} THEN 0 ELSE
               Amount(p, CHOOSE x \in s : TRUE) + it[s \ {CHOOSE x \in s : TRUE}]]
           g == [s \in SUBSET {i} |-> IF s = {} THEN 0 ELSE Amount(p, i)]
<1>1. /\ SUBSET {i} = {{}, {i}} /\ {i} # {} /\ {i} \ {i} = {}
      /\ (CHOOSE x \in {i} : TRUE) = i
  OBVIOUS
<1>2. Iter(g)
  <2> SUFFICES ASSUME NEW s \in SUBSET {i}
               PROVE  g[s] = IF s = {} THEN 0 ELSE
                        Amount(p, CHOOSE x \in s : TRUE) + g[s \ {CHOOSE x \in s : TRUE}]
    OBVIOUS
  <2>1. CASE s = {}
    BY <2>1
  <2>2. CASE s = {i}
    <3>1. /\ g[s] = Amount(p, i) /\ g[{}] = 0
          /\ (CHOOSE x \in s : TRUE) = i /\ s \ {i} = {}
      BY <1>1, <2>2
    <3> QED
      BY <2>2, <3>1
  <2> QED
    BY <1>1, <2>1, <2>2
<1>3. Iter(CHOOSE it : Iter(it))
  <2> HIDE DEF Iter, g
  <2> QED
    BY <1>2, Zenon
<1>4. ASSUME NEW h, Iter(h) PROVE h[{i}] = Amount(p, i)
  <2>1. h[{}] = 0 /\ \A s \in SUBSET {i} : s # {} =>
          h[s] = Amount(p, CHOOSE x \in s : TRUE) + h[s \ {CHOOSE x \in s : TRUE}]
    BY <1>4
  <2>2. h[{i}] = Amount(p, CHOOSE x \in {i} : TRUE) + h[{i} \ {CHOOSE x \in {i} : TRUE}]
    BY <2>1
  <2>3. h[{i}] = Amount(p, i) + h[{}]
    BY <1>1, <2>2
  <2> QED
    BY <2>1, <2>3
<1> HIDE DEF Iter
<1>5. SumOfAmounts(p, {i}) = (CHOOSE it : Iter(it))[{i}]
  BY DEF SumOfAmounts, MapThenSumSet, MapThenFoldSet, Iter
<1> QED
  BY <1>3, <1>4, <1>5

-----------------------------------------------------------------------------
(* The registry.                                                           *)

ProjectsOK == ProjectsTypeOK /\ ProjectsSound

(* The inductive invariant: types, the multisig's own invariant, and the    *)
(* soundness of every project.                                              *)
RegistryInv ==
  /\ RecipientsTypeOK /\ MultisigInv(Subjects) /\ AdminTypeOK
  /\ ProjectsOK /\ NoncesTypeOK /\ TokensTypeOK

-----------------------------------------------------------------------------
(* What a step leaves alone stays as it is.                                *)

LEMMA Frames ==
  ASSUME RegistryInv
  PROVE  /\ UNCHANGED <<now, recipientVars>> => RecipientsTypeOK'
         /\ UNCHANGED multisigVars => MultisigInv(Subjects)'
         /\ UNCHANGED adminVars => AdminTypeOK'
         /\ UNCHANGED <<projectCount, project, milestone, dispute>> => ProjectsOK'
         /\ UNCHANGED nonceVars => NoncesTypeOK'
         /\ UNCHANGED <<tokenOutstanding, tokenVars>> => TokensTypeOK'
<1>1. UNCHANGED <<now, recipientVars>> => RecipientsTypeOK'
  BY DEF RegistryInv, RecipientsTypeOK, recipientVars
<1>2. UNCHANGED multisigVars => MultisigInv(Subjects)'
  BY MultisigStutterInv DEF RegistryInv
<1>3. UNCHANGED adminVars => AdminTypeOK'
  BY DEF RegistryInv, AdminTypeOK, adminVars
<1>4. UNCHANGED <<projectCount, project, milestone, dispute>> => ProjectsOK'
  BY DEF RegistryInv, ProjectsOK, ProjectsTypeOK, ProjectsSound
<1>5. UNCHANGED nonceVars => NoncesTypeOK'
  BY DEF RegistryInv, NoncesTypeOK, nonceVars
<1>6. UNCHANGED <<tokenOutstanding, tokenVars>> => TokensTypeOK'
  BY DEF RegistryInv, TokensTypeOK, tokenVars
<1> QED
  BY <1>1, <1>2, <1>3, <1>4, <1>5, <1>6

(* What is known of a project that exists. *)
LEMMA ProjectFacts ==
  ASSUME ProjectsOK, NEW p, Exists(p)
  PROVE  /\ p \in Projects /\ p <= projectCount
         /\ project[p] \in ProjectType
         /\ milestone[p] \in [MilestoneIndexes -> MilestoneType]
         /\ dispute[p] \in [MilestoneIndexes -> DisputeType]
         /\ Sound(project[p], milestone[p], dispute[p])
         /\ project[p].plan \in Plans /\ project[p].token \in Tokens
         /\ \A i \in Milestones(p) : i \in MilestoneIndexes /\ Amount(p, i) \in Nat
<1>1. p \in Projects /\ p <= projectCount
  BY MaxProjectsAssumption DEF Exists, ProjectsOK, ProjectsTypeOK, Projects
<1>2. Sound(project[p], milestone[p], dispute[p])
  BY <1>1 DEF ProjectsOK, ProjectsSound
<1>3. project[p].plan \in Plans /\ project[p].token \in Tokens
  BY <1>2 DEF Sound
<1> QED
  BY <1>1, <1>2, <1>3, PlanFacts DEF ProjectsOK, ProjectsTypeOK, Milestones, Amount

(* Replacing the values of one project by sound ones. *)
LEMMA OneProjectChanges ==
  ASSUME ProjectsOK, NEW p \in Projects, p <= projectCount,
         NEW proj \in ProjectType, NEW ms \in [MilestoneIndexes -> MilestoneType],
         NEW ds \in [MilestoneIndexes -> DisputeType], Sound(proj, ms, ds),
         project' = [project EXCEPT ![p] = proj],
         milestone' = [milestone EXCEPT ![p] = ms],
         dispute' = [dispute EXCEPT ![p] = ds],
         projectCount' = projectCount
  PROVE  ProjectsOK'
<1>1. ProjectsTypeOK'
  BY DEF ProjectsOK, ProjectsTypeOK
<1>2. /\ project'[p] = proj /\ milestone'[p] = ms /\ dispute'[p] = ds
      /\ \A q \in Projects \ {p} : /\ project'[q] = project[q]
                                   /\ milestone'[q] = milestone[q]
                                   /\ dispute'[q] = dispute[q]
  BY DEF ProjectsOK, ProjectsTypeOK
<1>3. ProjectsSound'
  <2> SUFFICES ASSUME NEW q \in Projects
               PROVE  /\ q <= projectCount => Sound(project'[q], milestone'[q], dispute'[q])
                      /\ q > projectCount => \A i \in MilestoneIndexes : ~dispute'[q][i].active
    BY DEF ProjectsSound
  <2>1. CASE q = p
    BY <1>2, <2>1 DEF Projects, ProjectsOK, ProjectsTypeOK
  <2>2. CASE q # p
    BY <1>2, <2>2 DEF ProjectsOK, ProjectsSound
  <2> QED
    BY <2>1, <2>2
<1> QED
  BY <1>1, <1>3 DEF ProjectsOK

(* Payments keep the token's books in the natural numbers: the registry     *)
(* never pays what it does not hold, nor more than it owes.                 *)
LEMMA PayType ==
  ASSUME TokensTypeOK, NEW t \in Tokens, NEW f, NEW c,
         NEW a \in Nat, NEW b \in Nat, NEW amount \in Nat,
         Pay(t, f, a, c, b), ReduceOutstanding(t, amount)
  PROVE  TokensTypeOK'
<1> DEFINE books == [h \in Holders |->
       balance[t][h] + (IF h = f THEN a ELSE 0) + (IF h = c THEN b ELSE 0)
            - (IF h = Registry THEN a + b ELSE 0)]
<1>1. balance' = [balance EXCEPT ![t] = books] /\ blocked' = blocked
  BY DEF Pay, TokensTypeOK
<1>2. balance[t][Registry] >= a + b
  BY DEF Pay
<1>3. books \in [Holders -> Nat]
  <2> SUFFICES ASSUME NEW h \in Holders PROVE books[h] \in Nat
    OBVIOUS
  <2>1. balance[t][h] \in Nat
    BY DEF TokensTypeOK
  <2> QED
    BY <1>2, <2>1
<1> HIDE DEF books
<1>4. balance' \in [Tokens -> [Holders -> Nat]]
  BY <1>1, <1>3 DEF TokensTypeOK
<1>5. tokenOutstanding' \in [Tokens -> Nat]
  BY DEF ReduceOutstanding, TokensTypeOK
<1> QED
  BY <1>1, <1>4, <1>5 DEF TokensTypeOK

-----------------------------------------------------------------------------
(* One lemma per transaction.                                              *)

(* pause, unpause, the token allowlist, and sweeping. *)
LEMMA AdminStepInv ==
  ASSUME RegistryInv, AdminStep
  PROVE  RegistryInv'
<1>1. CASE ChangeRoles
  <2>1. MultisigInv(Subjects)'
    BY <1>1, RoleStepInv DEF ChangeRoles, RegistryInv
  <2> QED
    BY <1>1, <2>1, Frames DEF ChangeRoles, RegistryInv, projectVars
<1>2. ASSUME NEW c \in Accounts, Pause(c) \/ Unpause(c)
      PROVE  RegistryInv'
  <2>1. AdminTypeOK'
    BY <1>2 DEF Pause, Unpause, RegistryInv, AdminTypeOK
  <2> QED
    BY <1>2, <2>1, Frames DEF Pause, Unpause, RegistryInv, projectVars
<1>3. ASSUME NEW c \in Accounts, NEW t \in Tokens, AttestTokenReviewForAllowlist(c, t)
      PROVE  RegistryInv'
  <2>1. AdminTypeOK'
    BY <1>3 DEF AttestTokenReviewForAllowlist, RegistryInv, AdminTypeOK
  <2> QED
    BY <1>3, <2>1, Frames DEF AttestTokenReviewForAllowlist, RegistryInv, projectVars
<1>4. ASSUME NEW c \in Accounts, NEW t \in Tokens, NEW allowed \in BOOLEAN,
             SetAllowedToken(c, t, allowed)
      PROVE  RegistryInv'
  <2>1. AdminTypeOK'
    BY <1>4 DEF SetAllowedToken, RegistryInv, AdminTypeOK
  <2> QED
    BY <1>4, <2>1, Frames DEF SetAllowedToken, RegistryInv, projectVars
<1>5. ASSUME NEW c \in Accounts, NEW t \in Tokens, NEW to \in Accounts,
             NEW amount \in StrayAmounts, SweepUntrackedToken(c, t, to, amount)
      PROVE  RegistryInv'
  <2> DEFINE books == [balance[t] EXCEPT ![Registry] = @ - amount, ![to] = @ + amount]
  <2>1. /\ amount \in Nat /\ balance[t] \in [Holders -> Nat]
        /\ tokenOutstanding[t] \in Nat
        /\ to \in Holders /\ Registry \in Holders /\ to # Registry
        /\ balance[t][Registry] - tokenOutstanding[t] >= amount
    BY <1>5, ChoicesAssumption
    DEF SweepUntrackedToken, Untracked, RegistryInv, TokensTypeOK, Holders
  <2>2. books \in [Holders -> Nat]
    BY <2>1
  <2>3. balance' = [balance EXCEPT ![t] = books] /\ UNCHANGED <<tokenOutstanding, blocked>>
    BY <1>5 DEF SweepUntrackedToken, RegistryInv, TokensTypeOK, projectVars
  <2> HIDE DEF books
  <2>4. TokensTypeOK'
    BY <2>2, <2>3 DEF RegistryInv, TokensTypeOK
  <2> QED
    BY <1>5, <2>4, Frames DEF SweepUntrackedToken, RegistryInv, projectVars
<1> QED
  BY <1>1, <1>2, <1>3, <1>4, <1>5 DEF AdminStep

(* The clock, transfers past the registry, and the token issuer's blocks. *)
LEMMA EnvironmentStepInv ==
  ASSUME RegistryInv, EnvironmentStep
  PROVE  RegistryInv'
<1>1. CASE Tick
  <2>1. RecipientsTypeOK'
    BY <1>1 DEF Tick, recipientVars, RegistryInv, RecipientsTypeOK
  <2> QED
    BY <1>1, <2>1, Frames DEF Tick, RegistryInv, projectVars
<1>2. ASSUME NEW t \in Tokens, NEW a \in Accounts, NEW amount \in StrayAmounts,
             StrayTransfer(a, t, amount)
      PROVE  RegistryInv'
  <2> DEFINE books == [balance[t] EXCEPT ![a] = @ - amount, ![Registry] = @ + amount]
  <2>1. /\ amount \in Nat /\ balance[t] \in [Holders -> Nat]
        /\ a \in Holders /\ Registry \in Holders /\ a # Registry
        /\ balance[t][a] >= amount
    BY <1>2, ChoicesAssumption, AddressAssumption
    DEF StrayTransfer, RegistryInv, TokensTypeOK, Holders
  <2>2. books \in [Holders -> Nat]
    BY <2>1
  <2>3. balance' = [balance EXCEPT ![t] = books] /\ UNCHANGED <<tokenOutstanding, blocked>>
    BY <1>2 DEF StrayTransfer, RegistryInv, TokensTypeOK, projectVars
  <2> HIDE DEF books
  <2>4. TokensTypeOK'
    BY <2>2, <2>3 DEF RegistryInv, TokensTypeOK
  <2> QED
    BY <1>2, <2>4, Frames DEF StrayTransfer, RegistryInv, projectVars
<1>3. ASSUME NEW t \in Tokens, NEW a \in Blockable, NEW b \in BOOLEAN,
             SetBlocked(t, a, b)
      PROVE  RegistryInv'
  <2>1. a \in Accounts /\ UNCHANGED <<tokenOutstanding, balance>>
    BY <1>3, ChoicesAssumption DEF SetBlocked, projectVars
  <2>2. blocked' \in [Tokens -> SUBSET Accounts]
    BY <1>3, <2>1 DEF SetBlocked, RegistryInv, TokensTypeOK
  <2>3. TokensTypeOK'
    BY <2>1, <2>2 DEF RegistryInv, TokensTypeOK
  <2> QED
    BY <1>3, <2>3, Frames DEF SetBlocked, RegistryInv, projectVars
<1> QED
  BY <1>1, <1>2, <1>3 DEF EnvironmentStep

(* setAlternativeRecipient: a vote, or a decision and its delayed proposal. *)
LEMMA SetAlternativeRecipientInv ==
  ASSUME RegistryInv, NEW c \in Accounts, NEW p \in Projects,
         NEW i \in MilestoneIndexes, NEW leg \in Legs, NEW new \in Addresses,
         SetAlternativeRecipient(c, p, i, leg, new)
  PROVE  RegistryInv'
<1>1. AlternativeSubject(p, i, leg, new) \in Subjects
  BY DEF AlternativeSubject, Subjects, AlternativeSubjects, RegistryInv,
         ProjectsOK, ProjectsTypeOK, DisputeType, NoncesTypeOK
<1>2. MultisigInv(Subjects)'
  BY <1>1, ArbitratorVoteInv DEF SetAlternativeRecipient, RegistryInv
<1>3. RecipientsTypeOK'
  <2>1. /\ now \in Nat /\ now + ALTERNATIVE_RECIPIENT_DELAY \in Nat
        /\ NoAddress \in Addresses
        /\ alternative \in [Projects -> [MilestoneIndexes -> [Legs -> Addresses]]]
        /\ pendingAlternative \in [Projects -> [MilestoneIndexes -> [Legs -> PendingType]]]
    BY AlternativeDelayAssumption DEF RegistryInv, RecipientsTypeOK, Addresses
  <2>2. CASE ProposeAlternative(p, i, leg, new)
    <3>1. /\ NoPending \in PendingType
          /\ [recipient |-> new,
              executableAfter |-> now + ALTERNATIVE_RECIPIENT_DELAY] \in PendingType
      BY <2>1 DEF NoPending, PendingType
    <3> HIDE DEF NoPending
    <3>2. alternative' \in [Projects -> [MilestoneIndexes -> [Legs -> Addresses]]]
      <4>1. CASE alternative' = [alternative EXCEPT ![p][i][leg] = NoAddress]
        BY <2>1, <4>1
      <4>2. CASE UNCHANGED alternative
        BY <2>1, <4>2
      <4> QED
        BY <2>2, <4>1, <4>2 DEF ProposeAlternative
    <3>3. CASE new = NoAddress
      <4>1. pendingAlternative' = [pendingAlternative EXCEPT ![p][i][leg] = NoPending]
        BY <2>2, <3>3 DEF ProposeAlternative
      <4> QED
        BY <2>1, <3>1, <3>2, <4>1
        DEF SetAlternativeRecipient, RegistryInv, RecipientsTypeOK, consentVars
    <3>4. CASE new # NoAddress
      <4> DEFINE proposal == [recipient |-> new,
                    executableAfter |-> now + ALTERNATIVE_RECIPIENT_DELAY]
      <4>1. pendingAlternative' = [pendingAlternative EXCEPT ![p][i][leg] = proposal]
        BY <2>2, <3>4 DEF ProposeAlternative
      <4>2. proposal \in PendingType
        BY <3>1
      <4> HIDE DEF proposal
      <4> QED
        BY <2>1, <3>2, <4>1, <4>2
        DEF SetAlternativeRecipient, RegistryInv, RecipientsTypeOK, consentVars
    <3> QED
      BY <3>3, <3>4
  <2>3. CASE UNCHANGED alternativeVars
    BY <2>3 DEF SetAlternativeRecipient, RegistryInv, RecipientsTypeOK,
       consentVars, alternativeVars
  <2> QED
    BY <2>2, <2>3 DEF SetAlternativeRecipient, alternativeVars
<1>4. NoncesTypeOK'
  <2>1. UNCHANGED <<emergencyNonce, emergencyReadyAt>>
    BY DEF SetAlternativeRecipient
  <2>2. CASE SpendActionNonce(p, i)
    BY <2>1, <2>2 DEF SpendActionNonce, RegistryInv, NoncesTypeOK
  <2>3. CASE UNCHANGED actionNonce
    BY <2>1, <2>3 DEF RegistryInv, NoncesTypeOK
  <2> QED
    BY <2>2, <2>3 DEF SetAlternativeRecipient
<1> QED
  BY <1>2, <1>3, <1>4, Frames DEF SetAlternativeRecipient, RegistryInv, projectVars

(* Consents, votes on alternatives and their execution touch no project. *)
LEMMA RecipientStepInv ==
  ASSUME RegistryInv, RecipientStep
  PROVE  RegistryInv'
<1> USE DEF Legs
<1>1. ASSUME NEW c \in Accounts, NEW p \in Projects, NEW choice \in RecipientChoices,
             SetPartyAuthorizedRecipient(c, p, choice[1], choice[2], choice[3])
      PROVE  RegistryInv'
  <2>1. choice[1] \in Scopes /\ choice[2] \in Legs /\ choice[3] \in Addresses
    BY ChoicesAssumption
  <2>2. RecipientsTypeOK'
    BY <1>1, <2>1
    DEF SetPartyAuthorizedRecipient, AuthorizeRecipient, RegistryInv,
        RecipientsTypeOK, alternativeVars
  <2> QED
    BY <1>1, <2>2, Frames DEF SetPartyAuthorizedRecipient, RegistryInv, projectVars
<1>2. ASSUME NEW c \in Accounts, NEW p \in Projects, NEW choice \in RecipientChoices,
             choice[1] # ProjectWide,
             SetAlternativeRecipient(c, p, choice[1], choice[2], choice[3])
      PROVE  RegistryInv'
  <2>1. choice[1] \in MilestoneIndexes /\ choice[2] \in Legs /\ choice[3] \in Addresses
    BY <1>2, ChoicesAssumption DEF Scopes
  <2> QED
    BY <1>2, <2>1, SetAlternativeRecipientInv
<1>3. ASSUME NEW c \in Accounts, NEW p \in Projects, NEW choice \in RecipientChoices,
             NEW nonce \in 0..MaxSignedConsents, NEW deadline \in 1..MaxTime,
             SignRecipientConsent(c, p, choice[1], choice[2], choice[3], nonce, deadline)
      PROVE  RegistryInv'
  <2>1. choice[1] \in Scopes /\ choice[2] \in Legs /\ choice[3] \in Addresses
    BY ChoicesAssumption
  <2>2. RecipientsTypeOK'
    BY <1>3, <2>1
    DEF SignRecipientConsent, SignConsent, ConsentType, RegistryInv,
        RecipientsTypeOK, alternativeVars
  <2> QED
    BY <1>3, <2>2, Frames DEF SignRecipientConsent, RegistryInv, projectVars
<1>4. ASSUME NEW c \in Accounts, NEW p \in Projects, NEW i \in MilestoneIndexes,
             NEW l \in Legs, ExecuteAlternativeRecipient(c, p, i, l)
      PROVE  RegistryInv'
  <2>1. pendingAlternative[p][i][l].recipient \in Addresses /\ NoPending \in PendingType
    BY DEF RegistryInv, RecipientsTypeOK, PendingType, NoPending, Addresses
  <2>2. RecipientsTypeOK'
    BY <1>4, <2>1
    DEF ExecuteAlternativeRecipient, ExecuteAlternative, RegistryInv,
        RecipientsTypeOK, consentVars
  <2> QED
    BY <1>4, <2>2, Frames DEF ExecuteAlternativeRecipient, RegistryInv, projectVars
<1>5. ASSUME NEW consent \in signedConsents, SetPartyAuthorizedRecipientBySig(consent)
      PROVE  RegistryInv'
  <2>1. consent \in ConsentType
    BY DEF RegistryInv, RecipientsTypeOK
  <2>2. RecipientsTypeOK'
    BY <1>5, <2>1
    DEF SetPartyAuthorizedRecipientBySig, UseConsent, AuthorizeRecipient,
        ConsentType, RegistryInv, RecipientsTypeOK, alternativeVars
  <2> QED
    BY <1>5, <2>2, Frames DEF SetPartyAuthorizedRecipientBySig, RegistryInv, projectVars
<1> QED
  BY <1>1, <1>2, <1>3, <1>4, <1>5 DEF RecipientStep

(* createProject *)
LEMMA CreateProjectInv ==
  ASSUME RegistryInv, NEW c \in Accounts, NEW f \in Holders, NEW t \in Tokens,
         NEW plan \in Plans, CreateProject(c, f, t, plan)
  PROVE  RegistryInv'
<1> DEFINE q == projectCount + 1
           new == [NoProject EXCEPT !.client = c, !.freelancer = f,
                                    !.token = t, !.plan = plan]
           ms == [i \in MilestoneIndexes |->
                    IF i < plan.milestoneCount THEN NewMilestone ELSE milestone[q][i]]
<1>1. /\ projectCount \in 0..MaxProjects /\ projectCount' = q /\ q \in Projects
      /\ \A p \in Projects : p <= q <=> p <= projectCount \/ p = q
      /\ plan.milestoneCount # 0
  BY MaxProjectsAssumption
  DEF CreateProject, RegistryInv, ProjectsOK, ProjectsTypeOK, Projects
<1>2. /\ project' = [project EXCEPT ![q] = new] /\ dispute' = dispute
      /\ milestone' = [milestone EXCEPT ![q] = ms]
  BY <1>1 DEF CreateProject, RegistryInv, ProjectsOK, ProjectsTypeOK
<1>3. \A i \in MilestoneIndexes : ~dispute[q][i].active
  BY <1>1 DEF RegistryInv, ProjectsOK, ProjectsSound
<1>4. ms \in [MilestoneIndexes -> MilestoneType]
  BY <1>1 DEF RegistryInv, ProjectsOK, ProjectsTypeOK, NewMilestone, MilestoneType,
     MilestoneStatuses
<1>5. \A i \in 0..(plan.milestoneCount - 1) :
        ms[i].status = "Pending" /\ ~dispute[q][i].active
  BY <1>3, PlanFacts DEF NewMilestone
<1> HIDE DEF ms, q
<1>6. new \in ProjectType /\ Sound(new, ms, dispute[q])
  BY <1>1, <1>5, CreateSound
<1> HIDE DEF new
<1>7. ProjectsTypeOK'
  BY <1>1, <1>2, <1>4, <1>6 DEF RegistryInv, ProjectsOK, ProjectsTypeOK, Projects
<1>8. ProjectsSound'
  <2> SUFFICES ASSUME NEW p \in Projects
               PROVE  /\ p <= q => Sound(project'[p], milestone'[p], dispute[p])
                      /\ p > q => \A i \in MilestoneIndexes : ~dispute[p][i].active
    BY <1>1, <1>2 DEF ProjectsSound
  <2>1. CASE p = q
    BY <1>1, <1>2, <1>6, <2>1 DEF RegistryInv, ProjectsOK, ProjectsTypeOK, Projects
  <2>2. CASE p # q
    <3>1. project'[p] = project[p] /\ milestone'[p] = milestone[p]
      BY <1>2, <2>2 DEF RegistryInv, ProjectsOK, ProjectsTypeOK
    <3>2. p > q => p > projectCount
      BY <1>1 DEF Projects, q
    <3> QED
      BY <1>1, <2>2, <3>1, <3>2 DEF RegistryInv, ProjectsOK, ProjectsSound
  <2> QED
    BY <2>1, <2>2
<1> QED
  BY <1>7, <1>8, Frames DEF CreateProject, RegistryInv, ProjectsOK

(* fundProject *)
LEMMA FundProjectInv ==
  ASSUME RegistryInv, NEW c \in Accounts, NEW p \in Projects, NEW amount \in Nat,
         FundProject(c, p, amount)
  PROVE  RegistryInv'
<1> DEFINE new == [project[p] EXCEPT !.fundedAmount = @ + amount]
           t == project[p].token
           books == [balance[t] EXCEPT ![c] = @ - amount, ![Registry] = @ + amount]
<1>1. /\ Exists(p) /\ project[p].status \in {"Active", "Disputed"}
      /\ project[p].fundedAmount + amount <= TotalAmount(p)
      /\ balance[t][c] >= amount
  BY DEF FundProject, Operable
<1>2. /\ p <= projectCount /\ project[p] \in ProjectType
      /\ milestone[p] \in [MilestoneIndexes -> MilestoneType]
      /\ dispute[p] \in [MilestoneIndexes -> DisputeType]
      /\ Sound(project[p], milestone[p], dispute[p]) /\ t \in Tokens
  BY <1>1, ProjectFacts DEF RegistryInv
<1>3. new \in ProjectType /\ Sound(new, milestone[p], dispute[p])
  BY <1>1, <1>2, FundSound DEF TotalAmount
<1>4. /\ project' = [project EXCEPT ![p] = new]
      /\ milestone' = [milestone EXCEPT ![p] = milestone[p]]
      /\ dispute' = [dispute EXCEPT ![p] = dispute[p]]
      /\ projectCount' = projectCount
  BY DEF FundProject, RegistryInv, ProjectsOK, ProjectsTypeOK
<1>5. ProjectsOK'
  <2> HIDE DEF new
  <2> QED
    BY <1>2, <1>3, <1>4, OneProjectChanges DEF RegistryInv
<1>6. TokensTypeOK'
  <2>1. /\ c \in Holders /\ Registry \in Holders /\ c # Registry
        /\ balance[t] \in [Holders -> Nat]
    BY <1>2, AddressAssumption DEF RegistryInv, TokensTypeOK, Holders
  <2>2. books \in [Holders -> Nat]
    BY <1>1, <2>1
  <2>3. /\ balance' = [balance EXCEPT ![t] = books] /\ blocked' = blocked
        /\ tokenOutstanding' = [tokenOutstanding EXCEPT ![t] = @ + amount]
    BY <1>2 DEF FundProject, RegistryInv, TokensTypeOK
  <2> HIDE DEF books
  <2>4. balance' \in [Tokens -> [Holders -> Nat]]
    BY <2>2, <2>3 DEF RegistryInv, TokensTypeOK
  <2>5. tokenOutstanding' \in [Tokens -> Nat]
    BY <1>2, <2>3 DEF RegistryInv, TokensTypeOK
  <2> QED
    BY <2>3, <2>4, <2>5 DEF RegistryInv, TokensTypeOK
<1> QED
  BY <1>5, <1>6, Frames DEF FundProject, RegistryInv

(* Free liquidity that covers the next milestone is money the project has. *)
LEMMA LiquidityCovers ==
  ASSUME ProjectsOK, NEW p, Exists(p), project[p].status \in {"Active", "Disputed"},
         NEW i \in Milestones(p), FreeLiquidity(p) >= Amount(p, i),
         i = project[p].settledMilestoneCount
  PROVE  project[p].plan.runningTotal[i + 1] <= project[p].fundedAmount
<1>1. /\ project[p] \in ProjectType /\ project[p].plan \in Plans
      /\ Sound(project[p], milestone[p], dispute[p])
      /\ i \in 0..(project[p].plan.milestoneCount - 1)
  BY ProjectFacts DEF Milestones
<1>2. /\ project[p].plan.runningTotal[i] \in Nat
      /\ project[p].plan.runningTotal[i + 1] \in Nat
  BY <1>1, PlanFacts
<1>3. /\ project[p].fundedAmount \in Nat /\ project[p].releasedAmount \in Nat
      /\ project[p].refundedAmount \in Nat /\ project[p].reservedAmount \in Nat
  BY <1>1 DEF ProjectType
<1>4. /\ project[p].releasedAmount + project[p].refundedAmount
           = project[p].plan.runningTotal[i]
      /\ project[p].releasedAmount + project[p].refundedAmount <= project[p].fundedAmount
  BY <1>1 DEF Sound, OpenBooks
<1> QED
  BY <1>2, <1>3, <1>4 DEF FreeLiquidity, AvailableLiquidity, Amount

(* submitMilestone and approveMilestone *)
LEMMA DeliveryInv ==
  ASSUME RegistryInv, NEW c \in Accounts, NEW p \in Projects,
         NEW i \in MilestoneIndexes,
         SubmitMilestone(c, p, i) \/ ApproveMilestone(c, p, i)
  PROVE  RegistryInv'
<1> DEFINE new == milestone'[p][i]
<1>1. /\ Exists(p) /\ project[p].status \in {"Active", "Disputed"}
      /\ i \in Milestones(p) /\ ~dispute[p][i].active
      /\ milestone[p][i].status \in {"Pending", "Submitted"}
  BY DEF SubmitMilestone, ApproveMilestone, Operable
<1>2. /\ p <= projectCount /\ project[p] \in ProjectType
      /\ milestone[p] \in [MilestoneIndexes -> MilestoneType]
      /\ dispute[p] \in [MilestoneIndexes -> DisputeType]
      /\ Sound(project[p], milestone[p], dispute[p])
      /\ i \in 0..(project[p].plan.milestoneCount - 1)
  BY <1>1, ProjectFacts DEF RegistryInv, Milestones
<1>3. /\ milestone' = [milestone EXCEPT ![p] = [milestone[p] EXCEPT ![i] = new]]
      /\ new \in MilestoneType /\ new.status \in {"Submitted", "Approved"}
  <2>1. now \in Nat /\ milestone \in [Projects -> [MilestoneIndexes -> MilestoneType]]
    BY DEF RegistryInv, RecipientsTypeOK, ProjectsOK, ProjectsTypeOK
  <2>2. CASE SubmitMilestone(c, p, i)
    BY <2>1, <2>2 DEF SubmitMilestone, MilestoneType, MilestoneStatuses
  <2>3. CASE ApproveMilestone(c, p, i)
    <3> DEFINE m == [milestone[p][i] EXCEPT !.status = "Approved"]
    <3>1. milestone' = [milestone EXCEPT ![p] = [milestone[p] EXCEPT ![i] = m]]
      BY <2>1, <2>3 DEF ApproveMilestone
    <3>2. m \in MilestoneType /\ m.status = "Approved"
      BY <2>1 DEF MilestoneType, MilestoneStatuses
    <3> HIDE DEF m
    <3> QED
      BY <2>1, <3>1, <3>2
  <2> QED
    BY <2>2, <2>3
<1>4. /\ \A j \in 0..(i - 1) : milestone[p][j].status \in {"Released", "Refunded"}
      /\ project[p].plan.runningTotal[i + 1] <= project[p].fundedAmount
  <2>1. CASE SubmitMilestone(c, p, i)
    <3>1. /\ \A j \in 0..(i - 1) : milestone[p][j].status \in {"Released", "Refunded"}
          /\ FreeLiquidity(p) >= Amount(p, i)
      BY <2>1 DEF SubmitMilestone, PreviousCompleted, Settled
    <3>2. i = project[p].settledMilestoneCount
      BY <1>1, <1>2, <3>1, NextMilestone
    <3> QED
      BY <1>1, <3>1, <3>2, LiquidityCovers DEF RegistryInv
  <2>2. CASE ApproveMilestone(c, p, i)
    <3>1. milestone[p][i].status = "Submitted"
      BY <2>2 DEF ApproveMilestone
    <3>2. i = project[p].settledMilestoneCount
      BY <1>2, <3>1 DEF Sound, InOrder
    <3>3. project[p].plan.runningTotal[i + 1] <= project[p].fundedAmount
      BY <1>1, <1>2, <3>1, <3>2 DEF Sound, OpenBooks
    <3>4. \A j \in 0..(i - 1) : milestone[p][j].status \in {"Released", "Refunded"}
      BY <2>2 DEF ApproveMilestone, PreviousCompleted, Settled
    <3> QED
      BY <3>3, <3>4
  <2> QED
    BY <2>1, <2>2
<1>5. Sound(project[p], [milestone[p] EXCEPT ![i] = new], dispute[p])
  <2> HIDE DEF new
  <2> QED
    BY <1>1, <1>2, <1>3, <1>4, DeliverySound
<1>6. /\ project' = [project EXCEPT ![p] = project[p]]
      /\ dispute' = [dispute EXCEPT ![p] = dispute[p]]
      /\ projectCount' = projectCount
  BY DEF SubmitMilestone, ApproveMilestone, RegistryInv, ProjectsOK, ProjectsTypeOK
<1>7. ProjectsOK'
  <2>1. [milestone[p] EXCEPT ![i] = new] \in [MilestoneIndexes -> MilestoneType]
    BY <1>2, <1>3
  <2> HIDE DEF new
  <2> QED
    BY <1>2, <1>3, <1>5, <1>6, <2>1, OneProjectChanges DEF RegistryInv
<1> QED
  BY <1>7, Frames DEF SubmitMilestone, ApproveMilestone, RegistryInv

(* appendDisputeEvidence *)
LEMMA AppendDisputeEvidenceInv ==
  ASSUME RegistryInv, NEW c \in Accounts, NEW p \in Projects,
         NEW i \in MilestoneIndexes, AppendDisputeEvidence(c, p, i)
  PROVE  RegistryInv'
<1> DEFINE new == [dispute[p][i] EXCEPT !.evidence = TRUE]
           ds == [dispute[p] EXCEPT ![i] = new]
<1>1. /\ Exists(p) /\ dispute[p][i].active
  BY DEF AppendDisputeEvidence
<1>2. /\ p <= projectCount /\ project[p] \in ProjectType
      /\ milestone[p] \in [MilestoneIndexes -> MilestoneType]
      /\ dispute[p] \in [MilestoneIndexes -> DisputeType]
      /\ Sound(project[p], milestone[p], dispute[p])
      /\ project[p].plan \in Plans
  BY <1>1, ProjectFacts DEF RegistryInv
<1>3. new \in DisputeType /\ new.active
  BY <1>1, <1>2 DEF DisputeType
<1>4. /\ dispute' = [dispute EXCEPT ![p] = ds]
      /\ project' = [project EXCEPT ![p] = project[p]]
      /\ milestone' = [milestone EXCEPT ![p] = milestone[p]]
      /\ projectCount' = projectCount
  BY DEF AppendDisputeEvidence, RegistryInv, ProjectsOK, ProjectsTypeOK
<1> HIDE DEF new
<1>5. /\ ds \in [MilestoneIndexes -> DisputeType]
      /\ \A j \in MilestoneIndexes : ds[j].active <=> dispute[p][j].active
  BY <1>1, <1>2, <1>3
<1> HIDE DEF ds
<1>6. Sound(project[p], milestone[p], ds)
  <2>1. \A j \in 0..(project[p].plan.milestoneCount - 1) : j \in MilestoneIndexes
    BY <1>2, PlanFacts
  <2>2. InOrder(project[p], milestone[p], ds)
    BY <1>2, <1>5, <2>1 DEF Sound, InOrder
  <2>3. project[p].status \in {"Active", "Disputed"} =>
          OpenBooks(project[p], milestone[p][project[p].settledMilestoneCount],
                    ds[project[p].settledMilestoneCount])
    <3>1. SUFFICES ASSUME project[p].status \in {"Active", "Disputed"}
                   PROVE  OpenBooks(project[p],
                            milestone[p][project[p].settledMilestoneCount],
                            ds[project[p].settledMilestoneCount])
      OBVIOUS
    <3>2. /\ OpenBooks(project[p], milestone[p][project[p].settledMilestoneCount],
                       dispute[p][project[p].settledMilestoneCount])
          /\ project[p].settledMilestoneCount \in Nat
          /\ project[p].plan.milestoneCount \in Nat
      BY <1>2, <3>1, PlanFacts DEF Sound, ProjectType
    <3>3. ds[project[p].settledMilestoneCount].active
            <=> dispute[p][project[p].settledMilestoneCount].active
      BY <1>5, <2>1, <3>2 DEF OpenBooks
    <3> QED
      BY <3>2, <3>3 DEF OpenBooks
  <2> QED
    BY <1>2, <2>2, <2>3 DEF Sound
<1>7. ProjectsOK'
  BY <1>2, <1>4, <1>5, <1>6, OneProjectChanges DEF RegistryInv
<1> QED
  BY <1>7, Frames DEF AppendDisputeEvidence, RegistryInv

(* raiseDispute *)
LEMMA RaiseDisputeInv ==
  ASSUME RegistryInv, NEW c \in Accounts, NEW p \in Projects,
         NEW i \in MilestoneIndexes, RaiseDispute(c, p, i)
  PROVE  RegistryInv'
<1> DEFINE d == [dispute[p][i] EXCEPT !.active = TRUE, !.raisedAt = now]
           ds == [dispute[p] EXCEPT ![i] = d]
           amount == project[p].plan.runningTotal[i + 1] - project[p].plan.runningTotal[i]
           new == [project[p] EXCEPT !.activeDisputeCount = @ + 1,
                                     !.reservedAmount = @ + amount,
                                     !.status = "Disputed"]
<1>1. /\ Exists(p) /\ project[p].status \in {"Active", "Disputed"}
      /\ i \in Milestones(p) /\ ~dispute[p][i].active
      /\ milestone[p][i].status \in {"Pending", "Submitted", "Approved"}
      /\ \A j \in 0..(i - 1) : milestone[p][j].status \in {"Released", "Refunded"}
      /\ FreeLiquidity(p) >= Amount(p, i)
  BY DEF RaiseDispute, Operable, PreviousCompleted, Settled
<1>2. /\ p <= projectCount /\ project[p] \in ProjectType
      /\ milestone[p] \in [MilestoneIndexes -> MilestoneType]
      /\ dispute[p] \in [MilestoneIndexes -> DisputeType]
      /\ Sound(project[p], milestone[p], dispute[p])
      /\ i \in 0..(project[p].plan.milestoneCount - 1)
  BY <1>1, ProjectFacts DEF RegistryInv, Milestones
<1>3. i = project[p].settledMilestoneCount
  BY <1>1, <1>2, NextMilestone
<1>4. project[p].plan.runningTotal[i + 1] <= project[p].fundedAmount
  BY <1>1, <1>3, LiquidityCovers DEF RegistryInv
<1>5. d \in DisputeType /\ d.active
  BY <1>2 DEF DisputeType, RegistryInv, RecipientsTypeOK
<1>6. /\ dispute' = [dispute EXCEPT ![p] = ds]
      /\ project' = [project EXCEPT ![p] = new]
      /\ milestone' = [milestone EXCEPT ![p] = milestone[p]]
      /\ projectCount' = projectCount
  <2>1. project' = [project EXCEPT ![p] = new]
    BY DEF RaiseDispute, Amount
  <2>2. dispute' = [dispute EXCEPT ![p] = ds]
    BY DEF RaiseDispute, RegistryInv, ProjectsOK, ProjectsTypeOK
  <2> QED
    BY <2>1, <2>2 DEF RaiseDispute, RegistryInv, ProjectsOK, ProjectsTypeOK
<1> HIDE DEF d
<1>7. new \in ProjectType /\ Sound(new, milestone[p], ds)
  BY <1>1, <1>2, <1>4, <1>5, RaiseSound
<1>8. ds \in [MilestoneIndexes -> DisputeType]
  BY <1>2, <1>5
<1> HIDE DEF new, ds
<1>9. ProjectsOK'
  BY <1>2, <1>6, <1>7, <1>8, OneProjectChanges DEF RegistryInv
<1> QED
  BY <1>9, Frames DEF RaiseDispute, RegistryInv

(* _refreshProjectStatus changes nothing but the status. *)
LEMMA RefreshedRecord ==
  ASSUME NEW base \in ProjectType
  PROVE  /\ Refreshed(base) \in ProjectType
         /\ Refreshed(base).plan = base.plan /\ Refreshed(base).token = base.token
         /\ Refreshed(base).fundedAmount = base.fundedAmount
         /\ Refreshed(base).releasedAmount = base.releasedAmount
         /\ Refreshed(base).refundedAmount = base.refundedAmount
         /\ Refreshed(base).settledMilestoneCount = base.settledMilestoneCount
         /\ Refreshed(base).activeDisputeCount = base.activeDisputeCount
         /\ Refreshed(base).reservedAmount = base.reservedAmount
         /\ Refreshed(base).status =
              IF base.activeDisputeCount > 0 THEN "Disputed"
              ELSE IF base.settledMilestoneCount = base.plan.milestoneCount
                   THEN "Completed" ELSE "Active"
<1> DEFINE status == IF base.activeDisputeCount > 0 THEN "Disputed"
                     ELSE IF base.settledMilestoneCount = base.plan.milestoneCount
                          THEN "Completed" ELSE "Active"
<1>1. Refreshed(base) = [base EXCEPT !.status = status]
  BY DEF Refreshed
<1>2. status \in ProjectStatuses
  BY DEF ProjectStatuses
<1> HIDE DEF status
<1>3. [base EXCEPT !.status = status] \in ProjectType
  BY <1>2 DEF ProjectType
<1>4. Refreshed(base).status = status
  BY <1>1 DEF ProjectType
<1> QED
  BY <1>1, <1>3, <1>4 DEF ProjectType, status

(* releaseMilestone *)
LEMMA ReleaseMilestoneInv ==
  ASSUME RegistryInv, NEW c \in Accounts, NEW p \in Projects,
         NEW i \in MilestoneIndexes, ReleaseMilestone(c, p, i)
  PROVE  RegistryInv'
<1> DEFINE amount == Amount(p, i)
           m == [status |-> "Released", reviewEnteredAt |-> 0]
           base == [project[p] EXCEPT !.releasedAmount = @ + amount,
                                      !.settledMilestoneCount = @ + 1]
           new == Refreshed(base)
           ms == [milestone[p] EXCEPT ![i] = m]
           ds == [dispute[p] EXCEPT ![i] = dispute[p][i]]
<1>1. /\ Exists(p) /\ project[p].status \in {"Active", "Disputed"}
      /\ i \in Milestones(p) /\ ~dispute[p][i].active
      /\ milestone[p][i].status = "Approved"
  BY DEF ReleaseMilestone, Operable
<1>2. /\ p <= projectCount /\ project[p] \in ProjectType
      /\ milestone[p] \in [MilestoneIndexes -> MilestoneType]
      /\ dispute[p] \in [MilestoneIndexes -> DisputeType]
      /\ Sound(project[p], milestone[p], dispute[p])
      /\ i \in 0..(project[p].plan.milestoneCount - 1)
      /\ amount \in Nat /\ project[p].token \in Tokens
  BY <1>1, ProjectFacts DEF RegistryInv, Milestones
<1>3. amount = project[p].plan.runningTotal[i + 1] - project[p].plan.runningTotal[i]
  BY DEF Amount
<1>4. /\ project' = [project EXCEPT ![p] = new]
      /\ milestone' = [milestone EXCEPT ![p] = ms]
      /\ dispute' = [dispute EXCEPT ![p] = ds]
      /\ projectCount' = projectCount
  <2>1. project' = [project EXCEPT ![p] = new]
    BY DEF ReleaseMilestone
  <2>2. milestone' = [milestone EXCEPT ![p] = ms]
    BY DEF ReleaseMilestone, RegistryInv, ProjectsOK, ProjectsTypeOK
  <2>3. dispute' = [dispute EXCEPT ![p] = ds] /\ projectCount' = projectCount
    BY <1>2 DEF ReleaseMilestone, RegistryInv, ProjectsOK, ProjectsTypeOK
  <2> QED
    BY <2>1, <2>2, <2>3
<1>5. m \in MilestoneType /\ m.status = "Released"
  BY DEF MilestoneType, MilestoneStatuses
<1> HIDE DEF m, amount
<1>6. /\ base \in ProjectType /\ base.plan = project[p].plan
      /\ base.token = project[p].token
      /\ base.fundedAmount = project[p].fundedAmount
      /\ base.releasedAmount = project[p].releasedAmount + amount
      /\ base.refundedAmount = project[p].refundedAmount
      /\ base.settledMilestoneCount = project[p].settledMilestoneCount + 1
      /\ base.activeDisputeCount = project[p].activeDisputeCount
      /\ base.reservedAmount = project[p].reservedAmount
  <2>1. /\ project[p].releasedAmount + amount \in Nat
        /\ project[p].settledMilestoneCount + 1 \in Nat
    BY <1>2 DEF ProjectType
  <2>2. base \in ProjectType
    BY <1>2, <2>1 DEF ProjectType
  <2> QED
    BY <1>2, <2>2 DEF ProjectType
<1> HIDE DEF base
<1>7. /\ new \in ProjectType /\ new.plan = project[p].plan
      /\ new.token = project[p].token
      /\ new.fundedAmount = project[p].fundedAmount
      /\ new.releasedAmount = project[p].releasedAmount + amount
      /\ new.refundedAmount = project[p].refundedAmount
      /\ new.settledMilestoneCount = project[p].settledMilestoneCount + 1
      /\ new.activeDisputeCount = project[p].activeDisputeCount
      /\ new.reservedAmount = project[p].reservedAmount
      /\ new.status = IF new.activeDisputeCount > 0 THEN "Disputed"
                      ELSE IF new.settledMilestoneCount = new.plan.milestoneCount
                           THEN "Completed" ELSE "Active"
  BY <1>6, RefreshedRecord
<1> HIDE DEF new
<1>8. Sound(new, ms, ds)
  <2>1. new.releasedAmount + new.refundedAmount =
          project[p].releasedAmount + project[p].refundedAmount
            + (project[p].plan.runningTotal[i + 1] - project[p].plan.runningTotal[i])
    BY <1>2, <1>3, <1>7 DEF ProjectType
  <2>2. /\ new.activeDisputeCount =
             project[p].activeDisputeCount - (IF dispute[p][i].active THEN 1 ELSE 0)
        /\ new.reservedAmount = project[p].reservedAmount
             - (IF dispute[p][i].active
                THEN project[p].plan.runningTotal[i + 1] - project[p].plan.runningTotal[i]
                ELSE 0)
    BY <1>1, <1>2, <1>7 DEF ProjectType
  <2>3. dispute[p][i] \in DisputeType
    BY <1>2
  <2> QED
    BY <1>1, <1>2, <1>5, <1>7, <2>1, <2>2, <2>3, SettleSound
<1>9. ProjectsOK'
  <2>1. /\ ms \in [MilestoneIndexes -> MilestoneType]
        /\ ds \in [MilestoneIndexes -> DisputeType]
    BY <1>2, <1>5
  <2> HIDE DEF ms, ds
  <2> QED
    BY <1>2, <1>4, <1>7, <1>8, <2>1, OneProjectChanges DEF RegistryInv
<1>10. TokensTypeOK'
  BY <1>2, PayType DEF ReleaseMilestone, RegistryInv, amount
<1> QED
  BY <1>9, <1>10, Frames DEF ReleaseMilestone, RegistryInv

(* The part that resolveDispute, resolveStaleDisputeByTimeout and           *)
(* emergencyResolveDispute share, for any way to divide the amount.         *)
LEMMA SettleDisputeInv ==
  ASSUME RegistryInv, NEW p \in Projects, NEW i \in MilestoneIndexes,
         Operable(p), i \in Milestones(p), dispute[p][i].active,
         NEW f, NEW a \in Nat, NEW b \in Nat, a + b = Amount(p, i),
         SettleDispute(p, i, f, a, b),
         NEW m \in MilestoneType, m.status \in {"Released", "Refunded"},
         milestone' = [milestone EXCEPT ![p][i] = m], projectCount' = projectCount
  PROVE  /\ ProjectsOK' /\ TokensTypeOK'
         /\ emergencyNonce' \in [Projects -> [MilestoneIndexes -> Nat]]
         /\ UNCHANGED <<now, consentVars>> => RecipientsTypeOK'
<1> DEFINE amount == Amount(p, i)
           base == [project[p] EXCEPT !.activeDisputeCount = @ - 1,
                                      !.reservedAmount = @ - amount,
                                      !.releasedAmount = @ + a,
                                      !.refundedAmount = @ + b,
                                      !.settledMilestoneCount = @ + 1]
           new == Refreshed(base)
           ms == [milestone[p] EXCEPT ![i] = m]
           ds == [dispute[p] EXCEPT ![i] = NoDispute]
<1>1. /\ Exists(p) /\ project[p].status \in {"Active", "Disputed"}
  BY DEF Operable
<1>2. /\ p <= projectCount /\ project[p] \in ProjectType
      /\ milestone[p] \in [MilestoneIndexes -> MilestoneType]
      /\ dispute[p] \in [MilestoneIndexes -> DisputeType]
      /\ Sound(project[p], milestone[p], dispute[p])
      /\ i \in 0..(project[p].plan.milestoneCount - 1)
      /\ amount \in Nat /\ project[p].token \in Tokens
  BY <1>1, ProjectFacts DEF RegistryInv, Milestones
<1>3. /\ amount = project[p].plan.runningTotal[i + 1] - project[p].plan.runningTotal[i]
      /\ project[p].activeDisputeCount >= 1 /\ project[p].reservedAmount >= amount
  BY DEF Amount, SettleDispute
<1>4. /\ project' = [project EXCEPT ![p] = new]
      /\ milestone' = [milestone EXCEPT ![p] = ms]
      /\ dispute' = [dispute EXCEPT ![p] = ds]
  <2>1. project' = [project EXCEPT ![p] = new]
    BY DEF SettleDispute
  <2>2. milestone' = [milestone EXCEPT ![p] = ms]
    BY DEF RegistryInv, ProjectsOK, ProjectsTypeOK
  <2>3. dispute' = [dispute EXCEPT ![p] = ds]
    BY DEF SettleDispute, RegistryInv, ProjectsOK, ProjectsTypeOK
  <2> QED
    BY <2>1, <2>2, <2>3
<1>5. NoDispute \in DisputeType /\ ~NoDispute.active
  BY DEF NoDispute, DisputeType
<1> HIDE DEF amount
<1>6. /\ base \in ProjectType /\ base.plan = project[p].plan
      /\ base.token = project[p].token
      /\ base.fundedAmount = project[p].fundedAmount
      /\ base.releasedAmount = project[p].releasedAmount + a
      /\ base.refundedAmount = project[p].refundedAmount + b
      /\ base.settledMilestoneCount = project[p].settledMilestoneCount + 1
      /\ base.activeDisputeCount = project[p].activeDisputeCount - 1
      /\ base.reservedAmount = project[p].reservedAmount - amount
  <2>1. /\ project[p].activeDisputeCount - 1 \in Nat
        /\ project[p].reservedAmount - amount \in Nat
        /\ project[p].releasedAmount + a \in Nat
        /\ project[p].refundedAmount + b \in Nat
        /\ project[p].settledMilestoneCount + 1 \in Nat
    BY <1>2, <1>3 DEF ProjectType
  <2>2. base \in ProjectType
    BY <1>2, <2>1 DEF ProjectType
  <2> QED
    BY <1>2, <2>2 DEF ProjectType
<1> HIDE DEF base
<1>7. /\ new \in ProjectType /\ new.plan = project[p].plan
      /\ new.token = project[p].token
      /\ new.fundedAmount = project[p].fundedAmount
      /\ new.releasedAmount = project[p].releasedAmount + a
      /\ new.refundedAmount = project[p].refundedAmount + b
      /\ new.settledMilestoneCount = project[p].settledMilestoneCount + 1
      /\ new.activeDisputeCount = project[p].activeDisputeCount - 1
      /\ new.reservedAmount = project[p].reservedAmount - amount
      /\ new.status = IF new.activeDisputeCount > 0 THEN "Disputed"
                      ELSE IF new.settledMilestoneCount = new.plan.milestoneCount
                           THEN "Completed" ELSE "Active"
  BY <1>6, RefreshedRecord
<1> HIDE DEF new
<1>8. Sound(new, ms, ds)
  <2>1. a + b = amount
    BY DEF amount
  <2>2. new.releasedAmount + new.refundedAmount =
          project[p].releasedAmount + project[p].refundedAmount
            + (project[p].plan.runningTotal[i + 1] - project[p].plan.runningTotal[i])
    BY <1>2, <1>3, <1>7, <2>1 DEF ProjectType
  <2>3. /\ new.activeDisputeCount =
             project[p].activeDisputeCount - (IF dispute[p][i].active THEN 1 ELSE 0)
        /\ new.reservedAmount = project[p].reservedAmount
             - (IF dispute[p][i].active
                THEN project[p].plan.runningTotal[i + 1] - project[p].plan.runningTotal[i]
                ELSE 0)
    BY <1>2, <1>3, <1>7 DEF ProjectType
  <2> QED
    BY <1>1, <1>2, <1>5, <1>7, <2>2, <2>3, SettleSound
<1>9. ProjectsOK'
  <2>1. /\ ms \in [MilestoneIndexes -> MilestoneType]
        /\ ds \in [MilestoneIndexes -> DisputeType]
    BY <1>2, <1>5
  <2> HIDE DEF ms, ds
  <2> QED
    BY <1>2, <1>4, <1>7, <1>8, <2>1, OneProjectChanges DEF RegistryInv
<1>10. TokensTypeOK'
  <2>1. /\ Pay(project[p].token, f, a, LegRecipient(p, i, "client", project[p].client), b)
        /\ ReduceOutstanding(project[p].token, a + b) /\ a + b \in Nat
    BY DEF SettleDispute
  <2> QED
    BY <1>2, <2>1, PayType DEF RegistryInv
<1>11. emergencyNonce' \in [Projects -> [MilestoneIndexes -> Nat]]
  BY DEF SettleDispute, RegistryInv, NoncesTypeOK
<1>12. UNCHANGED <<now, consentVars>> => RecipientsTypeOK'
  <2>1. /\ NoPending \in PendingType /\ NoAddress \in Addresses
    BY DEF NoPending, PendingType, Addresses
  <2>2. /\ [l \in Legs |-> NoAddress] \in [Legs -> Addresses]
        /\ [l \in Legs |-> NoPending] \in [Legs -> PendingType]
    BY <2>1
  <2>3. alternative' \in [Projects -> [MilestoneIndexes -> [Legs -> Addresses]]]
    BY <2>2 DEF SettleDispute, ClearAlternatives, RegistryInv, RecipientsTypeOK
  <2>4. pendingAlternative' \in [Projects -> [MilestoneIndexes -> [Legs -> PendingType]]]
    BY <2>2 DEF SettleDispute, ClearAlternatives, RegistryInv, RecipientsTypeOK
  <2> QED
    BY <2>3, <2>4 DEF RegistryInv, RecipientsTypeOK, consentVars
<1> QED
  BY <1>9, <1>10, <1>11, <1>12

(* What a resolution settles adds up to the price of the milestone. *)
LEMMA ResolutionFacts ==
  ASSUME RegistryInv, NEW p \in Projects, Operable(p), NEW i \in Milestones(p),
         NEW r \in Resolutions, ValidAmounts(r, Amount(p, i))
  PROVE  /\ r.freelancerAmount \in Nat /\ r.clientAmount \in Nat
         /\ r.freelancerAmount + r.clientAmount = Amount(p, i)
         /\ [status |-> SettledStatus(r.kind), reviewEnteredAt |-> 0] \in MilestoneType
         /\ SettledStatus(r.kind) \in {"Released", "Refunded"}
<1>1. r.freelancerAmount \in Nat /\ r.clientAmount \in Nat
  BY ChoicesAssumption DEF ResolutionType
<1>2. Amount(p, i) \in Nat
  BY ProjectFacts DEF RegistryInv, Operable
<1>3. r.freelancerAmount + r.clientAmount = Amount(p, i)
  BY <1>1, <1>2 DEF ValidAmounts
<1> QED
  BY <1>1, <1>3 DEF SettledStatus, MilestoneType, MilestoneStatuses

(* What arbitrators vote on when they resolve a dispute. *)
LEMMA ResolveSubjectType ==
  ASSUME RegistryInv, NEW p \in Projects, NEW i \in MilestoneIndexes,
         NEW r \in Resolutions
  PROVE  ResolveSubject(p, i, r) \in Subjects
BY DEF ResolveSubject, Subjects, ResolveSubjects, RegistryInv, ProjectsOK,
       ProjectsTypeOK, DisputeType, NoncesTypeOK

(* resolveDispute *)
LEMMA ResolveDisputeInv ==
  ASSUME RegistryInv, NEW c \in Accounts, NEW p \in Projects,
         NEW i \in MilestoneIndexes, NEW r \in Resolutions,
         VoteOnDispute(c, p, i, r) \/ ResolveDispute(c, p, i, r)
  PROVE  RegistryInv'
<1>1. MultisigInv(Subjects)'
  BY ResolveSubjectType, ArbitratorVoteInv DEF VoteOnDispute, ResolveDispute, RegistryInv
<1>2. CASE VoteOnDispute(c, p, i, r)
  BY <1>1, <1>2, Frames DEF VoteOnDispute, RegistryInv, projectVars
<1>3. CASE ResolveDispute(c, p, i, r)
  <2> DEFINE f == LegRecipient(p, i, "freelancer", project[p].freelancer)
             m == [status |-> SettledStatus(r.kind), reviewEnteredAt |-> 0]
  <2>1. /\ Operable(p) /\ i \in Milestones(p) /\ dispute[p][i].active
        /\ ValidAmounts(r, Amount(p, i))
        /\ SettleDispute(p, i, f, r.freelancerAmount, r.clientAmount)
        /\ milestone' = [milestone EXCEPT ![p][i] = m]
        /\ SpendActionNonce(p, i)
        /\ UNCHANGED <<now, consentVars, adminVars, projectCount, emergencyReadyAt>>
    BY <1>3 DEF ResolveDispute
  <2>2. /\ r.freelancerAmount \in Nat /\ r.clientAmount \in Nat
        /\ r.freelancerAmount + r.clientAmount = Amount(p, i)
        /\ m \in MilestoneType /\ m.status \in {"Released", "Refunded"}
    BY <2>1, ResolutionFacts
  <2> HIDE DEF f, m
  <2>3. /\ ProjectsOK' /\ TokensTypeOK' /\ RecipientsTypeOK'
        /\ emergencyNonce' \in [Projects -> [MilestoneIndexes -> Nat]]
    BY <2>1, <2>2, SettleDisputeInv
  <2>4. NoncesTypeOK'
    <3>1. actionNonce' \in [Projects -> [MilestoneIndexes -> Nat]]
      BY <2>1 DEF SpendActionNonce, RegistryInv, NoncesTypeOK
    <3>2. emergencyReadyAt' \subseteq EmergencyActionType \X Nat
      BY <2>1 DEF RegistryInv, NoncesTypeOK
    <3> QED
      BY <2>3, <3>1, <3>2 DEF NoncesTypeOK
  <2> QED
    BY <1>1, <2>1, <2>3, <2>4, Frames DEF RegistryInv
<1> QED
  BY <1>2, <1>3

(* resolveStaleDisputeByTimeout *)
LEMMA ResolveStaleDisputeInv ==
  ASSUME RegistryInv, NEW c \in Accounts, NEW p \in Projects,
         NEW i \in MilestoneIndexes, ResolveStaleDisputeByTimeout(c, p, i)
  PROVE  RegistryInv'
<1> DEFINE m == [milestone[p][i] EXCEPT !.status = "Refunded"]
<1>1. /\ Operable(p) /\ i \in Milestones(p) /\ dispute[p][i].active
      /\ SettleDispute(p, i, NoAddress, 0, Amount(p, i))
      /\ UNCHANGED <<now, consentVars, multisigVars, adminVars, projectCount,
                     actionNonce, emergencyReadyAt>>
  BY DEF ResolveStaleDisputeByTimeout, DisputeTimedOut
<1>2. milestone' = [milestone EXCEPT ![p][i] = m]
  BY DEF ResolveStaleDisputeByTimeout, RegistryInv, ProjectsOK, ProjectsTypeOK
<1>3. m \in MilestoneType /\ m.status = "Refunded"
  BY DEF RegistryInv, ProjectsOK, ProjectsTypeOK, MilestoneType, MilestoneStatuses
<1> HIDE DEF m
<1>4. Amount(p, i) \in Nat
  BY <1>1, ProjectFacts DEF RegistryInv, Operable
<1>5. /\ ProjectsOK' /\ TokensTypeOK' /\ RecipientsTypeOK'
      /\ emergencyNonce' \in [Projects -> [MilestoneIndexes -> Nat]]
  <2>1. 0 + Amount(p, i) = Amount(p, i)
    BY <1>4
  <2>2. m.status \in {"Released", "Refunded"} /\ projectCount' = projectCount
    BY <1>1, <1>3
  <2> QED
    BY <1>1, <1>2, <1>3, <1>4, <2>1, <2>2, SettleDisputeInv
<1>6. NoncesTypeOK'
  BY <1>1, <1>5 DEF RegistryInv, NoncesTypeOK
<1> QED
  BY <1>1, <1>5, <1>6, Frames DEF RegistryInv

(* The admin's proposals: made, withdrawn, and executed after their delay. *)
LEMMA EmergencyInv ==
  ASSUME RegistryInv, NEW c \in Accounts, NEW p \in Projects,
         NEW i \in MilestoneIndexes, NEW r \in Resolutions,
         \/ ProposeEmergencyResolveDispute(c, p, i, r)
         \/ CancelEmergencyResolveDispute(c, p, i, r)
         \/ EmergencyResolveDispute(c, p, i, r)
  PROVE  RegistryInv'
<1>1. CASE ProposeEmergencyResolveDispute(c, p, i, r)
  <2>1. EmergencyAction(p, i, r) \in EmergencyActionType
    BY DEF EmergencyAction, EmergencyActionType, RegistryInv, NoncesTypeOK
  <2>2. now + EMERGENCY_RESOLUTION_DELAY \in Nat
    BY TimeAssumption DEF RegistryInv, RecipientsTypeOK
  <2>3. NoncesTypeOK'
    BY <1>1, <2>1, <2>2 DEF ProposeEmergencyResolveDispute, RegistryInv, NoncesTypeOK
  <2> QED
    BY <1>1, <2>3, Frames DEF ProposeEmergencyResolveDispute, RegistryInv, projectVars
<1>2. CASE CancelEmergencyResolveDispute(c, p, i, r)
  <2>1. NoncesTypeOK'
    BY <1>2 DEF CancelEmergencyResolveDispute, RegistryInv, NoncesTypeOK
  <2> QED
    BY <1>2, <2>1, Frames DEF CancelEmergencyResolveDispute, RegistryInv, projectVars
<1>3. CASE EmergencyResolveDispute(c, p, i, r)
  <2> DEFINE f == LegRecipient(p, i, "freelancer", project[p].freelancer)
             m == [status |-> SettledStatus(r.kind), reviewEnteredAt |-> 0]
  <2>1. /\ Operable(p) /\ i \in Milestones(p) /\ dispute[p][i].active
        /\ ValidAmounts(r, Amount(p, i))
        /\ SettleDispute(p, i, f, r.freelancerAmount, r.clientAmount)
        /\ milestone' = [milestone EXCEPT ![p][i] = m]
        /\ SpendActionNonce(p, i) /\ emergencyReadyAt' \subseteq emergencyReadyAt
        /\ UNCHANGED <<now, consentVars, multisigVars, adminVars, projectCount>>
    BY <1>3 DEF EmergencyResolveDispute, ValidEmergency
  <2>2. /\ r.freelancerAmount \in Nat /\ r.clientAmount \in Nat
        /\ r.freelancerAmount + r.clientAmount = Amount(p, i)
        /\ m \in MilestoneType /\ m.status \in {"Released", "Refunded"}
    BY <2>1, ResolutionFacts
  <2> HIDE DEF f, m
  <2>3. /\ ProjectsOK' /\ TokensTypeOK' /\ RecipientsTypeOK'
        /\ emergencyNonce' \in [Projects -> [MilestoneIndexes -> Nat]]
    BY <2>1, <2>2, SettleDisputeInv
  <2>4. NoncesTypeOK'
    <3>1. actionNonce' \in [Projects -> [MilestoneIndexes -> Nat]]
      BY <2>1 DEF SpendActionNonce, RegistryInv, NoncesTypeOK
    <3>2. emergencyReadyAt' \subseteq EmergencyActionType \X Nat
      BY <2>1 DEF RegistryInv, NoncesTypeOK
    <3> QED
      BY <2>3, <3>1, <3>2 DEF NoncesTypeOK
  <2> QED
    BY <2>1, <2>3, <2>4, Frames DEF RegistryInv
<1> QED
  BY <1>1, <1>2, <1>3

-----------------------------------------------------------------------------
(* Cancellation settles everything that is left.                           *)

(* The milestones left to settle are counted by settledMilestoneCount. *)
LEMMA LeftToSettle ==
  ASSUME ProjectsOK, NEW p, Exists(p), project[p].status \in {"Active", "Disputed"}
  PROVE  LET k == project[p].settledMilestoneCount
             n == project[p].plan.milestoneCount
             left == {i \in Milestones(p) : ~Settled(p, i)}
         IN left = k..(n - 1) /\ Cardinality(left) = n - k
<1> DEFINE k == project[p].settledMilestoneCount
           n == project[p].plan.milestoneCount
           left == {i \in Milestones(p) : ~Settled(p, i)}
<1>1. k \in Nat /\ n \in Nat /\ k < n
  BY ProjectFacts, PlanFacts DEF ProjectType, Sound, OpenBooks
<1>2. \A i \in 0..(n - 1) : Settled(p, i) <=> i < k
  BY ProjectFacts DEF Sound, InOrder, Settled
<1>3. left = k..(n - 1)
  BY <1>1, <1>2 DEF Milestones
<1>4. Cardinality(k..(n - 1)) = n - k
  <2> HIDE DEF k, n
  <2>1. k \in Int /\ n - 1 \in Int
    BY <1>1
  <2>2. Cardinality(k..(n - 1)) = IF k > n - 1 THEN 0 ELSE (n - 1) - k + 1
    BY <2>1, FS_Interval
  <2> QED
    BY <1>1, <2>2
<1> QED
  BY <1>3, <1>4

(* What cancelProject's loop adds up: it closes exactly what is left, and   *)
(* releases exactly what is reserved.                                       *)
LEMMA CancelFacts ==
  ASSUME ProjectsOK, NEW p, Exists(p), project[p].status \in {"Active", "Disputed"},
         \A i \in Milestones(p) : CancelMayClose(p, i),
         DueReviews(p) # {} => CanSettle(p, SumOfAmounts(p, DueReviews(p)))
  PROVE  LET closed == StaleDisputes(p) \cup DueReviews(p) \cup Untouched(p)
             payout == SumOfAmounts(p, DueReviews(p))
         IN
         /\ payout \in Nat /\ payout <= AvailableLiquidity(p)
         /\ Cardinality(StaleDisputes(p)) = project[p].activeDisputeCount
         /\ SumOfAmounts(p, StaleDisputes(p)) = project[p].reservedAmount
         /\ closed = {i \in Milestones(p) : ~Settled(p, i)}
<1> DEFINE k == project[p].settledMilestoneCount
           n == project[p].plan.milestoneCount
           stale == StaleDisputes(p)  due == DueReviews(p)
           closed == stale \cup due \cup Untouched(p)
           payout == SumOfAmounts(p, due)
<1>1. /\ k \in Nat /\ n \in Nat /\ k < n /\ k \in Milestones(p)
      /\ project[p] \in ProjectType
      /\ InOrder(project[p], milestone[p], dispute[p])
      /\ OpenBooks(project[p], milestone[p][k], dispute[p][k])
      /\ project[p].releasedAmount + project[p].refundedAmount <= project[p].fundedAmount
  BY ProjectFacts, PlanFacts DEF ProjectType, Sound, OpenBooks, Milestones
<1>2. /\ Amount(p, k) \in Nat
      /\ Amount(p, k) = project[p].plan.runningTotal[k + 1] - project[p].plan.runningTotal[k]
      /\ project[p].fundedAmount \in Nat /\ project[p].releasedAmount \in Nat
      /\ project[p].refundedAmount \in Nat
  BY <1>1, ProjectFacts DEF Amount, ProjectType
<1>3. /\ \A i \in Milestones(p) : dispute[p][i].active => i = k
      /\ \A i \in Milestones(p) : milestone[p][i].status = "Submitted" => i = k
  BY <1>1 DEF InOrder, Milestones
<1>4. closed = {i \in Milestones(p) : ~Settled(p, i)}
  <2> SUFFICES ASSUME NEW i \in Milestones(p)
               PROVE  i \in closed <=> ~Settled(p, i)
    BY DEF StaleDisputes, DueReviews, Untouched
  <2>1. milestone[p][i].status \in MilestoneStatuses
    BY ProjectFacts DEF MilestoneType
  <2>2. CASE dispute[p][i].active
    <3>1. milestone[p][i].status = "Pending"
      BY <2>2 DEF CancelMayClose
    <3> QED
      BY <2>2, <3>1 DEF StaleDisputes, Settled
  <2>3. CASE ~dispute[p][i].active
    <3>1. milestone[p][i].status # "Approved"
      BY <2>3 DEF CancelMayClose
    <3> QED
      BY <2>1, <2>3, <3>1
      DEF StaleDisputes, DueReviews, Untouched, Settled, MilestoneStatuses
  <2> QED
    BY <2>2, <2>3
<1>5. /\ Cardinality(stale) = project[p].activeDisputeCount
      /\ SumOfAmounts(p, stale) = project[p].reservedAmount
  <2>1. CASE dispute[p][k].active
    <3>1. stale = {k}
      BY <1>1, <1>3, <2>1 DEF StaleDisputes
    <3>2. Cardinality(stale) = 1 /\ SumOfAmounts(p, stale) = Amount(p, k)
      <4>1. Cardinality({k}) = 1
        BY FS_Singleton
      <4>2. Amount(p, k) \in Int
        BY <1>2
      <4>3. SumOfAmounts(p, {k}) = Amount(p, k)
        BY <4>2, SumOfOne
      <4> HIDE DEF stale, k
      <4> QED
        BY <3>1, <4>1, <4>3
    <3> QED
      BY <1>1, <1>2, <2>1, <3>2 DEF OpenBooks
  <2>2. CASE ~dispute[p][k].active
    <3>1. stale = {}
      BY <1>3, <2>2 DEF StaleDisputes
    <3>2. Cardinality(stale) = 0 /\ SumOfAmounts(p, stale) = 0
      BY <3>1, FS_EmptySet, SumOfNone
    <3> QED
      BY <1>1, <2>2, <3>2 DEF OpenBooks
  <2> QED
    BY <2>1, <2>2
<1>6. payout \in Nat /\ payout <= AvailableLiquidity(p)
  <2>1. CASE due = {}
    <3>1. payout = 0
      BY <2>1, SumOfNone
    <3> QED
      BY <1>1, <1>2, <3>1 DEF AvailableLiquidity
  <2>2. CASE due # {}
    <3>1. due = {k}
      BY <1>3, <2>2 DEF DueReviews
    <3>2. payout = Amount(p, k)
      BY <1>2, <3>1, SumOfOne
    <3>3. CanSettle(p, payout)
      BY <2>2
    <3> QED
      BY <1>2, <3>2, <3>3 DEF CanSettle, AvailableLiquidity
  <2> QED
    BY <2>1, <2>2
<1> QED
  BY <1>4, <1>5, <1>6

(* cancelProject *)
LEMMA CancelProjectInv ==
  ASSUME RegistryInv, NEW c \in Accounts, NEW p \in Projects, CancelProject(c, p)
  PROVE  RegistryInv'
<1> DEFINE stale   == StaleDisputes(p)
           due     == DueReviews(p)
           closed  == stale \cup due \cup Untouched(p)
           payout  == SumOfAmounts(p, due)
           reserve == SumOfAmounts(p, stale)
           refundable == AvailableLiquidity(p) - payout
           t == project[p].token
           reserved == project[p].reservedAmount - reserve
           refunded == IF refundable <= reserved THEN 0 ELSE refundable - reserved
           new == [project[p] EXCEPT !.activeDisputeCount = @ - Cardinality(stale),
                     !.reservedAmount = reserved,
                     !.releasedAmount = @ + payout,
                     !.refundedAmount = @ + refunded,
                     !.settledMilestoneCount = @ + Cardinality(closed),
                     !.status = "Cancelled"]
           ms == [i \in MilestoneIndexes |->
                    IF i \in due THEN [status |-> "Released", reviewEnteredAt |-> 0]
                    ELSE IF i \in stale THEN [status |-> "Refunded", reviewEnteredAt |-> 0]
                    ELSE IF i \in closed THEN [milestone[p][i] EXCEPT !.status = "Refunded"]
                    ELSE milestone[p][i]]
           ds == [i \in MilestoneIndexes |-> IF i \in stale THEN NoDispute ELSE dispute[p][i]]
<1>1. /\ Exists(p) /\ project[p].status \in {"Active", "Disputed"}
      /\ \A i \in Milestones(p) : CancelMayClose(p, i)
      /\ due # {} => CanSettle(p, payout)
      /\ project' = [project EXCEPT ![p] = new]
      /\ milestone' = [milestone EXCEPT ![p] = ms]
      /\ dispute' = [dispute EXCEPT ![p] = ds]
      /\ emergencyNonce' = [emergencyNonce EXCEPT ![p] =
           [i \in MilestoneIndexes |->
              IF i \in stale THEN emergencyNonce[p][i] + 1 ELSE emergencyNonce[p][i]]]
      /\ ReduceOutstanding(t, payout + refunded)
      /\ \E f : Pay(t, f, payout, ProjectRecipient(p, project[p].client), refunded)
      /\ ClearAlternativesOf(p, stale)
      /\ UNCHANGED <<now, consentVars, multisigVars, adminVars, projectCount,
                     actionNonce, emergencyReadyAt>>
  <2>1. /\ milestone' = [milestone EXCEPT ![p] = ms]
        /\ dispute' = [dispute EXCEPT ![p] = ds]
    BY DEF CancelProject, RegistryInv, ProjectsOK, ProjectsTypeOK
  <2>2. emergencyNonce' = [emergencyNonce EXCEPT ![p] =
           [i \in MilestoneIndexes |->
              IF i \in stale THEN emergencyNonce[p][i] + 1 ELSE emergencyNonce[p][i]]]
    BY DEF CancelProject, RegistryInv, NoncesTypeOK
  <2> QED
    BY <2>1, <2>2, Zenon DEF CancelProject, Operable
<1>2. /\ p <= projectCount /\ project[p] \in ProjectType
      /\ milestone[p] \in [MilestoneIndexes -> MilestoneType]
      /\ dispute[p] \in [MilestoneIndexes -> DisputeType]
      /\ Sound(project[p], milestone[p], dispute[p])
      /\ t \in Tokens
  BY <1>1, ProjectFacts DEF RegistryInv
<1>3. /\ payout \in Nat /\ payout <= AvailableLiquidity(p)
      /\ Cardinality(stale) = project[p].activeDisputeCount
      /\ reserve = project[p].reservedAmount
      /\ closed = {i \in Milestones(p) : ~Settled(p, i)}
  BY <1>1, CancelFacts DEF RegistryInv
<1>4. Cardinality(closed) = project[p].plan.milestoneCount - project[p].settledMilestoneCount
  BY <1>1, <1>3, LeftToSettle DEF RegistryInv
<1> HIDE DEF stale, due, closed, payout, reserve
<1>5. /\ reserved = 0 /\ refunded \in Nat
      /\ payout + refunded = AvailableLiquidity(p)
  BY <1>2, <1>3 DEF AvailableLiquidity, ProjectType
<1> HIDE DEF refunded, reserved, refundable
<1>6. /\ new \in ProjectType /\ new.plan = project[p].plan
      /\ new.token = project[p].token
      /\ new.fundedAmount = project[p].fundedAmount
      /\ new.releasedAmount + new.refundedAmount = new.fundedAmount
      /\ new.settledMilestoneCount = new.plan.milestoneCount
      /\ new.activeDisputeCount = 0 /\ new.reservedAmount = 0
      /\ new.status = "Cancelled"
  <2>1. /\ project[p].activeDisputeCount - Cardinality(stale) = 0
        /\ project[p].settledMilestoneCount + Cardinality(closed) = project[p].plan.milestoneCount
        /\ project[p].plan.milestoneCount \in Nat
        /\ project[p].releasedAmount + payout \in Nat
        /\ project[p].refundedAmount + refunded \in Nat
        /\ project[p].releasedAmount + payout + project[p].refundedAmount + refunded
              = project[p].fundedAmount
    BY <1>2, <1>3, <1>4, <1>5, PlanFacts DEF AvailableLiquidity, ProjectType, Sound
  <2>2. new \in ProjectType
    <3>1. /\ project[p].activeDisputeCount - Cardinality(stale) \in Nat
          /\ project[p].settledMilestoneCount + Cardinality(closed) \in Nat
          /\ reserved \in Nat
      BY <1>5, <2>1
    <3> QED
      BY <1>2, <2>1, <3>1 DEF ProjectType, ProjectStatuses
  <2>3. /\ new.plan = project[p].plan /\ new.token = project[p].token
        /\ new.fundedAmount = project[p].fundedAmount
        /\ new.releasedAmount = project[p].releasedAmount + payout
        /\ new.refundedAmount = project[p].refundedAmount + refunded
        /\ new.settledMilestoneCount = project[p].plan.milestoneCount
        /\ new.activeDisputeCount = 0 /\ new.reservedAmount = 0
        /\ new.status = "Cancelled"
    BY <1>2, <1>5, <2>1 DEF ProjectType
  <2>4. /\ project[p].releasedAmount \in Nat /\ project[p].refundedAmount \in Nat
        /\ payout \in Nat /\ refunded \in Nat
    BY <1>2, <1>3, <1>5 DEF ProjectType
  <2> HIDE DEF new
  <2> QED
    BY <2>1, <2>2, <2>3, <2>4
<1> HIDE DEF new
<1>7. /\ ms \in [MilestoneIndexes -> MilestoneType]
      /\ ds \in [MilestoneIndexes -> DisputeType]
      /\ \A i \in 0..(project[p].plan.milestoneCount - 1) :
           ms[i].status \in {"Released", "Refunded"} /\ ~ds[i].active
  <2>1. /\ [status |-> "Released", reviewEnteredAt |-> 0] \in MilestoneType
        /\ [status |-> "Refunded", reviewEnteredAt |-> 0] \in MilestoneType
        /\ \A i \in MilestoneIndexes :
             /\ [milestone[p][i] EXCEPT !.status = "Refunded"] \in MilestoneType
             /\ [milestone[p][i] EXCEPT !.status = "Refunded"].status = "Refunded"
        /\ NoDispute \in DisputeType /\ ~NoDispute.active
    BY <1>2 DEF MilestoneType, MilestoneStatuses, NoDispute, DisputeType
  <2>2. /\ ms \in [MilestoneIndexes -> MilestoneType]
        /\ ds \in [MilestoneIndexes -> DisputeType]
    BY <1>2, <2>1
  <2>3. ASSUME NEW i \in Milestones(p)
        PROVE  ms[i].status \in {"Released", "Refunded"} /\ ~ds[i].active
    <3>1. i \in MilestoneIndexes
      BY <1>1, ProjectFacts DEF RegistryInv
    <3>2. Settled(p, i) => i \notin due /\ i \notin stale
      BY <1>3 DEF closed
    <3>3. ms[i].status \in {"Released", "Refunded"}
      BY <1>3, <2>1, <3>1, <3>2 DEF Settled
    <3>4. dispute[p][i].active => i \in stale
      BY DEF stale, StaleDisputes
    <3> QED
      BY <2>1, <3>1, <3>3, <3>4
  <2> QED
    BY <2>2, <2>3 DEF Milestones
<1> HIDE DEF ms, ds
<1>8. ProjectsOK'
  <2>1. Sound(new, ms, ds)
    BY <1>2, <1>6, <1>7, CloseSound
  <2> QED
    BY <1>1, <1>2, <1>6, <1>7, <2>1, OneProjectChanges DEF RegistryInv
<1>9. TokensTypeOK'
  <2>1. payout + refunded \in Nat
    BY <1>3, <1>5
  <2> QED
    BY <1>1, <1>2, <1>3, <1>5, <2>1, PayType DEF RegistryInv
<1>10. RecipientsTypeOK'
  <2>1. /\ NoPending \in PendingType /\ NoAddress \in Addresses
    BY DEF NoPending, PendingType, Addresses
  <2>2. /\ [l \in Legs |-> NoAddress] \in [Legs -> Addresses]
        /\ [l \in Legs |-> NoPending] \in [Legs -> PendingType]
    BY <2>1
  <2>3. /\ alternative' \in [Projects -> [MilestoneIndexes -> [Legs -> Addresses]]]
        /\ pendingAlternative' \in [Projects -> [MilestoneIndexes -> [Legs -> PendingType]]]
    BY <1>1, <2>2 DEF ClearAlternativesOf, RegistryInv, RecipientsTypeOK
  <2> QED
    BY <1>1, <2>3 DEF RegistryInv, RecipientsTypeOK, consentVars
<1>11. NoncesTypeOK'
  BY <1>1 DEF RegistryInv, NoncesTypeOK
<1> QED
  BY <1>1, <1>8, <1>9, <1>10, <1>11, Frames DEF RegistryInv

(* emergencyAdminCancel *)
LEMMA EmergencyAdminCancelInv ==
  ASSUME RegistryInv, NEW c \in Accounts, NEW p \in Projects,
         EmergencyAdminCancel(c, p)
  PROVE  RegistryInv'
<1> DEFINE pending == {i \in Milestones(p) : milestone[p][i].status = "Pending"}
           refundable == FreeLiquidity(p)
           t == project[p].token
           new == [project[p] EXCEPT !.refundedAmount = @ + refundable,
                     !.settledMilestoneCount = @ + Cardinality(pending),
                     !.status = "Cancelled"]
           ms == [i \in MilestoneIndexes |->
                    IF i \in pending THEN [status |-> "Refunded", reviewEnteredAt |-> 0]
                    ELSE milestone[p][i]]
<1>1. /\ Exists(p) /\ project[p].status \in {"Active", "Disputed"}
      /\ project[p].activeDisputeCount = 0
      /\ \A i \in Milestones(p) : milestone[p][i].status \notin {"Approved", "Submitted"}
      /\ project' = [project EXCEPT ![p] = new]
      /\ milestone' = [milestone EXCEPT ![p] = ms]
      /\ dispute' = [dispute EXCEPT ![p] = dispute[p]]
      /\ ReduceOutstanding(t, refundable)
      /\ Pay(t, NoAddress, 0, ProjectRecipient(p, project[p].client), refundable)
      /\ UNCHANGED <<now, recipientVars, multisigVars, adminVars, projectCount, nonceVars>>
  <2>1. /\ milestone' = [milestone EXCEPT ![p] = ms]
        /\ dispute' = [dispute EXCEPT ![p] = dispute[p]]
    BY DEF EmergencyAdminCancel, RegistryInv, ProjectsOK, ProjectsTypeOK
  <2> QED
    BY <2>1, Zenon DEF EmergencyAdminCancel, Operable
<1>2. /\ p <= projectCount /\ project[p] \in ProjectType
      /\ milestone[p] \in [MilestoneIndexes -> MilestoneType]
      /\ dispute[p] \in [MilestoneIndexes -> DisputeType]
      /\ Sound(project[p], milestone[p], dispute[p])
      /\ t \in Tokens
  BY <1>1, ProjectFacts DEF RegistryInv
<1>3. pending = {i \in Milestones(p) : ~Settled(p, i)}
  <2>1. \A i \in Milestones(p) : milestone[p][i].status \in MilestoneStatuses
    BY <1>1, ProjectFacts DEF MilestoneType, RegistryInv
  <2> QED
    BY <1>1, <2>1 DEF Settled, MilestoneStatuses
<1>4. Cardinality(pending) = project[p].plan.milestoneCount - project[p].settledMilestoneCount
  BY <1>1, <1>3, LeftToSettle DEF RegistryInv
<1>5. /\ ~dispute[p][project[p].settledMilestoneCount].active
      /\ project[p].reservedAmount = 0
      /\ project[p].settledMilestoneCount < project[p].plan.milestoneCount
      /\ project[p].releasedAmount + project[p].refundedAmount <= project[p].fundedAmount
  BY <1>1, <1>2 DEF Sound, OpenBooks
<1>6. refundable \in Nat /\ refundable = AvailableLiquidity(p)
  BY <1>2, <1>5 DEF FreeLiquidity, AvailableLiquidity, ProjectType
<1> HIDE DEF pending, refundable
<1>7. /\ new \in ProjectType /\ new.plan = project[p].plan
      /\ new.token = project[p].token
      /\ new.fundedAmount = project[p].fundedAmount
      /\ new.releasedAmount + new.refundedAmount = new.fundedAmount
      /\ new.settledMilestoneCount = new.plan.milestoneCount
      /\ new.activeDisputeCount = 0 /\ new.reservedAmount = 0
      /\ new.status = "Cancelled"
  <2>1. /\ project[p].settledMilestoneCount + Cardinality(pending) = project[p].plan.milestoneCount
        /\ project[p].plan.milestoneCount \in Nat
        /\ project[p].refundedAmount + refundable \in Nat
        /\ project[p].releasedAmount + (project[p].refundedAmount + refundable)
              = project[p].fundedAmount
    BY <1>2, <1>4, <1>6, PlanFacts DEF AvailableLiquidity, ProjectType, Sound
  <2>2. new \in ProjectType
    BY <1>2, <2>1 DEF ProjectType, ProjectStatuses
  <2> QED
    BY <1>1, <1>2, <1>5, <2>1, <2>2 DEF ProjectType
<1> HIDE DEF new
<1>8. /\ ms \in [MilestoneIndexes -> MilestoneType]
      /\ \A i \in 0..(project[p].plan.milestoneCount - 1) :
           ms[i].status \in {"Released", "Refunded"} /\ ~dispute[p][i].active
  <2>1. [status |-> "Refunded", reviewEnteredAt |-> 0] \in MilestoneType
    BY DEF MilestoneType, MilestoneStatuses
  <2>2. ms \in [MilestoneIndexes -> MilestoneType]
    BY <1>2, <2>1
  <2>3. ASSUME NEW i \in Milestones(p)
        PROVE  ms[i].status \in {"Released", "Refunded"} /\ ~dispute[p][i].active
    <3>1. i \in MilestoneIndexes
      BY <1>1, ProjectFacts DEF RegistryInv
    <3>2. ~dispute[p][i].active
      BY <1>2, <1>5 DEF Sound, InOrder, Milestones
    <3> QED
      BY <1>3, <3>1, <3>2 DEF Settled
  <2> QED
    BY <2>2, <2>3 DEF Milestones
<1> HIDE DEF ms
<1>9. ProjectsOK'
  <2>1. Sound(new, ms, dispute[p])
    BY <1>2, <1>7, <1>8, CloseSound
  <2> QED
    BY <1>1, <1>2, <1>7, <1>8, <2>1, OneProjectChanges DEF RegistryInv
<1>10. TokensTypeOK'
  BY <1>1, <1>2, <1>6, PayType DEF RegistryInv
<1> QED
  BY <1>1, <1>9, <1>10, Frames DEF RegistryInv

-----------------------------------------------------------------------------
(* The invariant.                                                          *)

(* The constructor establishes it. *)
LEMMA RegistryInitInv ==
  ASSUME Init
  PROVE  RegistryInv
<1>1. RecipientsTypeOK
  BY DEF Init, RecipientsInit, RecipientsTypeOK, Addresses, NoPending, PendingType
<1>2. MultisigInv(Subjects)
  BY MultisigInitInv DEF Init
<1>3. AdminTypeOK
  BY DEF Init, AdminTypeOK
<1>4. ProjectsOK
  <2>1. NoPlan \in PlanType
    BY MilestonesAssumption DEF NoPlan, PlanType
  <2>2. /\ NoProject \in ProjectType /\ NewMilestone \in MilestoneType
        /\ NoDispute \in DisputeType /\ ~NoDispute.active
    BY <2>1 DEF NoProject, ProjectType, ProjectStatuses, Addresses, NewMilestone,
       MilestoneType, MilestoneStatuses, NoDispute, DisputeType
  <2>3. ProjectsTypeOK
    BY <2>2, MaxProjectsAssumption DEF Init, ProjectsTypeOK
  <2>4. ProjectsSound
    BY <2>2, MaxProjectsAssumption DEF Init, ProjectsSound, Projects
  <2> QED
    BY <2>3, <2>4 DEF ProjectsOK
<1>5. NoncesTypeOK
  BY DEF Init, NoncesTypeOK
<1>6. TokensTypeOK
  BY ChoicesAssumption DEF Init, TokensTypeOK
<1> QED
  BY <1>1, <1>2, <1>3, <1>4, <1>5, <1>6 DEF RegistryInv

(* Every transaction, and everything around the registry, preserves it. *)
LEMMA RegistryNextInv ==
  ASSUME RegistryInv, [Next]_vars
  PROVE  RegistryInv'
<1>1. CASE ProjectStep
  <2>1. ASSUME NEW parties \in Parties, NEW t \in Tokens, NEW plan \in Plans,
               CreateProject(parties[1], parties[2], t, plan)
        PROVE  RegistryInv'
    BY <2>1, CreateProjectInv, ChoicesAssumption
  <2>2. ASSUME NEW c \in Accounts, NEW p \in Projects, NEW amount \in FundingAmounts,
               FundProject(c, p, amount)
        PROVE  RegistryInv'
    BY <2>2, FundProjectInv, ChoicesAssumption
  <2> QED
    BY <1>1, <2>1, <2>2, CancelProjectInv, EmergencyAdminCancelInv DEF ProjectStep
<1>2. CASE MilestoneStep
  BY <1>2, DeliveryInv, ReleaseMilestoneInv, RaiseDisputeInv, AppendDisputeEvidenceInv,
     ResolveStaleDisputeInv DEF MilestoneStep
<1>3. CASE ResolutionStep
  BY <1>3, ResolveDisputeInv, EmergencyInv DEF ResolutionStep
<1>4. CASE UNCHANGED vars
  BY <1>4, Frames DEF vars, projectVars, RegistryInv
<1> QED
  BY <1>1, <1>2, <1>3, <1>4, AdminStepInv, RecipientStepInv, EnvironmentStepInv DEF Next

(* The invariant holds in every reachable state of the registry. *)
THEOREM RegistryInvariant == Spec => []RegistryInv
<1>1. Init => RegistryInv
  BY RegistryInitInv
<1>2. RegistryInv /\ [Next]_vars => RegistryInv'
  BY RegistryNextInv
<1> QED
  BY <1>1, <1>2, PTL DEF Spec

-----------------------------------------------------------------------------
(* What follows from it.                                                   *)

(* Type correctness of the registry. *)
THEOREM RegistryTypeCorrect == Spec => []TypeOK
<1>1. RegistryInv => TypeOK
  BY DEF RegistryInv, MultisigInv, ProjectsOK, TypeOK
<1> QED
  BY <1>1, RegistryInvariant, PTL

(* In every project the settled milestones come first, and at most the next *)
(* one is delivered or disputed.                                            *)
THEOREM RegistryOneInFlight == Spec => []OneMilestoneInFlight
<1>1. RegistryInv => OneMilestoneInFlight
  BY ProjectFacts DEF RegistryInv, OneMilestoneInFlight, Created, Exists, Milestones,
     Settled, InFlight, Delivered, Sound, InOrder
<1> QED
  BY <1>1, RegistryInvariant, PTL

(* Reservation, dispute counter and project status always agree with the    *)
(* disputes that are open.                                                  *)
THEOREM RegistryReservations == Spec => []ReservationsMatchDisputes
<1>1. RegistryInv => ReservationsMatchDisputes
  <2> SUFFICES ASSUME RegistryInv, NEW p \in Created
               PROVE  /\ project[p].reservedAmount = SumOfAmounts(p, Disputed(p))
                      /\ project[p].activeDisputeCount = Cardinality(Disputed(p))
                      /\ project[p].status = "Disputed" <=> Disputed(p) # {}
    BY DEF ReservationsMatchDisputes
  <2> DEFINE k == project[p].settledMilestoneCount
  <2>1. /\ project[p] \in ProjectType /\ project[p].plan.milestoneCount \in Nat
        /\ Sound(project[p], milestone[p], dispute[p])
        /\ \A i \in Milestones(p) : Amount(p, i) \in Nat
    BY ProjectFacts, PlanFacts DEF RegistryInv, Created, Exists
  <2>2. \A i \in Milestones(p) : dispute[p][i].active => i = k
    BY <2>1 DEF Sound, InOrder, Milestones
  <2>3. /\ Open(p) => k \in Milestones(p)
        /\ ~Open(p) => k \notin Milestones(p)
    BY <2>1 DEF Sound, OpenBooks, ClosedBooks, Open, Milestones, ProjectType,
       ProjectStatuses
  <2>4. CASE Open(p) /\ dispute[p][k].active
    <3>1. Disputed(p) = {k}
      BY <2>2, <2>3, <2>4 DEF Disputed
    <3>2. SumOfAmounts(p, {k}) = Amount(p, k)
      <4>1. Amount(p, k) \in Int
        BY <2>1, <2>3, <2>4
      <4> QED
        BY <4>1, SumOfOne
    <3>3. Cardinality({k}) = 1
      BY FS_Singleton
    <3>4. /\ project[p].status = "Disputed" /\ project[p].activeDisputeCount = 1
          /\ project[p].reservedAmount = Amount(p, k)
      BY <2>1, <2>4 DEF Sound, Open, OpenBooks, Amount
    <3> QED
      BY <3>1, <3>2, <3>3, <3>4
  <2>5. CASE ~(Open(p) /\ dispute[p][k].active)
    <3>1. Disputed(p) = {}
      BY <2>2, <2>3, <2>5 DEF Disputed
    <3>2. SumOfAmounts(p, {}) = 0 /\ Cardinality({}) = 0
      BY SumOfNone, FS_EmptySet
    <3>3. /\ project[p].status # "Disputed" /\ project[p].activeDisputeCount = 0
          /\ project[p].reservedAmount = 0
      BY <2>1, <2>5 DEF Sound, Open, OpenBooks, ClosedBooks, ProjectType, ProjectStatuses
    <3> QED
      BY <3>1, <3>2, <3>3
  <2> QED
    BY <2>4, <2>5
<1> QED
  BY <1>1, RegistryInvariant, PTL

(* Delivered or disputed work is covered by funds of its own project. *)
THEOREM RegistryStaysFunded == Spec => []DeliveredWorkStaysFunded
<1>1. RegistryInv => DeliveredWorkStaysFunded
  <2> SUFFICES ASSUME RegistryInv, NEW p \in Created, NEW i \in Milestones(p),
                      InFlight(p, i)
               PROVE  /\ Amount(p, i) <= AvailableLiquidity(p)
                      /\ ~dispute[p][i].active => Amount(p, i) <= FreeLiquidity(p)
    BY DEF DeliveredWorkStaysFunded
  <2> DEFINE k == project[p].settledMilestoneCount
  <2>1. /\ project[p] \in ProjectType /\ project[p].plan \in Plans
        /\ Sound(project[p], milestone[p], dispute[p])
        /\ Amount(p, i) \in Nat
    BY ProjectFacts DEF RegistryInv, Created, Exists
  <2>2. i = k /\ k < project[p].plan.milestoneCount /\ k \in Nat
    BY <2>1, PlanFacts DEF Sound, InOrder, Milestones, InFlight, Delivered, ProjectType
  <2>3. project[p].status \in {"Active", "Disputed"}
    BY <2>1, <2>2 DEF Sound, ClosedBooks, ProjectType, ProjectStatuses
  <2>4. /\ project[p].releasedAmount + project[p].refundedAmount
             = project[p].plan.runningTotal[k]
        /\ project[p].plan.runningTotal[k + 1] <= project[p].fundedAmount
        /\ ~dispute[p][k].active => project[p].reservedAmount = 0
    BY <2>1, <2>2, <2>3 DEF Sound, OpenBooks, InFlight, Delivered
  <2>5. /\ project[p].plan.runningTotal[k] \in Nat
        /\ project[p].plan.runningTotal[k + 1] \in Nat
        /\ project[p].fundedAmount \in Nat /\ project[p].releasedAmount \in Nat
        /\ project[p].refundedAmount \in Nat
    BY <2>1, <2>2, PlanFacts DEF ProjectType
  <2>6. Amount(p, i) = project[p].plan.runningTotal[k + 1] - project[p].plan.runningTotal[k]
    BY <2>2 DEF Amount
  <2>7. Amount(p, i) <= AvailableLiquidity(p)
    BY <2>4, <2>5, <2>6 DEF AvailableLiquidity
  <2> QED
    BY <2>2, <2>4, <2>5, <2>7, <2>1 DEF FreeLiquidity, AvailableLiquidity
<1> QED
  BY <1>1, RegistryInvariant, PTL

(* What an open project has paid out is the price of its settled            *)
(* milestones; a completed or cancelled one holds nothing.                  *)
THEOREM RegistryBooks == Spec => []BooksFollowMilestones
<1>1. RegistryInv => BooksFollowMilestones
  <2> SUFFICES ASSUME RegistryInv, NEW p \in Created
               PROVE  LET proj == project[p]
                          paid == proj.releasedAmount + proj.refundedAmount
                      IN
                      /\ paid <= proj.fundedAmount /\ proj.fundedAmount <= TotalAmount(p)
                      /\ Open(p) =>
                           /\ paid = proj.plan.runningTotal[proj.settledMilestoneCount]
                           /\ proj.settledMilestoneCount < proj.plan.milestoneCount
                      /\ ~Open(p) =>
                           /\ paid = proj.fundedAmount
                           /\ proj.settledMilestoneCount = proj.plan.milestoneCount
                      /\ proj.status = "Completed" => paid = TotalAmount(p)
    BY DEF BooksFollowMilestones
  <2>1. project[p] \in ProjectType /\ Sound(project[p], milestone[p], dispute[p])
    BY ProjectFacts DEF RegistryInv, Created, Exists
  <2> QED
    BY <2>1 DEF Sound, OpenBooks, ClosedBooks, Open, TotalAmount, ProjectType,
       ProjectStatuses
<1> QED
  BY <1>1, RegistryInvariant, PTL

(* In the registry as in the council: an action is executed exactly when as *)
(* many distinct arbitrators as its threshold have approved it.             *)
THEOREM RegistryQuorum == Spec => []QuorumExactlyWhenExecuted
<1>1. RegistryInv => QuorumExactlyWhenExecuted
  BY DEF RegistryInv, MultisigInv
<1> QED
  BY <1>1, RegistryInvariant, PTL

=============================================================================
