---------------------- MODULE ArbitratorMultisigProofs ----------------------
(***************************************************************************)
(* What role management and votes do to the arbitrator multisig, for any   *)
(* accounts, any thresholds and any number of configuration changes.  The  *)
(* lemmas hold for any set of subjects, so that they serve the council by   *)
(* itself as well as the registry.                                         *)
(***************************************************************************)
EXTENDS ArbitratorMultisig, FiniteSetTheorems, TLAPS

(* Why LiveVotesAreOfArbitrators is not inductive by itself: a change of    *)
(* the configuration must find no vote already cast under the next nonce.   *)
NoVoteFromTheFuture ==
  \A v \in votes : v[1].configNonce <= arbitratorConfigNonce

(* The inductive invariant of the multisig. *)
MultisigInv(subjects) ==
  /\ MultisigTypeOK(subjects)
  /\ RoleSeparation
  /\ ThresholdAttainable
  /\ NoVoteFromTheFuture
  /\ LiveVotesAreOfArbitrators
  /\ QuorumExactlyWhenExecuted

-----------------------------------------------------------------------------

(* The constructor establishes the invariant. *)
LEMMA MultisigInitInv ==
  ASSUME NEW subjects, MultisigInit
  PROVE  MultisigInv(subjects)
<1>1. Cardinality({}) = 0
  BY FS_EmptySet
<1> QED
  BY <1>1, DeployerAssumption
  DEF MultisigInit, MultisigInv, MultisigTypeOK, RoleSeparation,
      ThresholdAttainable, NoVoteFromTheFuture, LiveVotesAreOfArbitrators,
      QuorumExactlyWhenExecuted, Roles, DEFAULT_ADMIN_ROLE, PAUSER_ROLE,
      ARBITRATOR_ROLE

(* Arbitrators can be counted: a set of accounts is finite. *)
LEMMA AccountSetsAreFinite ==
  ASSUME NEW S \in SUBSET Accounts
  PROVE  IsFiniteSet(S) /\ Cardinality(S) \in Nat
BY FS_Subset, FS_CardinalityType, AddressAssumption

(* What role management does to roles, counter and threshold; the vote sets *)
(* are untouched, and the arbitrator set only changes with a new nonce.     *)
RoleEffect ==
  /\ members' \in [Roles -> SUBSET Accounts]
  /\ RoleSeparation'
  /\ arbitratorCount' \in Nat /\ arbitratorThreshold' \in Nat
  /\ arbitratorConfigNonce' \in Nat
  /\ ThresholdAttainable'
  /\ \/ arbitratorConfigNonce' = arbitratorConfigNonce + 1
     \/ /\ arbitratorConfigNonce' = arbitratorConfigNonce
        /\ arbitratorThreshold' = arbitratorThreshold
        /\ members'[ARBITRATOR_ROLE] = members[ARBITRATOR_ROLE]
  /\ UNCHANGED <<votes, executedActions>>

(* grantRole keeps the counter and the separation of duties. *)
LEMMA GrantRoleEffect ==
  ASSUME NEW subjects, MultisigInv(subjects),
         NEW c \in Accounts, NEW role \in Roles, NEW a \in Accounts,
         GrantRole(c, role, a)
  PROVE  RoleEffect
<1> DEFINE arbiters == members[ARBITRATOR_ROLE]
<1> USE DEF Roles, DEFAULT_ADMIN_ROLE, PAUSER_ROLE, ARBITRATOR_ROLE
<1>1. members \in [Roles -> SUBSET Accounts] /\ arbiters \in SUBSET Accounts
  BY DEF MultisigInv, MultisigTypeOK
<1>2. members' \in [Roles -> SUBSET Accounts]
  BY <1>1 DEF GrantRole
<1>3. \A r \in Roles : members'[r] = IF r = role THEN members[r] \cup {a} ELSE members[r]
  BY <1>1 DEF GrantRole
<1>4. RoleSeparation'
  BY <1>1, <1>3 DEF GrantRole, SeparatedIn, MultisigInv, RoleSeparation
<1>5. IsFiniteSet(arbiters) /\ Cardinality(arbiters) \in Nat
  BY <1>1, AccountSetsAreFinite
<1>6. CASE role = ARBITRATOR_ROLE /\ a \notin arbiters
  <2>1. members'[ARBITRATOR_ROLE] = arbiters \cup {a}
    BY <1>3, <1>6
  <2>2. Cardinality(arbiters \cup {a}) = Cardinality(arbiters) + 1
    BY <1>5, <1>6, FS_AddElement
  <2>3. /\ arbitratorCount' = arbitratorCount + 1
        /\ arbitratorConfigNonce' = arbitratorConfigNonce + 1
        /\ arbitratorThreshold' =
             IF arbitratorCount + 1 = 1 THEN 1 ELSE arbitratorThreshold
    BY <1>6 DEF GrantRole, HasRole, KeepArbitrators
  <2>4. UNCHANGED <<votes, executedActions>>
    BY DEF GrantRole
  <2> QED
    BY <1>2, <1>4, <1>5, <2>1, <2>2, <2>3, <2>4
    DEF RoleEffect, MultisigInv, MultisigTypeOK, ThresholdAttainable
<1>7. CASE ~(role = ARBITRATOR_ROLE /\ a \notin arbiters)
  <2>1. members'[ARBITRATOR_ROLE] = arbiters
    BY <1>3, <1>7
  <2>2. KeepArbitrators /\ UNCHANGED <<votes, executedActions>>
    BY <1>7 DEF GrantRole, HasRole
  <2> QED
    BY <1>2, <1>4, <2>1, <2>2
    DEF RoleEffect, MultisigInv, MultisigTypeOK, ThresholdAttainable, KeepArbitrators
<1> QED
  BY <1>6, <1>7

(* revokeRole and renounceRole keep the counter, and lower the threshold    *)
(* when too few arbitrators are left to reach it.                           *)
LEMMA RemoveFromRoleEffect ==
  ASSUME NEW subjects, MultisigInv(subjects),
         NEW role \in Roles, NEW a \in Accounts,
         RemoveFromRole(role, a)
  PROVE  RoleEffect
<1> DEFINE arbiters == members[ARBITRATOR_ROLE]
<1> USE DEF Roles, DEFAULT_ADMIN_ROLE, PAUSER_ROLE, ARBITRATOR_ROLE
<1>1. members \in [Roles -> SUBSET Accounts] /\ arbiters \in SUBSET Accounts
  BY DEF MultisigInv, MultisigTypeOK
<1>2. members' \in [Roles -> SUBSET Accounts]
  BY <1>1 DEF RemoveFromRole
<1>3. \A r \in Roles : members'[r] = IF r = role THEN members[r] \ {a} ELSE members[r]
  BY <1>1 DEF RemoveFromRole
<1>4. RoleSeparation'
  BY <1>1, <1>3 DEF MultisigInv, RoleSeparation
<1>5. IsFiniteSet(arbiters) /\ Cardinality(arbiters) \in Nat
  BY <1>1, AccountSetsAreFinite
<1>6. CASE role = ARBITRATOR_ROLE /\ a \in arbiters
  <2>1. members'[ARBITRATOR_ROLE] = arbiters \ {a}
    BY <1>3, <1>6
  <2>2. Cardinality(arbiters \ {a}) = Cardinality(arbiters) - 1
    BY <1>5, <1>6, FS_RemoveElement
  <2>3. Cardinality(arbiters \ {a}) \in Nat
    BY <1>1, AccountSetsAreFinite
  <2>4. /\ arbitratorCount' = arbitratorCount - 1
        /\ arbitratorConfigNonce' = arbitratorConfigNonce + 1
        /\ arbitratorThreshold' =
             NormalizedThreshold(arbitratorCount - 1, arbitratorThreshold)
    BY <1>6 DEF RemoveFromRole, HasRole, DropArbitrator
  <2>5. UNCHANGED <<votes, executedActions>>
    BY DEF RemoveFromRole
  <2> QED
    BY <1>2, <1>4, <1>5, <2>1, <2>2, <2>3, <2>4, <2>5
    DEF RoleEffect, MultisigInv, MultisigTypeOK, ThresholdAttainable,
        NormalizedThreshold
<1>7. CASE ~(role = ARBITRATOR_ROLE /\ a \in arbiters)
  <2>1. members'[ARBITRATOR_ROLE] = arbiters
    BY <1>3, <1>7
  <2>2. KeepArbitrators /\ UNCHANGED <<votes, executedActions>>
    BY <1>7 DEF RemoveFromRole, HasRole
  <2> QED
    BY <1>2, <1>4, <2>1, <2>2
    DEF RoleEffect, MultisigInv, MultisigTypeOK, ThresholdAttainable, KeepArbitrators
<1> QED
  BY <1>6, <1>7

(* setArbitratorThreshold stays within what the arbitrators can reach. *)
LEMMA SetArbitratorThresholdEffect ==
  ASSUME NEW subjects, MultisigInv(subjects),
         NEW c \in Accounts, NEW n \in Nat, SetArbitratorThreshold(c, n)
  PROVE  RoleEffect
BY DEF SetArbitratorThreshold, RoleEffect, MultisigInv, MultisigTypeOK,
       ThresholdAttainable, RoleSeparation, Roles, ARBITRATOR_ROLE

(* Role management preserves the invariant: votes in flight are either of   *)
(* the arbitrators that remain, or of a configuration that is gone.         *)
LEMMA RoleStepInv ==
  ASSUME NEW subjects, MultisigInv(subjects), RoleStep
  PROVE  MultisigInv(subjects)'
<1>1. RoleEffect
  <2>1. ASSUME NEW c \in Accounts, NEW ra \in RoleChanges,
               GrantRole(c, ra[1], ra[2]) \/ RevokeRole(c, ra[1], ra[2])
        PROVE  RoleEffect
    BY <2>1, GrantRoleEffect, RemoveFromRoleEffect, RoleChangesAssumption
    DEF RevokeRole
  <2>2. ASSUME NEW ra \in RoleChanges, RenounceRole(ra[2], ra[1])
        PROVE  RoleEffect
    BY <2>2, RemoveFromRoleEffect, RoleChangesAssumption DEF RenounceRole
  <2>3. ASSUME NEW c \in Accounts, NEW n \in 0..Cardinality(Accounts),
               SetArbitratorThreshold(c, n)
        PROVE  RoleEffect
    BY <2>3, SetArbitratorThresholdEffect
  <2> QED
    BY <2>1, <2>2, <2>3 DEF RoleStep
<1>2. MultisigTypeOK(subjects)'
  BY <1>1 DEF RoleEffect, MultisigInv, MultisigTypeOK, ActionIds
<1>3. \A v \in votes : v[1].configNonce \in Nat
  BY DEF MultisigInv, MultisigTypeOK, ActionIds
<1>4. NoVoteFromTheFuture'
  BY <1>1, <1>2, <1>3 DEF RoleEffect, MultisigInv, MultisigTypeOK, NoVoteFromTheFuture
<1>5. LiveVotesAreOfArbitrators'
  BY <1>1, <1>3
  DEF RoleEffect, MultisigInv, MultisigTypeOK, NoVoteFromTheFuture,
      LiveVotesAreOfArbitrators, HasRole
<1>6. QuorumExactlyWhenExecuted'
  BY <1>1 DEF RoleEffect, MultisigInv, QuorumExactlyWhenExecuted, ApproversOf
<1> QED
  BY <1>1, <1>2, <1>4, <1>5, <1>6 DEF RoleEffect, MultisigInv

(* A vote preserves the invariant: it is counted once, on the action it is  *)
(* cast for, and the vote that completes the quorum executes the action.    *)
LEMMA ArbitratorVoteInv ==
  ASSUME NEW subjects, MultisigInv(subjects),
         NEW a \in Accounts, NEW s \in subjects, ArbitratorVote(a, s)
  PROVE  MultisigInv(subjects)'
<1> DEFINE id == ActionId(s)
<1>1. /\ HasRole(ARBITRATOR_ROLE, a) /\ id \notin executedActions
      /\ votes' = votes \cup {<<id, a>>}
      /\ executedActions' =
           IF <<id, a>> \notin votes /\ QuorumWith(a, s)
           THEN executedActions \cup {id} ELSE executedActions
      /\ UNCHANGED <<members, arbitratorCount, arbitratorThreshold,
                     arbitratorConfigNonce>>
  BY DEF ArbitratorVote, ConfirmArbitratorAction
<1>2. /\ id \in ActionIds(subjects)
      /\ id.threshold = arbitratorThreshold
      /\ id.configNonce = arbitratorConfigNonce
  BY DEF ActionId, ActionIds, MultisigInv, MultisigTypeOK
<1>3. MultisigTypeOK(subjects)'
  BY <1>1, <1>2 DEF MultisigInv, MultisigTypeOK
<1>4. RoleSeparation' /\ ThresholdAttainable'
  BY <1>1 DEF MultisigInv, RoleSeparation, ThresholdAttainable
<1>5. NoVoteFromTheFuture' /\ LiveVotesAreOfArbitrators'
  BY <1>1, <1>2
  DEF MultisigInv, MultisigTypeOK, NoVoteFromTheFuture, LiveVotesAreOfArbitrators,
      HasRole
<1>6. QuorumExactlyWhenExecuted'
  <2> SUFFICES ASSUME NEW x \in executedActions' \cup {v[1] : v \in votes'}
               PROVE  x \in executedActions' <=> Cardinality(ApproversOf(x)') >= x.threshold
    BY DEF QuorumExactlyWhenExecuted
  <2>1. CASE x # id
    <3>1. ApproversOf(x)' = ApproversOf(x)
      BY <1>1, <2>1 DEF ApproversOf
    <3>2. x \in executedActions' <=> x \in executedActions
      BY <1>1, <2>1
    <3>3. x \in executedActions \cup {v[1] : v \in votes}
      BY <1>1, <2>1
    <3> QED
      BY <3>1, <3>2, <3>3 DEF MultisigInv, QuorumExactlyWhenExecuted
  <2>2. CASE x = id /\ <<id, a>> \in votes
    <3>1. votes' = votes /\ executedActions' = executedActions
      BY <1>1, <2>2
    <3> QED
      BY <2>2, <3>1 DEF MultisigInv, QuorumExactlyWhenExecuted, ApproversOf
  <2>3. CASE x = id /\ <<id, a>> \notin votes
    <3>1. ApproversOf(x)' = ApproversOf(x) \cup {a}
      BY <1>1, <2>3 DEF ApproversOf
    <3>2. x \in executedActions' <=> QuorumWith(a, s)
      BY <1>1, <2>3
    <3> QED
      BY <1>2, <2>3, <3>1, <3>2 DEF QuorumWith
  <2> QED
    BY <2>1, <2>2, <2>3
<1> QED
  BY <1>3, <1>4, <1>5, <1>6 DEF MultisigInv

(* Nothing of the invariant depends on anything but the multisig's state. *)
LEMMA MultisigStutterInv ==
  ASSUME NEW subjects, MultisigInv(subjects), UNCHANGED multisigVars
  PROVE  MultisigInv(subjects)'
BY DEF multisigVars, MultisigInv, MultisigTypeOK, RoleSeparation,
       ThresholdAttainable, NoVoteFromTheFuture, LiveVotesAreOfArbitrators,
       QuorumExactlyWhenExecuted, ApproversOf, HasRole

=============================================================================
