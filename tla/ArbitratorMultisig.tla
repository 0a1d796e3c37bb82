------------------------- MODULE ArbitratorMultisig -------------------------
(***************************************************************************)
(* Roles and the M-of-N arbitrator confirmations of EscrowFlowRegistry:    *)
(* role grants with separation of duties, the arbitrator threshold, and    *)
(* the vote sets from which resolveDispute and setAlternativeRecipient     *)
(* draw their quorum.                                                      *)
(*                                                                         *)
(* An action id of the code is the hash of what is decided (here the       *)
(* "subject"), the threshold and the configuration nonce in force; two ids *)
(* are equal exactly when those three are, so the id is that record.       *)
(***************************************************************************)
EXTENDS Addresses

CONSTANTS
  Deployer,          \* constructor argument: first admin and first pauser
  RoleChanges,       \* bound: the <<role, account>> pairs granted or taken away
  MaxConfigNonce     \* bound: role and threshold changes stop there

ASSUME DeployerAssumption == Deployer \in Accounts
ASSUME ConfigBoundAssumption == MaxConfigNonce \in Nat

DEFAULT_ADMIN_ROLE == "DEFAULT_ADMIN_ROLE"
PAUSER_ROLE        == "PAUSER_ROLE"
ARBITRATOR_ROLE    == "ARBITRATOR_ROLE"
Roles == {DEFAULT_ADMIN_ROLE, PAUSER_ROLE, ARBITRATOR_ROLE}

ASSUME RoleChangesAssumption == RoleChanges \subseteq Roles \X Accounts

VARIABLES
  members,                \* AccessControl: the accounts that hold each role
  arbitratorCount,
  arbitratorThreshold,
  arbitratorConfigNonce,
  votes,                  \* pairs <<action id, arbitrator that approved it>>
  executedActions         \* ids whose quorum has been reached and used

multisigVars == <<members, arbitratorCount, arbitratorThreshold,
                  arbitratorConfigNonce, votes, executedActions>>

-----------------------------------------------------------------------------

HasRole(role, a) == a \in members[role]

(* Mutant: pausers are forgotten. *)
SeparatedIn_AdminOnly(m, a) == ~(a \in m[ARBITRATOR_ROLE] /\ a \in m[DEFAULT_ADMIN_ROLE])

(* _enforceRoleSeparationOnGrant and _assertRoleSeparationInvariant: an     *)
(* arbitrator is neither admin nor pauser.                                  *)
SeparatedIn(m, a) ==
  ~ /\ a \in m[ARBITRATOR_ROLE]
    /\ a \in m[DEFAULT_ADMIN_ROLE] \cup m[PAUSER_ROLE]

(* Mutant: the threshold is not clamped to the arbitrators that are left. *)
NormalizedThreshold_Unclamped(count, threshold) == IF count = 0 THEN 1 ELSE threshold

(* _normalizeArbitratorThreshold *)
NormalizedThreshold(count, threshold) ==
  IF count = 0 THEN 1 ELSE IF threshold > count THEN count ELSE threshold

ConfigMayChange == arbitratorConfigNonce < MaxConfigNonce

MultisigInit ==
  /\ members = [r \in Roles |->
                  IF r = ARBITRATOR_ROLE THEN {} ELSE {Deployer}]
  /\ arbitratorCount = 0
  /\ arbitratorThreshold = 1
  /\ arbitratorConfigNonce = 0
  /\ votes = {}
  /\ executedActions = {}

-----------------------------------------------------------------------------
(* Role management and the threshold.                                      *)

(* Mutant: votes of the old arbitrator set stay valid. *)
DropArbitrator_KeepsConfiguration ==
  /\ arbitratorCount' = arbitratorCount - 1
  /\ arbitratorThreshold' =
       NormalizedThreshold(arbitratorCount - 1, arbitratorThreshold)
  /\ UNCHANGED arbitratorConfigNonce

(* An arbitrator leaves the set, by revocation or by renouncing. *)
DropArbitrator ==
  /\ ConfigMayChange
  /\ arbitratorCount' = arbitratorCount - 1
  /\ arbitratorConfigNonce' = arbitratorConfigNonce + 1
  /\ arbitratorThreshold' =
       NormalizedThreshold(arbitratorCount - 1, arbitratorThreshold)

KeepArbitrators ==
  UNCHANGED <<arbitratorCount, arbitratorConfigNonce, arbitratorThreshold>>

GrantRole(caller, role, a) ==
  /\ HasRole(DEFAULT_ADMIN_ROLE, caller)
  /\ members' = [members EXCEPT ![role] = @ \cup {a}]
  /\ SeparatedIn(members', a)
  /\ \/ /\ role = ARBITRATOR_ROLE /\ ~HasRole(role, a)
        /\ ConfigMayChange
        /\ arbitratorCount' = arbitratorCount + 1
        /\ arbitratorConfigNonce' = arbitratorConfigNonce + 1
        /\ arbitratorThreshold' =
             IF arbitratorCount + 1 = 1 THEN 1 ELSE arbitratorThreshold
     \/ /\ role # ARBITRATOR_ROLE \/ HasRole(role, a)
        /\ KeepArbitrators
  /\ UNCHANGED <<votes, executedActions>>

(* Mutant: the counter drops even if the account did not hold the role. *)
RemoveFromRole_NoMembershipCheck(role, a) ==
  /\ members' = [members EXCEPT ![role] = @ \ {a}]
  /\ SeparatedIn(members', a)
  /\ IF role = ARBITRATOR_ROLE THEN DropArbitrator ELSE KeepArbitrators
  /\ UNCHANGED <<votes, executedActions>>

RemoveFromRole(role, a) ==
  /\ members' = [members EXCEPT ![role] = @ \ {a}]
  /\ SeparatedIn(members', a)
  /\ \/ role = ARBITRATOR_ROLE /\ HasRole(role, a) /\ DropArbitrator
     \/ (role # ARBITRATOR_ROLE \/ ~HasRole(role, a)) /\ KeepArbitrators
  /\ UNCHANGED <<votes, executedActions>>

RevokeRole(caller, role, a) ==
  /\ HasRole(DEFAULT_ADMIN_ROLE, caller)
  /\ RemoveFromRole(role, a)

RenounceRole(caller, role) == RemoveFromRole(role, caller)

SetArbitratorThreshold(caller, newThreshold) ==
  /\ HasRole(DEFAULT_ADMIN_ROLE, caller)
  /\ newThreshold # 0 /\ newThreshold <= arbitratorCount
  /\ arbitratorThreshold' = newThreshold
  /\ \/ /\ newThreshold # arbitratorThreshold
        /\ ConfigMayChange
        /\ arbitratorConfigNonce' = arbitratorConfigNonce + 1
     \/ /\ newThreshold = arbitratorThreshold
        /\ UNCHANGED arbitratorConfigNonce
  /\ UNCHANGED <<members, arbitratorCount, votes, executedActions>>

-----------------------------------------------------------------------------
(* Confirmations.                                                          *)

ActionId(subject) ==
  [subject     |-> subject,
   threshold   |-> arbitratorThreshold,
   configNonce |-> arbitratorConfigNonce]

ApproversOf(id) == {a \in Accounts : <<id, a>> \in votes}

(* Mutant: the quorum is read before the caller's vote is counted. *)
QuorumWith_ReadBeforeVote(arbitrator, subject) ==
  Cardinality(ApproversOf(ActionId(subject))) >= arbitratorThreshold

(* What _confirmArbitratorAction returns: the caller's vote counted, once, *)
(* the threshold is reached.                                               *)
QuorumWith(arbitrator, subject) ==
  Cardinality(ApproversOf(ActionId(subject)) \cup {arbitrator})
     >= arbitratorThreshold

(* Mutant: an executed action still takes votes. *)
ConfirmArbitratorAction_NoReplayCheck(arbitrator, subject) ==
  LET id == ActionId(subject) IN
  /\ votes' = votes \cup {<<id, arbitrator>>}
  /\ executedActions' = IF QuorumWith(arbitrator, subject)
                        THEN executedActions \cup {id} ELSE executedActions
  /\ UNCHANGED <<members, arbitratorCount, arbitratorThreshold,
                 arbitratorConfigNonce>>

(* _confirmArbitratorAction: a first vote is recorded and, at the           *)
(* threshold, marks the action executed; a repeated vote changes nothing.   *)
ConfirmArbitratorAction(arbitrator, subject) ==
  LET id == ActionId(subject) IN
  /\ id \notin executedActions
  /\ votes' = votes \cup {<<id, arbitrator>>}
  /\ executedActions' =
       IF <<id, arbitrator>> \notin votes /\ QuorumWith(arbitrator, subject)
       THEN executedActions \cup {id}
       ELSE executedActions
  /\ UNCHANGED <<members, arbitratorCount, arbitratorThreshold,
                 arbitratorConfigNonce>>

(* A call of resolveDispute or setAlternativeRecipient, as far as the       *)
(* multisig is concerned.                                                   *)
ArbitratorVote(arbitrator, subject) ==
  /\ HasRole(ARBITRATOR_ROLE, arbitrator)
  /\ ConfirmArbitratorAction(arbitrator, subject)

-----------------------------------------------------------------------------

RoleStep ==
  \/ \E c \in Accounts, ra \in RoleChanges :
       GrantRole(c, ra[1], ra[2]) \/ RevokeRole(c, ra[1], ra[2])
  \/ \E ra \in RoleChanges : RenounceRole(ra[2], ra[1])
  \/ \E c \in Accounts, n \in 0..Cardinality(Accounts) :
       SetArbitratorThreshold(c, n)

-----------------------------------------------------------------------------
(* Properties.                                                             *)

ActionIds(subjects) == [subject : subjects, threshold : Nat, configNonce : Nat]

(* Type invariant of the roles, the arbitrator configuration and the votes, *)
(* for actions on the given subjects.                                       *)
MultisigTypeOK(subjects) ==
  /\ members \in [Roles -> SUBSET Accounts]
  /\ arbitratorCount \in Nat
  /\ arbitratorThreshold \in Nat
  /\ arbitratorConfigNonce \in Nat
  /\ votes \subseteq ActionIds(subjects) \X Accounts
  /\ executedActions \subseteq ActionIds(subjects)

(* Separation of duties (grantRole, revokeRole, renounceRole): whatever the *)
(* order of grants, no account is arbitrator and admin or pauser at once.   *)
RoleSeparation ==
  members[ARBITRATOR_ROLE]
    \cap (members[DEFAULT_ADMIN_ROLE] \cup members[PAUSER_ROLE]) = {}

(* The counter _arbitratorCount, kept by hand in three functions, is the    *)
(* number of role members, and the threshold can be met by them.            *)
ThresholdAttainable ==
  /\ arbitratorCount = Cardinality(members[ARBITRATOR_ROLE])
  /\ arbitratorThreshold >= 1
  /\ arbitratorCount > 0 => arbitratorThreshold <= arbitratorCount

(* Votes recorded under the configuration in force are votes of accounts    *)
(* that still are arbitrators, under the threshold in force: a change of    *)
(* the arbitrator set or of the threshold voids every vote in flight.       *)
LiveVotesAreOfArbitrators ==
  \A v \in votes :
    v[1].configNonce = arbitratorConfigNonce =>
      /\ HasRole(ARBITRATOR_ROLE, v[2])
      /\ v[1].threshold = arbitratorThreshold

(* An action is executed exactly when as many distinct arbitrators as its   *)
(* threshold have approved it: no quorum is missed, none is short, and a    *)
(* repeated vote on an unexecuted action can never be the deciding one.     *)
QuorumExactlyWhenExecuted ==
  \A id \in executedActions \cup {v[1] : v \in votes} :
    id \in executedActions <=> Cardinality(ApproversOf(id)) >= id.threshold

(* No vote is ever withdrawn, an executed action stays executed and gains   *)
(* no approver, and a vote never lands on a configuration of the past.      *)
VotesOnlyForTheLiveConfiguration ==
  [][/\ votes \subseteq votes' /\ executedActions \subseteq executedActions'
     /\ \A v \in votes' \ votes :
          /\ v[1].configNonce = arbitratorConfigNonce
          /\ v[1] \notin executedActions]_multisigVars

=============================================================================
