------------------------- MODULE ArbitratorCouncil -------------------------
(***************************************************************************)
(* The arbitrator multisig by itself: any arbitrator may vote on any       *)
(* subject at any time, whatever the state of projects and disputes.       *)
(***************************************************************************)
EXTENDS ArbitratorMultisigProofs

CONSTANT ActionSubjects     \* what arbitrators may be asked to confirm

CouncilNext ==
  \/ RoleStep
  \/ \E a \in Accounts, s \in ActionSubjects : ArbitratorVote(a, s)

CouncilSpec == MultisigInit /\ [][CouncilNext]_multisigVars

(* Type invariant of the council. *)
CouncilTypeOK == MultisigTypeOK(ActionSubjects)

-----------------------------------------------------------------------------
(* The invariant holds in every reachable state of the council. *)
THEOREM CouncilInvariant == CouncilSpec => []MultisigInv(ActionSubjects)
<1>1. MultisigInit => MultisigInv(ActionSubjects)
  BY MultisigInitInv
<1>2. MultisigInv(ActionSubjects) /\ [CouncilNext]_multisigVars
        => MultisigInv(ActionSubjects)'
  BY RoleStepInv, ArbitratorVoteInv, MultisigStutterInv DEF CouncilNext
<1> QED
  BY <1>1, <1>2, PTL DEF CouncilSpec

(* Type correctness of the council. *)
THEOREM CouncilTypeCorrect == CouncilSpec => []CouncilTypeOK
<1>1. MultisigInv(ActionSubjects) => CouncilTypeOK
  BY DEF MultisigInv, CouncilTypeOK
<1> QED
  BY <1>1, CouncilInvariant, PTL

(* No account ever holds the arbitrator role beside admin or pauser. *)
THEOREM CouncilSeparation == CouncilSpec => []RoleSeparation
<1>1. MultisigInv(ActionSubjects) => RoleSeparation
  BY DEF MultisigInv
<1> QED
  BY <1>1, CouncilInvariant, PTL

(* The hand-kept counter is the size of the arbitrator set, and the         *)
(* threshold can always be reached by the arbitrators there are.            *)
THEOREM CouncilThreshold == CouncilSpec => []ThresholdAttainable
<1>1. MultisigInv(ActionSubjects) => ThresholdAttainable
  BY DEF MultisigInv
<1> QED
  BY <1>1, CouncilInvariant, PTL

(* Every vote that still counts was cast by an account that still is an     *)
(* arbitrator, under the threshold in force.                                *)
THEOREM CouncilLiveVotes == CouncilSpec => []LiveVotesAreOfArbitrators
<1>1. MultisigInv(ActionSubjects) => LiveVotesAreOfArbitrators
  BY DEF MultisigInv
<1> QED
  BY <1>1, CouncilInvariant, PTL

(* An action is executed when, and only when, as many distinct arbitrators  *)
(* as its threshold have approved it.                                       *)
THEOREM CouncilQuorum == CouncilSpec => []QuorumExactlyWhenExecuted
<1>1. MultisigInv(ActionSubjects) => QuorumExactlyWhenExecuted
  BY DEF MultisigInv
<1> QED
  BY <1>1, CouncilInvariant, PTL

(* No step withdraws a vote, revives an executed action or votes under a    *)
(* configuration of the past.                                               *)
THEOREM CouncilVoteSteps == CouncilSpec => VotesOnlyForTheLiveConfiguration
<1> DEFINE Step ==
      /\ votes \subseteq votes' /\ executedActions \subseteq executedActions'
      /\ \A v \in votes' \ votes :
           /\ v[1].configNonce = arbitratorConfigNonce
           /\ v[1] \notin executedActions
<1>1. RoleStep => Step
  BY DEF RoleStep, GrantRole, RevokeRole, RenounceRole, RemoveFromRole,
         SetArbitratorThreshold
<1>2. ASSUME NEW a \in Accounts, NEW s \in ActionSubjects, ArbitratorVote(a, s)
      PROVE  Step
  BY <1>2 DEF ArbitratorVote, ConfirmArbitratorAction, ActionId
<1>3. [CouncilNext]_multisigVars => [Step]_multisigVars
  BY <1>1, <1>2 DEF CouncilNext
<1> QED
  BY <1>3, PTL DEF CouncilSpec, VotesOnlyForTheLiveConfiguration
=============================================================================
