-------------------------- MODULE EscrowStepProofs --------------------------
(***************************************************************************)
(* What one transaction of the registry does to a dispute, to the          *)
(* proposals, votes and consents that refer to it, and to what was agreed; *)
(* and the promises about approvals and about delivered work that follow.  *)
(***************************************************************************)
EXTENDS EscrowProofs

(* An open dispute is one on a milestone of an existing project, raised in  *)
(* the past.                                                                *)
DisputesAreDated ==
  \A p \in Projects, i \in MilestoneIndexes :
    dispute[p][i].active =>
      Exists(p) /\ i \in Milestones(p) /\ dispute[p][i].raisedAt <= now

(* A milestone is disputed at most once: the nonce its dispute leaves       *)
(* behind is 1, and it is settled then.                                     *)
DisputedOnce ==
  \A p \in Projects, i \in MilestoneIndexes :
    emergencyNonce[p][i] > 0 =>
      emergencyNonce[p][i] = 1 /\ Exists(p) /\ i \in Milestones(p) /\ Settled(p, i)

(* No proposal is ahead of the nonce of its milestone, and one that carries *)
(* the nonce in force belongs to the dispute that is open.                  *)
ProposalsAreBound ==
  \A e \in emergencyReadyAt :
    LET p == e[1].project  i == e[1].milestone IN
    /\ e[1].nonce <= emergencyNonce[p][i]
    /\ e[1].nonce = emergencyNonce[p][i] =>
         /\ dispute[p][i].active
         /\ e[2] >= dispute[p][i].raisedAt + EMERGENCY_RESOLUTION_DELAY

(* Executed actions are spent, on projects that exist. *)
ActionsAreSpent ==
  \A id \in executedActions :
    LET s == id.subject IN
    /\ Exists(s.project) /\ s.milestone \in Milestones(s.project)
    /\ s.nonce < actionNonce[s.project][s.milestone]
    /\ s.domain = "RESOLVE_DISPUTE" => Settled(s.project, s.milestone)

(* Consents are used on projects that exist, by their parties. *)
ConsentsAreSigned ==
  /\ EveryNonceWasSigned
  /\ \A p \in Projects, s \in Scopes, l \in Legs :
       authorizationNonce[p][s][l] > 0 => Exists(p)

(* The second inductive invariant, on top of RegistryInv. *)
ApprovalsInv ==
  /\ RegistryInv
  /\ DisputesAreDated /\ DisputedOnce /\ ProposalsAreBound
  /\ AlternativesLiveInTheirDispute /\ ActionsAreSpent /\ ConsentsAreSigned

-----------------------------------------------------------------------------
(* What a step does to one milestone and its dispute.                      *)

(* Neither dispute nor nonce move, and what is settled stays settled. *)
LeavesDispute(p, i) ==
  /\ dispute'[p][i].active = dispute[p][i].active
  /\ dispute'[p][i].raisedAt = dispute[p][i].raisedAt
  /\ emergencyNonce'[p][i] = emergencyNonce[p][i]
  /\ Exists(p) /\ Settled(p, i) => Settled(p, i)'

RaisesDispute(p, i) ==
  /\ Exists(p) /\ i \in Milestones(p)
  /\ ~dispute[p][i].active /\ ~Settled(p, i)
  /\ dispute'[p][i].active /\ dispute'[p][i].raisedAt = now
  /\ emergencyNonce'[p][i] = emergencyNonce[p][i]

EndsDispute(p, i) ==
  /\ Exists(p) /\ i \in Milestones(p)
  /\ dispute[p][i].active /\ ~dispute'[p][i].active
  /\ emergencyNonce'[p][i] = emergencyNonce[p][i] + 1
  /\ Settled(p, i)'
  /\ \A l \in Legs : /\ alternative'[p][i][l] = NoAddress
                     /\ pendingAlternative'[p][i][l] = NoPending

(* The types of what these steps change. *)
LEMMA StepTypes ==
  ASSUME RegistryInv
  PROVE  /\ now \in Nat /\ projectCount \in 0..MaxProjects
         /\ project \in [Projects -> ProjectType]
         /\ milestone \in [Projects -> [MilestoneIndexes -> MilestoneType]]
         /\ dispute \in [Projects -> [MilestoneIndexes -> DisputeType]]
         /\ actionNonce \in [Projects -> [MilestoneIndexes -> Nat]]
         /\ emergencyNonce \in [Projects -> [MilestoneIndexes -> Nat]]
         /\ emergencyReadyAt \subseteq EmergencyActionType \X Nat
         /\ authorizationNonce \in [Projects -> [Scopes -> [Legs -> Nat]]]
         /\ signedConsents \subseteq ConsentType
         /\ alternative \in [Projects -> [MilestoneIndexes -> [Legs -> Addresses]]]
         /\ pendingAlternative \in
              [Projects -> [MilestoneIndexes -> [Legs -> PendingType]]]
BY DEF RegistryInv, ProjectsOK, ProjectsTypeOK, NoncesTypeOK, RecipientsTypeOK

(* A milestone in dispute or in review is not settled. *)
LEMMA OpenIsUnsettled ==
  ASSUME RegistryInv, NEW p, Exists(p), NEW i \in Milestones(p)
  PROVE  /\ dispute[p][i].active => ~Settled(p, i)
         /\ i \in MilestoneIndexes
<1>1. /\ Sound(project[p], milestone[p], dispute[p]) /\ i \in MilestoneIndexes
      /\ i \in 0..(project[p].plan.milestoneCount - 1)
      /\ project[p].settledMilestoneCount \in Nat
  BY ProjectFacts DEF RegistryInv, Milestones, ProjectType
<1> QED
  BY <1>1 DEF Sound, InOrder, Settled

(* The shared part of resolveDispute, resolveStaleDisputeByTimeout and      *)
(* emergencyResolveDispute ends one dispute and leaves all others.          *)
LEMMA SettleDisputeEnds ==
  ASSUME RegistryInv, NEW q \in Projects, NEW j \in MilestoneIndexes,
         NEW f, NEW a, NEW b, SettleDispute(q, j, f, a, b),
         Exists(q), j \in Milestones(q), dispute[q][j].active,
         NEW m \in MilestoneType, m.status \in {"Released", "Refunded"},
         milestone' = [milestone EXCEPT ![q][j] = m],
         NEW p \in Projects, NEW i \in MilestoneIndexes
  PROVE  /\ p = q /\ i = j => EndsDispute(p, i)
         /\ ~(p = q /\ i = j) => LeavesDispute(p, i)
<1>1. /\ dispute' = [dispute EXCEPT ![q][j] = NoDispute]
      /\ emergencyNonce' = [emergencyNonce EXCEPT ![q][j] = @ + 1]
      /\ alternative' = [alternative EXCEPT ![q][j] = [l \in Legs |-> NoAddress]]
      /\ pendingAlternative' = [pendingAlternative EXCEPT ![q][j] = [l \in Legs |-> NoPending]]
  BY DEF SettleDispute, ClearAlternatives
<1>2. CASE p = q /\ i = j
  <2>1. dispute'[p][i] = NoDispute /\ emergencyNonce'[p][i] = emergencyNonce[p][i] + 1
    BY <1>1, <1>2, StepTypes
  <2>2. milestone'[p][i] = m
    BY <1>2, StepTypes
  <2>3. \A l \in Legs : alternative'[p][i][l] = NoAddress
    BY <1>1, <1>2, StepTypes
  <2>4. \A l \in Legs : pendingAlternative'[p][i][l] = NoPending
    BY <1>1, <1>2, StepTypes
  <2> QED
    BY <1>2, <2>1, <2>2, <2>3, <2>4 DEF EndsDispute, NoDispute, Settled
<1>3. CASE ~(p = q /\ i = j)
  <2>1. dispute'[p][i] = dispute[p][i] /\ milestone'[p][i] = milestone[p][i]
    BY <1>1, <1>3, StepTypes
  <2>2. emergencyNonce'[p][i] = emergencyNonce[p][i]
    BY <1>1, <1>3, StepTypes
  <2> QED
    BY <1>3, <2>1, <2>2 DEF LeavesDispute, Settled
<1> QED
  BY <1>2, <1>3

(* The steps that are about roles, tokens, recipients, votes or time leave  *)
(* every milestone and every dispute alone.                                 *)
LEMMA StepsBesideProjects ==
  ASSUME AdminStep \/ RecipientStep \/ EnvironmentStep \/ UNCHANGED vars
  PROVE  UNCHANGED <<projectCount, project, milestone, dispute, tokenOutstanding,
                     emergencyNonce, emergencyReadyAt>>
<1>1. CASE AdminStep
  <2>1. CASE ChangeRoles
    BY <2>1 DEF ChangeRoles, projectVars, nonceVars
  <2>2. ASSUME NEW c, Pause(c) \/ Unpause(c)
        PROVE  UNCHANGED <<projectVars, nonceVars>>
    BY <2>2 DEF Pause, Unpause
  <2>3. ASSUME NEW c, NEW t, NEW allowed,
               AttestTokenReviewForAllowlist(c, t) \/ SetAllowedToken(c, t, allowed)
        PROVE  UNCHANGED <<projectVars, nonceVars>>
    BY <2>3 DEF AttestTokenReviewForAllowlist, SetAllowedToken
  <2>4. ASSUME NEW c, NEW t, NEW to, NEW amount, SweepUntrackedToken(c, t, to, amount)
        PROVE  UNCHANGED <<projectVars, nonceVars>>
    BY <2>4 DEF SweepUntrackedToken
  <2> QED
    BY <1>1, <2>1, <2>2, <2>3, <2>4 DEF AdminStep, projectVars, nonceVars
<1>2. CASE RecipientStep
  <2>1. ASSUME NEW c, NEW p, NEW s, NEW l, NEW new, SetPartyAuthorizedRecipient(c, p, s, l, new)
        PROVE  UNCHANGED <<projectVars, nonceVars>>
    BY <2>1 DEF SetPartyAuthorizedRecipient
  <2>2. ASSUME NEW c, NEW p, NEW s, NEW l, NEW new, SetAlternativeRecipient(c, p, s, l, new)
        PROVE  UNCHANGED <<projectVars, emergencyNonce, emergencyReadyAt>>
    BY <2>2 DEF SetAlternativeRecipient
  <2>3. ASSUME NEW c, NEW p, NEW s, NEW l, NEW new, NEW nonce, NEW deadline,
               SignRecipientConsent(c, p, s, l, new, nonce, deadline)
        PROVE  UNCHANGED <<projectVars, nonceVars>>
    BY <2>3 DEF SignRecipientConsent
  <2>4. ASSUME NEW c, NEW p, NEW i, NEW l, ExecuteAlternativeRecipient(c, p, i, l)
        PROVE  UNCHANGED <<projectVars, nonceVars>>
    BY <2>4 DEF ExecuteAlternativeRecipient
  <2>5. ASSUME NEW consent, SetPartyAuthorizedRecipientBySig(consent)
        PROVE  UNCHANGED <<projectVars, nonceVars>>
    BY <2>5 DEF SetPartyAuthorizedRecipientBySig
  <2> QED
    BY <1>2, <2>1, <2>2, <2>3, <2>4, <2>5 DEF RecipientStep, projectVars, nonceVars
<1>3. CASE EnvironmentStep
  <2>1. CASE Tick
    BY <2>1 DEF Tick, projectVars, nonceVars
  <2>2. ASSUME NEW a, NEW t, NEW amount, StrayTransfer(a, t, amount)
        PROVE  UNCHANGED <<projectVars, nonceVars>>
    BY <2>2 DEF StrayTransfer
  <2>3. ASSUME NEW a, NEW t, NEW b, SetBlocked(t, a, b)
        PROVE  UNCHANGED <<projectVars, nonceVars>>
    BY <2>3 DEF SetBlocked
  <2> QED
    BY <1>3, <2>1, <2>2, <2>3 DEF EnvironmentStep, projectVars, nonceVars
<1>4. CASE UNCHANGED vars
  BY <1>4 DEF vars, projectVars, nonceVars
<1> QED
  BY <1>1, <1>2, <1>3, <1>4

(* What a vote or a proposal changes is not the dispute itself. *)
LEMMA ProposingSteps ==
  ASSUME NEW c, NEW p, NEW i, NEW r,
         \/ VoteOnDispute(c, p, i, r) \/ ProposeEmergencyResolveDispute(c, p, i, r)
         \/ CancelEmergencyResolveDispute(c, p, i, r)
  PROVE  UNCHANGED <<now, projectCount, project, milestone, dispute, emergencyNonce,
                     tokenOutstanding, balance>>
BY DEF VoteOnDispute, ProposeEmergencyResolveDispute, CancelEmergencyResolveDispute,
       projectVars, nonceVars, tokenVars

(* The three calls that settle a disputed milestone. *)
Resolves(c, p, i, r) ==
  \/ ResolveDispute(c, p, i, r) \/ EmergencyResolveDispute(c, p, i, r)
  \/ ResolveStaleDisputeByTimeout(c, p, i)

LEMMA ResolvingEnds ==
  ASSUME RegistryInv, NEW c, NEW q \in Projects, NEW j \in MilestoneIndexes, NEW r,
         Resolves(c, q, j, r), NEW p \in Projects, NEW i \in MilestoneIndexes
  PROVE  /\ p = q /\ i = j => EndsDispute(p, i)
         /\ ~(p = q /\ i = j) => LeavesDispute(p, i)
<1>1. /\ Exists(q) /\ j \in Milestones(q) /\ dispute[q][j].active
  BY DEF Resolves, ResolveDispute, EmergencyResolveDispute, ResolveStaleDisputeByTimeout,
     Operable, ValidEmergency, DisputeTimedOut
<1>2. CASE ResolveDispute(c, q, j, r) \/ EmergencyResolveDispute(c, q, j, r)
  <2> DEFINE m == [status |-> SettledStatus(r.kind), reviewEnteredAt |-> 0]
             f == LegRecipient(q, j, "freelancer", project[q].freelancer)
  <2>1. /\ SettleDispute(q, j, f, r.freelancerAmount, r.clientAmount)
        /\ milestone' = [milestone EXCEPT ![q][j] = m]
    BY <1>2 DEF ResolveDispute, EmergencyResolveDispute
  <2>2. m \in MilestoneType /\ m.status \in {"Released", "Refunded"}
    BY DEF SettledStatus, MilestoneType, MilestoneStatuses
  <2> HIDE DEF m, f
  <2> QED
    BY <1>1, <2>1, <2>2, SettleDisputeEnds
<1>3. CASE ResolveStaleDisputeByTimeout(c, q, j)
  <2> DEFINE m == [milestone[q][j] EXCEPT !.status = "Refunded"]
  <2>1. /\ SettleDispute(q, j, NoAddress, 0, Amount(q, j))
        /\ milestone' = [milestone EXCEPT ![q][j] = m]
    BY <1>3, StepTypes DEF ResolveStaleDisputeByTimeout
  <2>2. m \in MilestoneType /\ m.status \in {"Released", "Refunded"}
    <3>1. milestone[q][j] \in MilestoneType
      BY StepTypes
    <3> QED
      BY <3>1 DEF MilestoneType, MilestoneStatuses
  <2> HIDE DEF m
  <2> QED
    BY <1>1, <2>1, <2>2, SettleDisputeEnds
<1> QED
  BY <1>2, <1>3 DEF Resolves

(* What the parties agreed on when the project was created stays. *)
KeepsAgreement(p) ==
  Exists(p) =>
    /\ Exists(p)'
    /\ project'[p].client = project[p].client
    /\ project'[p].freelancer = project[p].freelancer
    /\ project'[p].token = project[p].token
    /\ project'[p].plan = project[p].plan

DisputeStep(p, i) == LeavesDispute(p, i) \/ RaisesDispute(p, i) \/ EndsDispute(p, i)

(* A step that changes at most one record of a project, and no more of it   *)
(* than its accounts.                                                       *)
LEMMA AgreementKept ==
  ASSUME RegistryInv, NEW p \in Projects, NEW q \in Projects, NEW new,
         new.client = project[q].client, new.freelancer = project[q].freelancer,
         new.token = project[q].token, new.plan = project[q].plan,
         project' = [project EXCEPT ![q] = new], projectCount' = projectCount
  PROVE  KeepsAgreement(p)
<1>1. project'[p] = IF p = q THEN new ELSE project[p]
  BY StepTypes
<1> QED
  BY <1>1 DEF KeepsAgreement, Exists

(* _refreshProjectStatus is not about the agreement. *)
LEMMA RefreshedAgreement ==
  ASSUME NEW base \in ProjectType
  PROVE  /\ Refreshed(base).client = base.client
         /\ Refreshed(base).freelancer = base.freelancer
         /\ Refreshed(base).token = base.token /\ Refreshed(base).plan = base.plan
BY DEF Refreshed, ProjectType

(* createProject *)
LEMMA CreateProjectStep ==
  ASSUME RegistryInv, NEW c, NEW f, NEW t, NEW plan, CreateProject(c, f, t, plan),
         NEW p \in Projects, NEW i \in MilestoneIndexes
  PROVE  KeepsAgreement(p) /\ LeavesDispute(p, i)
<1>1. /\ UNCHANGED <<dispute, emergencyNonce>> /\ projectCount' = projectCount + 1
      /\ \E new : project' = [project EXCEPT ![projectCount + 1] = new]
      /\ \E new : milestone' = [milestone EXCEPT ![projectCount + 1] = new]
  BY DEF CreateProject, nonceVars
<1>2. Exists(p) => p # projectCount + 1 /\ Exists(p)'
  BY <1>1, StepTypes DEF Exists
<1>3. Exists(p) => project'[p] = project[p] /\ milestone'[p] = milestone[p]
  BY <1>1, <1>2, StepTypes
<1> QED
  BY <1>1, <1>2, <1>3 DEF KeepsAgreement, LeavesDispute, Settled

(* fundProject *)
LEMMA FundProjectStep ==
  ASSUME RegistryInv, NEW c, NEW q \in Projects, NEW amount, FundProject(c, q, amount),
         NEW p \in Projects, NEW i \in MilestoneIndexes
  PROVE  KeepsAgreement(p) /\ LeavesDispute(p, i)
<1> DEFINE new == [project[q] EXCEPT !.fundedAmount = @ + amount]
<1>1. /\ UNCHANGED <<dispute, emergencyNonce, milestone, projectCount>>
      /\ project' = [project EXCEPT ![q] = new]
  BY StepTypes DEF FundProject, nonceVars
<1>2. project[q] \in ProjectType
  BY StepTypes
<1>3. /\ new.client = project[q].client /\ new.freelancer = project[q].freelancer
      /\ new.token = project[q].token /\ new.plan = project[q].plan
  BY <1>2 DEF ProjectType
<1> HIDE DEF new
<1> QED
  BY <1>1, <1>3, AgreementKept DEF LeavesDispute, Settled

(* submitMilestone, approveMilestone *)
LEMMA DeliveryStep ==
  ASSUME RegistryInv, NEW c, NEW q \in Projects, NEW j \in MilestoneIndexes,
         SubmitMilestone(c, q, j) \/ ApproveMilestone(c, q, j),
         NEW p \in Projects, NEW i \in MilestoneIndexes
  PROVE  KeepsAgreement(p) /\ LeavesDispute(p, i)
<1>1. /\ UNCHANGED <<dispute, emergencyNonce, project, projectCount>>
      /\ ~Settled(q, j) /\ \E m : milestone' = [milestone EXCEPT ![q][j] = m]
  <2>1. CASE SubmitMilestone(c, q, j)
    BY <2>1 DEF SubmitMilestone, nonceVars, Settled
  <2>2. CASE ApproveMilestone(c, q, j)
    <3>1. milestone' = [milestone EXCEPT ![q][j] = [@ EXCEPT !.status = "Approved"]]
      BY <2>2, StepTypes DEF ApproveMilestone
    <3> QED
      BY <2>2, <3>1 DEF ApproveMilestone, nonceVars, Settled
  <2> QED
    BY <2>1, <2>2
<1>2. Settled(p, i) => milestone'[p][i] = milestone[p][i]
  BY <1>1, StepTypes DEF Settled
<1> QED
  BY <1>1, <1>2 DEF KeepsAgreement, LeavesDispute, Settled, Exists

(* releaseMilestone *)
LEMMA ReleaseStep ==
  ASSUME RegistryInv, NEW c, NEW q \in Projects, NEW j \in MilestoneIndexes,
         ReleaseMilestone(c, q, j), NEW p \in Projects, NEW i \in MilestoneIndexes
  PROVE  KeepsAgreement(p) /\ LeavesDispute(p, i)
<1> DEFINE m == [status |-> "Released", reviewEnteredAt |-> 0]
           base == [project[q] EXCEPT !.releasedAmount = @ + Amount(q, j),
                                      !.settledMilestoneCount = @ + 1]
           new == Refreshed(base)
<1>1. /\ UNCHANGED <<dispute, emergencyNonce, projectCount>>
      /\ milestone' = [milestone EXCEPT ![q][j] = m]
      /\ project' = [project EXCEPT ![q] = new]
      /\ Exists(q) /\ j \in Milestones(q)
  BY DEF ReleaseMilestone, nonceVars, Operable
<1>2. /\ project[q] \in ProjectType /\ Amount(q, j) \in Nat
      /\ project[q].releasedAmount \in Nat /\ project[q].settledMilestoneCount \in Nat
  BY <1>1, ProjectFacts DEF RegistryInv, ProjectType
<1>3. /\ base \in ProjectType
      /\ base.client = project[q].client /\ base.freelancer = project[q].freelancer
      /\ base.token = project[q].token /\ base.plan = project[q].plan
  <2>1. /\ project[q].releasedAmount + Amount(q, j) \in Nat
        /\ project[q].settledMilestoneCount + 1 \in Nat
    BY <1>2
  <2> QED
    BY <1>2, <2>1 DEF ProjectType
<1> HIDE DEF base
<1>4. /\ new.client = project[q].client /\ new.freelancer = project[q].freelancer
      /\ new.token = project[q].token /\ new.plan = project[q].plan
  BY <1>3, RefreshedAgreement
<1>5. Settled(p, i) => Settled(p, i)'
  BY <1>1, StepTypes DEF Settled
<1> HIDE DEF new
<1> QED
  BY <1>1, <1>4, <1>5, AgreementKept DEF LeavesDispute

(* raiseDispute *)
LEMMA RaiseStep ==
  ASSUME RegistryInv, NEW c, NEW q \in Projects, NEW j \in MilestoneIndexes,
         RaiseDispute(c, q, j), NEW p \in Projects, NEW i \in MilestoneIndexes
  PROVE  /\ KeepsAgreement(p)
         /\ p = q /\ i = j => RaisesDispute(p, i)
         /\ ~(p = q /\ i = j) => LeavesDispute(p, i)
<1> DEFINE new == [project[q] EXCEPT !.activeDisputeCount = @ + 1,
                                     !.reservedAmount = @ + Amount(q, j),
                                     !.status = "Disputed"]
           d == [dispute[q][j] EXCEPT !.active = TRUE, !.raisedAt = now]
<1>1. /\ UNCHANGED <<milestone, emergencyNonce, projectCount>>
      /\ project' = [project EXCEPT ![q] = new]
      /\ Exists(q) /\ j \in Milestones(q)
      /\ ~dispute[q][j].active /\ ~Settled(q, j)
  BY DEF RaiseDispute, nonceVars, Operable, Settled
<1>2. dispute' = [dispute EXCEPT ![q][j] = d]
  BY StepTypes DEF RaiseDispute
<1>3. /\ new.client = project[q].client /\ new.freelancer = project[q].freelancer
      /\ new.token = project[q].token /\ new.plan = project[q].plan
  BY StepTypes DEF ProjectType
<1>4. d.active /\ d.raisedAt = now
  BY StepTypes DEF DisputeType
<1> HIDE DEF new, d
<1>5. KeepsAgreement(p)
  BY <1>1, <1>3, AgreementKept
<1>6. dispute'[p][i] = IF p = q /\ i = j THEN d ELSE dispute[p][i]
  BY <1>2, StepTypes
<1> QED
  BY <1>1, <1>4, <1>5, <1>6 DEF LeavesDispute, RaisesDispute, Settled

(* appendDisputeEvidence *)
LEMMA AppendStep ==
  ASSUME RegistryInv, NEW c, NEW q \in Projects, NEW j \in MilestoneIndexes,
         AppendDisputeEvidence(c, q, j), NEW p \in Projects, NEW i \in MilestoneIndexes
  PROVE  KeepsAgreement(p) /\ LeavesDispute(p, i)
<1>1. /\ UNCHANGED <<milestone, emergencyNonce, project, projectCount>>
      /\ dispute' = [dispute EXCEPT ![q][j] = [dispute[q][j] EXCEPT !.evidence = TRUE]]
  BY StepTypes DEF AppendDisputeEvidence, nonceVars
<1>2. /\ dispute'[p][i].active = dispute[p][i].active
      /\ dispute'[p][i].raisedAt = dispute[p][i].raisedAt
  BY <1>1, StepTypes DEF DisputeType
<1> QED
  BY <1>1, <1>2 DEF KeepsAgreement, LeavesDispute, Settled, Exists

(* The three calls that settle a disputed milestone keep the agreement. *)
LEMMA SettleDisputeAgreement ==
  ASSUME RegistryInv, NEW q \in Projects, NEW j \in MilestoneIndexes,
         Exists(q), j \in Milestones(q),
         NEW f, NEW a \in Nat, NEW b \in Nat, SettleDispute(q, j, f, a, b),
         projectCount' = projectCount, NEW p \in Projects
  PROVE  KeepsAgreement(p)
<1> DEFINE base == [project[q] EXCEPT !.activeDisputeCount = @ - 1,
                                      !.reservedAmount = @ - Amount(q, j),
                                      !.releasedAmount = @ + a,
                                      !.refundedAmount = @ + b,
                                      !.settledMilestoneCount = @ + 1]
           new == Refreshed(base)
<1>1. project' = [project EXCEPT ![q] = new]
  BY DEF SettleDispute
<1>2. /\ project[q] \in ProjectType /\ Amount(q, j) \in Nat
      /\ project[q].activeDisputeCount \in Nat /\ project[q].reservedAmount \in Nat
      /\ project[q].releasedAmount \in Nat /\ project[q].refundedAmount \in Nat
      /\ project[q].settledMilestoneCount \in Nat
      /\ project[q].activeDisputeCount >= 1 /\ project[q].reservedAmount >= Amount(q, j)
  BY ProjectFacts DEF RegistryInv, ProjectType, SettleDispute
<1>3. /\ base \in ProjectType
      /\ base.client = project[q].client /\ base.freelancer = project[q].freelancer
      /\ base.token = project[q].token /\ base.plan = project[q].plan
  <2>1. /\ project[q].activeDisputeCount - 1 \in Nat
        /\ project[q].reservedAmount - Amount(q, j) \in Nat
        /\ project[q].releasedAmount + a \in Nat /\ project[q].refundedAmount + b \in Nat
        /\ project[q].settledMilestoneCount + 1 \in Nat
    BY <1>2
  <2> QED
    BY <1>2, <2>1 DEF ProjectType
<1> HIDE DEF base
<1>4. /\ new.client = project[q].client /\ new.freelancer = project[q].freelancer
      /\ new.token = project[q].token /\ new.plan = project[q].plan
  BY <1>3, RefreshedAgreement
<1> HIDE DEF new
<1> QED
  BY <1>1, <1>4, AgreementKept

LEMMA ResolvingStep ==
  ASSUME RegistryInv, NEW c, NEW q \in Projects, NEW j \in MilestoneIndexes,
         NEW r \in Resolutions, Resolves(c, q, j, r),
         NEW p \in Projects, NEW i \in MilestoneIndexes
  PROVE  /\ KeepsAgreement(p)
         /\ p = q /\ i = j => EndsDispute(p, i)
         /\ ~(p = q /\ i = j) => LeavesDispute(p, i)
<1>1. /\ Operable(q) /\ Exists(q) /\ j \in Milestones(q) /\ projectCount' = projectCount
  BY DEF Resolves, ResolveDispute, EmergencyResolveDispute, ResolveStaleDisputeByTimeout,
     Operable, ValidEmergency
<1>2. CASE ResolveDispute(c, q, j, r) \/ EmergencyResolveDispute(c, q, j, r)
  <2> DEFINE f == LegRecipient(q, j, "freelancer", project[q].freelancer)
  <2>1. /\ SettleDispute(q, j, f, r.freelancerAmount, r.clientAmount)
        /\ ValidAmounts(r, Amount(q, j))
    BY <1>2 DEF ResolveDispute, EmergencyResolveDispute, ValidEmergency
  <2> HIDE DEF f
  <2> QED
    BY <1>1, <2>1, ResolutionFacts, SettleDisputeAgreement, ResolvingEnds
<1>3. CASE ResolveStaleDisputeByTimeout(c, q, j)
  <2>1. SettleDispute(q, j, NoAddress, 0, Amount(q, j)) /\ Amount(q, j) \in Nat
    BY <1>1, <1>3, ProjectFacts DEF ResolveStaleDisputeByTimeout, RegistryInv
  <2> QED
    BY <1>1, <2>1, SettleDisputeAgreement, ResolvingEnds
<1> QED
  BY <1>2, <1>3 DEF Resolves

(* cancelProject: the disputes it closes are the ones that had timed out. *)
LEMMA CancelStep ==
  ASSUME RegistryInv, NEW c, NEW q \in Projects, CancelProject(c, q),
         NEW p \in Projects, NEW i \in MilestoneIndexes
  PROVE  /\ KeepsAgreement(p)
         /\ p = q /\ i \in StaleDisputes(q) => EndsDispute(p, i)
         /\ ~(p = q /\ i \in StaleDisputes(q)) => LeavesDispute(p, i)
<1> DEFINE stale == StaleDisputes(q)
           due == DueReviews(q)
           closed == stale \cup due \cup Untouched(q)
           ms(x) == IF x \in due THEN [status |-> "Released", reviewEnteredAt |-> 0]
                    ELSE IF x \in stale THEN [status |-> "Refunded", reviewEnteredAt |-> 0]
                    ELSE IF x \in closed THEN [milestone[q][x] EXCEPT !.status = "Refunded"]
                    ELSE milestone[q][x]
<1>1. Exists(q) /\ projectCount' = projectCount
  BY DEF CancelProject, Operable
<1>2. milestone' = [milestone EXCEPT ![q] = [x \in MilestoneIndexes |-> ms(x)]]
  BY StepTypes DEF CancelProject
<1>3. /\ dispute' = [dispute EXCEPT ![q] =
           [x \in MilestoneIndexes |-> IF x \in stale THEN NoDispute ELSE dispute[q][x]]]
      /\ emergencyNonce' = [emergencyNonce EXCEPT ![q] =
           [x \in MilestoneIndexes |->
              IF x \in stale THEN emergencyNonce[q][x] + 1 ELSE emergencyNonce[q][x]]]
  BY StepTypes DEF CancelProject
<1>4. /\ alternative' = [alternative EXCEPT ![q] = [x \in MilestoneIndexes |->
           IF x \in stale THEN [l \in Legs |-> NoAddress] ELSE alternative[q][x]]]
      /\ pendingAlternative' = [pendingAlternative EXCEPT ![q] = [x \in MilestoneIndexes |->
           IF x \in stale THEN [l \in Legs |-> NoPending] ELSE pendingAlternative[q][x]]]
  BY StepTypes DEF CancelProject, ClearAlternativesOf
<1>5. KeepsAgreement(p)
  <2>1. PICK a, b, d, e, f : project' = [project EXCEPT ![q] =
          [project[q] EXCEPT !.activeDisputeCount = a, !.reservedAmount = b,
                             !.releasedAmount = d, !.refundedAmount = e,
                             !.settledMilestoneCount = f, !.status = "Cancelled"]]
    BY Zenon DEF CancelProject
  <2> DEFINE new == [project[q] EXCEPT !.activeDisputeCount = a, !.reservedAmount = b,
                             !.releasedAmount = d, !.refundedAmount = e,
                             !.settledMilestoneCount = f, !.status = "Cancelled"]
  <2>2. /\ new.client = project[q].client /\ new.freelancer = project[q].freelancer
        /\ new.token = project[q].token /\ new.plan = project[q].plan
    BY StepTypes DEF ProjectType
  <2> HIDE DEF new
  <2>3. project' = [project EXCEPT ![q] = new]
    BY <2>1 DEF new
  <2> QED
    BY <1>1, <2>2, <2>3, AgreementKept
<1>6. CASE p = q /\ i \in stale
  <2>1. i \in Milestones(q) /\ dispute[q][i].active /\ milestone[q][i].status # "Submitted"
    BY <1>6, OpenIsUnsettled DEF StaleDisputes, CancelProject, CancelMayClose
  <2>2. i \notin due
    BY <2>1 DEF DueReviews
  <2> HIDE DEF stale, due, closed
  <2>3. milestone'[p][i].status = "Refunded"
    BY <1>2, <1>6, <2>2, StepTypes
  <2>4. dispute'[p][i] = NoDispute /\ emergencyNonce'[p][i] = emergencyNonce[p][i] + 1
    BY <1>3, <1>6, StepTypes
  <2>5. /\ alternative'[p][i] = [l \in Legs |-> NoAddress]
        /\ pendingAlternative'[p][i] = [l \in Legs |-> NoPending]
    BY <1>4, <1>6, StepTypes
  <2> QED
    BY <1>1, <1>5, <1>6, <2>1, <2>3, <2>4, <2>5 DEF stale, EndsDispute, NoDispute, Settled
<1>7. CASE ~(p = q /\ i \in stale)
  <2>1. \A x \in stale \cup Untouched(q) : ~Settled(q, x) /\ x \in MilestoneIndexes
    BY <1>1, OpenIsUnsettled, ProjectFacts
    DEF StaleDisputes, Untouched, Settled, RegistryInv
  <2>2. \A x \in due : ~Settled(q, x)
    BY DEF DueReviews, Settled
  <2> HIDE DEF stale, due
  <2>3. Settled(p, i) => milestone'[p][i] = milestone[p][i]
    BY <1>2, <2>1, <2>2, StepTypes
  <2>4. dispute'[p][i] = dispute[p][i] /\ emergencyNonce'[p][i] = emergencyNonce[p][i]
    BY <1>3, <1>7, StepTypes
  <2> QED
    BY <1>5, <1>7, <2>3, <2>4 DEF stale, LeavesDispute, Settled
<1> QED
  BY <1>5, <1>6, <1>7

(* emergencyAdminCancel *)
LEMMA AdminCancelStep ==
  ASSUME RegistryInv, NEW c, NEW q \in Projects, EmergencyAdminCancel(c, q),
         NEW p \in Projects, NEW i \in MilestoneIndexes
  PROVE  KeepsAgreement(p) /\ LeavesDispute(p, i)
<1> DEFINE pending == {x \in Milestones(q) : milestone[q][x].status = "Pending"}
           n == Cardinality(pending)
           new == [project[q] EXCEPT !.refundedAmount = @ + FreeLiquidity(q),
                                     !.settledMilestoneCount = @ + n,
                                     !.status = "Cancelled"]
<1>1. /\ UNCHANGED <<dispute, emergencyNonce, projectCount>>
      /\ project' = [project EXCEPT ![q] = new]
  BY DEF EmergencyAdminCancel, nonceVars
<1>2. milestone' = [milestone EXCEPT ![q] = [x \in MilestoneIndexes |->
        IF x \in pending THEN [status |-> "Refunded", reviewEnteredAt |-> 0]
        ELSE milestone[q][x]]]
  BY StepTypes DEF EmergencyAdminCancel
<1>3. /\ new.client = project[q].client /\ new.freelancer = project[q].freelancer
      /\ new.token = project[q].token /\ new.plan = project[q].plan
  BY StepTypes DEF ProjectType
<1>4. Settled(p, i) => milestone'[p][i] = milestone[p][i]
  BY <1>2, StepTypes DEF Settled
<1> HIDE DEF new, pending
<1> QED
  BY <1>1, <1>3, <1>4, AgreementKept DEF LeavesDispute, Settled

(* A transaction leaves a dispute as it is, raises it, or ends it, and      *)
(* leaves what was agreed on.                                               *)
LEMMA EveryDisputeStep ==
  ASSUME RegistryInv, [Next]_vars, NEW p \in Projects, NEW i \in MilestoneIndexes
  PROVE  KeepsAgreement(p) /\ DisputeStep(p, i)
<1>1. CASE UNCHANGED <<projectCount, project, milestone, dispute, emergencyNonce>>
  BY <1>1 DEF KeepsAgreement, DisputeStep, LeavesDispute, Exists, Settled
<1>2. CASE AdminStep \/ RecipientStep \/ EnvironmentStep \/ UNCHANGED vars
  BY <1>1, <1>2, StepsBesideProjects
<1>3. CASE ProjectStep
  BY <1>3, CreateProjectStep, FundProjectStep, CancelStep, AdminCancelStep
  DEF ProjectStep, DisputeStep
<1>4. CASE MilestoneStep
  <2>1. ASSUME NEW c \in Accounts, NEW q \in Projects, NEW j \in MilestoneIndexes,
               ResolveStaleDisputeByTimeout(c, q, j)
        PROVE  KeepsAgreement(p) /\ DisputeStep(p, i)
    <3>1. SettleDispute(q, j, NoAddress, 0, Amount(q, j)) /\ Amount(q, j) \in Nat
          /\ Exists(q) /\ j \in Milestones(q) /\ projectCount' = projectCount
      BY <2>1, ProjectFacts DEF ResolveStaleDisputeByTimeout, RegistryInv, Operable
    <3>2. \A r : Resolves(c, q, j, r)
      BY <2>1 DEF Resolves
    <3> QED
      BY <3>1, <3>2, SettleDisputeAgreement, ResolvingEnds DEF DisputeStep
  <2> QED
    BY <1>4, <2>1, DeliveryStep, ReleaseStep, RaiseStep, AppendStep
    DEF MilestoneStep, DisputeStep
<1>5. CASE ResolutionStep
  <2>1. ASSUME NEW c \in Accounts, NEW q \in Projects, NEW j \in MilestoneIndexes,
               NEW r \in Resolutions, ResolveDispute(c, q, j, r) \/ EmergencyResolveDispute(c, q, j, r)
        PROVE  KeepsAgreement(p) /\ DisputeStep(p, i)
    BY <2>1, ResolvingStep DEF Resolves, DisputeStep
  <2> QED
    BY <1>1, <1>5, <2>1, ProposingSteps DEF ResolutionStep
<1> QED
  BY <1>2, <1>3, <1>4, <1>5 DEF Next

-----------------------------------------------------------------------------
(* What a step does to the clock, the proposals, the votes, the recipients  *)
(* and the consents.                                                        *)

LEMMA ClockSteps ==
  ASSUME RegistryInv, [Next]_vars
  PROVE  now' \in Nat /\ now' >= now
<1>1. now \in Nat
  BY StepTypes
<1>2. CASE UNCHANGED now
  BY <1>1, <1>2
<1>3. CASE AdminStep
  BY <1>2, <1>3 DEF AdminStep, ChangeRoles, Pause, Unpause, AttestTokenReviewForAllowlist,
     SetAllowedToken, SweepUntrackedToken
<1>4. CASE ProjectStep
  <2>1. \A c, f, t, plan : CreateProject(c, f, t, plan) => UNCHANGED now
    BY DEF CreateProject
  <2>2. \A c, p, amount : FundProject(c, p, amount) => UNCHANGED now
    BY DEF FundProject
  <2>3. \A c, p : CancelProject(c, p) => UNCHANGED now
    BY DEF CancelProject
  <2>4. \A c, p : EmergencyAdminCancel(c, p) => UNCHANGED now
    BY DEF EmergencyAdminCancel
  <2> QED
    BY <1>2, <1>4, <2>1, <2>2, <2>3, <2>4 DEF ProjectStep
<1>5. CASE MilestoneStep
  BY <1>2, <1>5 DEF MilestoneStep, SubmitMilestone, ApproveMilestone, ReleaseMilestone,
     RaiseDispute, AppendDisputeEvidence, ResolveStaleDisputeByTimeout
<1>6. CASE ResolutionStep
  BY <1>2, <1>6 DEF ResolutionStep, VoteOnDispute, ResolveDispute,
     ProposeEmergencyResolveDispute, CancelEmergencyResolveDispute, EmergencyResolveDispute
<1>7. CASE RecipientStep
  <2>1. ASSUME NEW c, NEW p, NEW s, NEW l, NEW new,
               \/ SetPartyAuthorizedRecipient(c, p, s, l, new)
               \/ SetAlternativeRecipient(c, p, s, l, new)
               \/ ExecuteAlternativeRecipient(c, p, s, l)
        PROVE  UNCHANGED now
    BY <2>1 DEF SetPartyAuthorizedRecipient, SetAlternativeRecipient,
       ExecuteAlternativeRecipient
  <2>2. ASSUME NEW c, NEW p, NEW s, NEW l, NEW new, NEW nonce, NEW deadline,
               SignRecipientConsent(c, p, s, l, new, nonce, deadline)
        PROVE  UNCHANGED now
    BY <2>2 DEF SignRecipientConsent
  <2>3. ASSUME NEW consent, SetPartyAuthorizedRecipientBySig(consent)
        PROVE  UNCHANGED now
    BY <2>3 DEF SetPartyAuthorizedRecipientBySig
  <2> QED
    BY <1>2, <1>7, <2>1, <2>2, <2>3 DEF RecipientStep
<1>8. CASE EnvironmentStep
  <2>1. \A t, a, amount : StrayTransfer(a, t, amount) => UNCHANGED now
    BY DEF StrayTransfer
  <2>2. \A t, a, b : SetBlocked(t, a, b) => UNCHANGED now
    BY DEF SetBlocked
  <2>3. Tick => now' = now + 1
    BY DEF Tick
  <2> QED
    BY <1>1, <1>8, <2>1, <2>2, <2>3 DEF EnvironmentStep
<1>9. CASE UNCHANGED vars
  BY <1>2, <1>9 DEF vars
<1> QED
  BY <1>3, <1>4, <1>5, <1>6, <1>7, <1>8, <1>9 DEF Next

(* Only the admin's three calls touch the proposals; a new one is for the   *)
(* dispute that is open, and waits out the delay.                           *)
LEMMA ProposalSteps ==
  ASSUME RegistryInv, [Next]_vars, NEW e \in emergencyReadyAt', e \notin emergencyReadyAt
  PROVE  \E p \in Projects, i \in MilestoneIndexes, r \in Resolutions :
           /\ e = <<EmergencyAction(p, i, r), now + EMERGENCY_RESOLUTION_DELAY>>
           /\ Exists(p) /\ i \in Milestones(p) /\ dispute[p][i].active
           /\ UNCHANGED <<projectCount, project, milestone, dispute, emergencyNonce>>
<1>1. CASE AdminStep \/ EnvironmentStep \/ RecipientStep \/ UNCHANGED vars
  BY <1>1, StepsBesideProjects
<1>2. CASE ProjectStep
  <2>1. \A c, f, t, plan : CreateProject(c, f, t, plan) => UNCHANGED emergencyReadyAt
    BY DEF CreateProject, nonceVars
  <2>2. \A c, p, amount : FundProject(c, p, amount) => UNCHANGED emergencyReadyAt
    BY DEF FundProject, nonceVars
  <2>3. \A c, p : CancelProject(c, p) => UNCHANGED emergencyReadyAt
    BY DEF CancelProject
  <2>4. \A c, p : EmergencyAdminCancel(c, p) => UNCHANGED emergencyReadyAt
    BY DEF EmergencyAdminCancel, nonceVars
  <2> QED
    BY <1>2, <2>1, <2>2, <2>3, <2>4 DEF ProjectStep
<1>3. CASE MilestoneStep
  BY <1>3 DEF MilestoneStep, SubmitMilestone, ApproveMilestone, ReleaseMilestone,
     RaiseDispute, AppendDisputeEvidence, ResolveStaleDisputeByTimeout, nonceVars
<1>4. CASE ResolutionStep
  <2>1. ASSUME NEW c \in Accounts, NEW p \in Projects, NEW i \in MilestoneIndexes,
               NEW r \in Resolutions
        PROVE  /\ ~VoteOnDispute(c, p, i, r) /\ ~ResolveDispute(c, p, i, r)
               /\ ~CancelEmergencyResolveDispute(c, p, i, r)
               /\ ~EmergencyResolveDispute(c, p, i, r)
    BY DEF VoteOnDispute, ResolveDispute, CancelEmergencyResolveDispute,
       EmergencyResolveDispute, nonceVars
  <2>2. PICK c \in Accounts, p \in Projects, i \in MilestoneIndexes, r \in Resolutions :
          ProposeEmergencyResolveDispute(c, p, i, r)
    BY <1>4, <2>1 DEF ResolutionStep
  <2>3. e = <<EmergencyAction(p, i, r), now + EMERGENCY_RESOLUTION_DELAY>>
    BY <2>2 DEF ProposeEmergencyResolveDispute
  <2> QED
    BY <2>2, <2>3, ProposingSteps
    DEF ProposeEmergencyResolveDispute, ValidEmergency, Operable
<1> QED
  BY <1>1, <1>2, <1>3, <1>4 DEF Next

(* Who may be paid instead of a party, in a dispute: nothing happens to a   *)
(* leg, it is cleared, or an open dispute gets a proposal (which waits out  *)
(* its delay) or the execution of one.                                      *)
SameAlternative(p, i, l) ==
  /\ alternative'[p][i][l] = alternative[p][i][l]
  /\ pendingAlternative'[p][i][l] = pendingAlternative[p][i][l]
NoAlternative(p, i, l) ==
  /\ alternative[p][i][l] = NoAddress
  /\ pendingAlternative[p][i][l] = NoPending
AlternativeMoves(p, i, l) ==
  /\ dispute[p][i].active /\ UNCHANGED dispute
  /\ \/ pendingAlternative'[p][i][l] = NoPending
     \/ pendingAlternative'[p][i][l].executableAfter = now + ALTERNATIVE_RECIPIENT_DELAY

AlternativeStep(p, i, l) ==
  SameAlternative(p, i, l) \/ NoAlternative(p, i, l)' \/ AlternativeMoves(p, i, l)

LEMMA SetAlternativeStep ==
  ASSUME RegistryInv, NEW c, NEW q \in Projects, NEW j \in MilestoneIndexes,
         NEW k \in Legs, NEW new, SetAlternativeRecipient(c, q, j, k, new),
         NEW p \in Projects, NEW i \in MilestoneIndexes, NEW l \in Legs
  PROVE  AlternativeStep(p, i, l)
<1>1. dispute[q][j].active /\ UNCHANGED dispute
  BY DEF SetAlternativeRecipient, projectVars
<1>2. CASE UNCHANGED alternativeVars
  BY <1>2 DEF alternativeVars, AlternativeStep, SameAlternative
<1>3. CASE ProposeAlternative(q, j, k, new)
  <2> DEFINE proposal == [recipient |-> new,
                          executableAfter |-> now + ALTERNATIVE_RECIPIENT_DELAY]
  <2>1. CASE new = NoAddress
    <3>1. /\ alternative' = [alternative EXCEPT ![q][j][k] = NoAddress]
          /\ pendingAlternative' = [pendingAlternative EXCEPT ![q][j][k] = NoPending]
      BY <1>3, <2>1 DEF ProposeAlternative
    <3> QED
      BY <3>1, StepTypes DEF AlternativeStep, SameAlternative, NoAlternative
  <2>2. CASE new # NoAddress
    <3>1. /\ pendingAlternative' = [pendingAlternative EXCEPT ![q][j][k] = proposal]
          /\ UNCHANGED alternative
      BY <1>3, <2>2 DEF ProposeAlternative
    <3>2. proposal.executableAfter = now + ALTERNATIVE_RECIPIENT_DELAY
      OBVIOUS
    <3> HIDE DEF proposal
    <3> QED
      BY <1>1, <3>1, <3>2, StepTypes DEF AlternativeStep, SameAlternative, AlternativeMoves
  <2> QED
    BY <2>1, <2>2
<1> QED
  BY <1>2, <1>3 DEF SetAlternativeRecipient

LEMMA ExecuteAlternativeStep ==
  ASSUME RegistryInv, NEW c, NEW q \in Projects, NEW j \in MilestoneIndexes,
         NEW k \in Legs, ExecuteAlternativeRecipient(c, q, j, k),
         NEW p \in Projects, NEW i \in MilestoneIndexes, NEW l \in Legs
  PROVE  AlternativeStep(p, i, l)
<1>1. /\ dispute[q][j].active /\ UNCHANGED dispute
      /\ \E a : alternative' = [alternative EXCEPT ![q][j][k] = a]
      /\ pendingAlternative' = [pendingAlternative EXCEPT ![q][j][k] = NoPending]
  BY DEF ExecuteAlternativeRecipient, ExecuteAlternative, projectVars
<1> QED
  BY <1>1, StepTypes DEF AlternativeStep, SameAlternative, AlternativeMoves

(* The recipients change in five kinds of steps. *)
LEMMA AlternativeSteps ==
  ASSUME RegistryInv, [Next]_vars,
         NEW p \in Projects, NEW i \in MilestoneIndexes, NEW l \in Legs
  PROVE  AlternativeStep(p, i, l)
<1>1. CASE UNCHANGED alternativeVars
  BY <1>1 DEF alternativeVars, AlternativeStep, SameAlternative
<1>2. CASE AdminStep
  <2>1. UNCHANGED recipientVars
    BY <1>2 DEF AdminStep, ChangeRoles, Pause, Unpause, AttestTokenReviewForAllowlist,
       SetAllowedToken, SweepUntrackedToken
  <2> QED
    BY <1>1, <2>1 DEF recipientVars, alternativeVars
<1>3. CASE EnvironmentStep \/ UNCHANGED vars
  <2>1. \A t, a, amount : StrayTransfer(a, t, amount) => UNCHANGED recipientVars
    BY DEF StrayTransfer
  <2>2. \A t, a, b : SetBlocked(t, a, b) => UNCHANGED recipientVars
    BY DEF SetBlocked
  <2>3. Tick \/ UNCHANGED vars => UNCHANGED recipientVars
    BY DEF Tick, vars
  <2> QED
    BY <1>1, <1>3, <2>1, <2>2, <2>3 DEF EnvironmentStep, recipientVars, alternativeVars
<1>4. CASE ProjectStep
  <2>1. \A c, f, t, plan : CreateProject(c, f, t, plan) => UNCHANGED recipientVars
    BY DEF CreateProject
  <2>2. \A c, q, amount : FundProject(c, q, amount) => UNCHANGED recipientVars
    BY DEF FundProject
  <2>3. \A c, q : EmergencyAdminCancel(c, q) => UNCHANGED recipientVars
    BY DEF EmergencyAdminCancel
  <2>4. ASSUME NEW c, NEW q \in Projects, CancelProject(c, q)
        PROVE  AlternativeStep(p, i, l)
    <3> DEFINE S == StaleDisputes(q)
    <3>1. ClearAlternativesOf(q, S)
      BY <2>4 DEF CancelProject
    <3> HIDE DEF S
    <3> QED
      BY <3>1, StepTypes
      DEF ClearAlternativesOf, AlternativeStep, SameAlternative, NoAlternative
  <2> QED
    BY <1>1, <1>4, <2>1, <2>2, <2>3, <2>4 DEF ProjectStep, recipientVars, alternativeVars
<1>5. ASSUME NEW q \in Projects, NEW j \in MilestoneIndexes, ClearAlternatives(q, j)
      PROVE  AlternativeStep(p, i, l)
  BY <1>5, StepTypes DEF ClearAlternatives, AlternativeStep, SameAlternative, NoAlternative
<1>6. CASE MilestoneStep
  <2>1. ASSUME NEW c, NEW q, NEW j,
               \/ SubmitMilestone(c, q, j) \/ ApproveMilestone(c, q, j)
               \/ ReleaseMilestone(c, q, j) \/ RaiseDispute(c, q, j)
               \/ AppendDisputeEvidence(c, q, j)
        PROVE  UNCHANGED recipientVars
    BY <2>1 DEF SubmitMilestone, ApproveMilestone, ReleaseMilestone, RaiseDispute,
       AppendDisputeEvidence
  <2>2. \A c, q, j : ResolveStaleDisputeByTimeout(c, q, j) => ClearAlternatives(q, j)
    BY DEF ResolveStaleDisputeByTimeout, SettleDispute
  <2> QED
    BY <1>1, <1>5, <1>6, <2>1, <2>2 DEF MilestoneStep, recipientVars, alternativeVars
<1>7. CASE ResolutionStep
  <2>1. ASSUME NEW c, NEW q, NEW j, NEW r,
               \/ ProposeEmergencyResolveDispute(c, q, j, r)
               \/ CancelEmergencyResolveDispute(c, q, j, r)
               \/ VoteOnDispute(c, q, j, r)
        PROVE  UNCHANGED recipientVars
    BY <2>1 DEF VoteOnDispute, ProposeEmergencyResolveDispute, CancelEmergencyResolveDispute
  <2>2. ASSUME NEW c, NEW q, NEW j, NEW r,
               ResolveDispute(c, q, j, r) \/ EmergencyResolveDispute(c, q, j, r)
        PROVE  ClearAlternatives(q, j)
    BY <2>2 DEF ResolveDispute, EmergencyResolveDispute, SettleDispute
  <2> QED
    BY <1>1, <1>5, <1>7, <2>1, <2>2 DEF ResolutionStep, recipientVars, alternativeVars
<1>8. CASE RecipientStep
  <2>1. \A choice \in RecipientChoices :
          choice[2] \in Legs /\ (choice[1] # ProjectWide => choice[1] \in MilestoneIndexes)
    BY ChoicesAssumption DEF Scopes
  <2>2. ASSUME NEW c, NEW q, NEW s, NEW k, NEW new,
               SetPartyAuthorizedRecipient(c, q, s, k, new)
        PROVE  UNCHANGED alternativeVars
    BY <2>2 DEF SetPartyAuthorizedRecipient
  <2>3. ASSUME NEW c, NEW q, NEW s, NEW k, NEW new, NEW nonce, NEW deadline,
               SignRecipientConsent(c, q, s, k, new, nonce, deadline)
        PROVE  UNCHANGED alternativeVars
    BY <2>3 DEF SignRecipientConsent
  <2>4. \A consent : SetPartyAuthorizedRecipientBySig(consent) => UNCHANGED alternativeVars
    BY DEF SetPartyAuthorizedRecipientBySig
  <2> QED
    BY <1>1, <1>8, <2>1, <2>2, <2>3, <2>4, SetAlternativeStep, ExecuteAlternativeStep
    DEF RecipientStep
<1> QED
  BY <1>2, <1>3, <1>4, <1>6, <1>7, <1>8 DEF Next

(* Action nonces only grow, and an action is executed only with the nonce   *)
(* it was voted under, which is spent in the same step.                     *)
Spends(id) ==
  LET s == id.subject IN
  /\ Exists(s.project) /\ s.milestone \in Milestones(s.project)
  /\ s.project \in Projects /\ s.milestone \in MilestoneIndexes
  /\ s.nonce = actionNonce[s.project][s.milestone]
  /\ actionNonce'[s.project][s.milestone] = s.nonce + 1
  /\ s.domain = "RESOLVE_DISPUTE" => EndsDispute(s.project, s.milestone)

ActionStep ==
  /\ \A p \in Projects, i \in MilestoneIndexes : actionNonce'[p][i] >= actionNonce[p][i]
  /\ \A id \in executedActions' : id \in executedActions \/ Spends(id)

(* What a vote does to the executed actions. *)
LEMMA VoteExecutes ==
  ASSUME NEW c, NEW s, ArbitratorVote(c, s)
  PROVE  /\ executedActions' \subseteq executedActions \cup {ActionId(s)}
         /\ ~QuorumWith(c, s) => executedActions' = executedActions
         /\ ActionId(s).subject = s
BY DEF ArbitratorVote, ConfirmArbitratorAction, ActionId

LEMMA SpendingNonce ==
  ASSUME RegistryInv, NEW q \in Projects, NEW j \in MilestoneIndexes, SpendActionNonce(q, j)
  PROVE  /\ \A p \in Projects, i \in MilestoneIndexes : actionNonce'[p][i] >= actionNonce[p][i]
         /\ actionNonce'[q][j] = actionNonce[q][j] + 1
BY StepTypes DEF SpendActionNonce

LEMMA SetAlternativeSpends ==
  ASSUME RegistryInv, NEW c, NEW q \in Projects, NEW j \in MilestoneIndexes, NEW k, NEW new,
         SetAlternativeRecipient(c, q, j, k, new)
  PROVE  ActionStep
<1> DEFINE s == AlternativeSubject(q, j, k, new)
<1>1. ArbitratorVote(c, s) /\ Exists(q) /\ j \in Milestones(q)
  BY DEF SetAlternativeRecipient
<1>2. /\ s.project = q /\ s.milestone = j /\ s.domain # "RESOLVE_DISPUTE"
      /\ s.nonce = actionNonce[q][j]
  BY DEF AlternativeSubject
<1>3. CASE ~QuorumWith(c, s)
  <2>1. UNCHANGED actionNonce /\ executedActions' = executedActions
    BY <1>1, <1>3, VoteExecutes DEF SetAlternativeRecipient
  <2> QED
    BY <2>1, StepTypes DEF ActionStep
<1>4. CASE QuorumWith(c, s)
  <2>1. SpendActionNonce(q, j)
    BY <1>4 DEF SetAlternativeRecipient
  <2>2. /\ \A p \in Projects, i \in MilestoneIndexes : actionNonce'[p][i] >= actionNonce[p][i]
        /\ actionNonce'[q][j] = actionNonce[q][j] + 1
    BY <2>1, SpendingNonce
  <2> HIDE DEF s
  <2>3. \A id \in executedActions' : id \in executedActions \/ id.subject = s
    BY <1>1, VoteExecutes
  <2> QED
    BY <1>1, <1>2, <2>2, <2>3 DEF ActionStep, Spends
<1> QED
  BY <1>3, <1>4

LEMMA ResolveDisputeSpends ==
  ASSUME RegistryInv, NEW c, NEW q \in Projects, NEW j \in MilestoneIndexes,
         NEW r \in Resolutions, ResolveDispute(c, q, j, r)
  PROVE  ActionStep
<1> DEFINE s == ResolveSubject(q, j, r)
<1>1. /\ ArbitratorVote(c, s) /\ Exists(q) /\ j \in Milestones(q) /\ SpendActionNonce(q, j)
  BY DEF ResolveDispute, Operable
<1>2. s.project = q /\ s.milestone = j /\ s.nonce = actionNonce[q][j]
  BY DEF ResolveSubject
<1>3. EndsDispute(q, j)
  BY ResolvingStep DEF Resolves
<1>4. /\ \A p \in Projects, i \in MilestoneIndexes : actionNonce'[p][i] >= actionNonce[p][i]
      /\ actionNonce'[q][j] = actionNonce[q][j] + 1
  BY <1>1, SpendingNonce
<1> HIDE DEF s
<1>5. \A id \in executedActions' : id \in executedActions \/ id.subject = s
  BY <1>1, VoteExecutes
<1> QED
  BY <1>1, <1>2, <1>3, <1>4, <1>5 DEF ActionStep, Spends

(* Three kinds of steps execute actions or spend their nonces. *)
LEMMA ActionSteps == ASSUME RegistryInv, [Next]_vars PROVE ActionStep
<1>1. CASE UNCHANGED <<executedActions, actionNonce>>
  BY <1>1, StepTypes DEF ActionStep
<1>2. CASE AdminStep
  <2>1. ChangeRoles => UNCHANGED <<executedActions, actionNonce>>
    BY DEF ChangeRoles, RoleStep, GrantRole, RevokeRole, RenounceRole, RemoveFromRole,
       SetArbitratorThreshold, nonceVars
  <2>2. ASSUME NEW c, NEW t, NEW allowed, NEW to, NEW amount,
               \/ Pause(c) \/ Unpause(c) \/ AttestTokenReviewForAllowlist(c, t)
               \/ SetAllowedToken(c, t, allowed) \/ SweepUntrackedToken(c, t, to, amount)
        PROVE  UNCHANGED <<executedActions, actionNonce>>
    BY <2>2 DEF Pause, Unpause, AttestTokenReviewForAllowlist, SetAllowedToken,
       SweepUntrackedToken, multisigVars, nonceVars
  <2> QED
    BY <1>1, <1>2, <2>1, <2>2 DEF AdminStep
<1>3. CASE EnvironmentStep \/ UNCHANGED vars
  <2>1. \A t, a, amount : StrayTransfer(a, t, amount) => UNCHANGED <<multisigVars, nonceVars>>
    BY DEF StrayTransfer
  <2>2. \A t, a, b : SetBlocked(t, a, b) => UNCHANGED <<multisigVars, nonceVars>>
    BY DEF SetBlocked
  <2>3. Tick \/ UNCHANGED vars => UNCHANGED <<multisigVars, nonceVars>>
    BY DEF Tick, vars
  <2> QED
    BY <1>1, <1>3, <2>1, <2>2, <2>3 DEF EnvironmentStep, multisigVars, nonceVars
<1>4. CASE ProjectStep
  <2>1. \A c, f, t, plan : CreateProject(c, f, t, plan) => UNCHANGED <<multisigVars, actionNonce>>
    BY DEF CreateProject, nonceVars
  <2>2. \A c, q, amount : FundProject(c, q, amount) => UNCHANGED <<multisigVars, actionNonce>>
    BY DEF FundProject, nonceVars
  <2>3. \A c, q : EmergencyAdminCancel(c, q) => UNCHANGED <<multisigVars, actionNonce>>
    BY DEF EmergencyAdminCancel, nonceVars
  <2>4. \A c, q : CancelProject(c, q) => UNCHANGED <<multisigVars, actionNonce>>
    BY DEF CancelProject
  <2> QED
    BY <1>1, <1>4, <2>1, <2>2, <2>3, <2>4 DEF ProjectStep, multisigVars
<1>5. CASE MilestoneStep
  <2>1. ASSUME NEW c, NEW q, NEW j,
               \/ SubmitMilestone(c, q, j) \/ ApproveMilestone(c, q, j)
               \/ ReleaseMilestone(c, q, j) \/ RaiseDispute(c, q, j)
               \/ AppendDisputeEvidence(c, q, j) \/ ResolveStaleDisputeByTimeout(c, q, j)
        PROVE  UNCHANGED <<multisigVars, actionNonce>>
    BY <2>1 DEF SubmitMilestone, ApproveMilestone, ReleaseMilestone, RaiseDispute,
       AppendDisputeEvidence, ResolveStaleDisputeByTimeout, nonceVars
  <2> QED
    BY <1>1, <1>5, <2>1 DEF MilestoneStep, multisigVars
<1>6. CASE ResolutionStep
  <2>1. ASSUME NEW c, NEW q, NEW j, NEW r,
               \/ ProposeEmergencyResolveDispute(c, q, j, r)
               \/ CancelEmergencyResolveDispute(c, q, j, r)
        PROVE  UNCHANGED <<multisigVars, actionNonce>>
    BY <2>1 DEF ProposeEmergencyResolveDispute, CancelEmergencyResolveDispute
  <2>2. ASSUME NEW c, NEW q, NEW j, NEW r, VoteOnDispute(c, q, j, r)
        PROVE  UNCHANGED <<executedActions, actionNonce>>
    BY <2>2, VoteExecutes DEF VoteOnDispute, nonceVars
  <2>3. ASSUME NEW c, NEW q \in Projects, NEW j \in MilestoneIndexes, NEW r,
               EmergencyResolveDispute(c, q, j, r)
        PROVE  ActionStep
    <3>1. SpendActionNonce(q, j) /\ UNCHANGED executedActions
      BY <2>3 DEF EmergencyResolveDispute, multisigVars
    <3> QED
      BY <3>1, SpendingNonce DEF ActionStep
  <2> QED
    BY <1>1, <1>6, <2>1, <2>2, <2>3, ResolveDisputeSpends DEF ResolutionStep, multisigVars
<1>7. CASE RecipientStep
  <2>1. \A choice \in RecipientChoices :
          choice[2] \in Legs /\ (choice[1] # ProjectWide => choice[1] \in MilestoneIndexes)
    BY ChoicesAssumption DEF Scopes
  <2>2. ASSUME NEW c, NEW q, NEW s, NEW k, NEW new,
               \/ SetPartyAuthorizedRecipient(c, q, s, k, new)
               \/ ExecuteAlternativeRecipient(c, q, s, k)
        PROVE  UNCHANGED <<multisigVars, actionNonce>>
    BY <2>2 DEF SetPartyAuthorizedRecipient, ExecuteAlternativeRecipient, nonceVars
  <2>3. ASSUME NEW c, NEW q, NEW s, NEW k, NEW new, NEW nonce, NEW deadline,
               SignRecipientConsent(c, q, s, k, new, nonce, deadline)
        PROVE  UNCHANGED <<multisigVars, actionNonce>>
    BY <2>3 DEF SignRecipientConsent, nonceVars
  <2>4. \A consent : SetPartyAuthorizedRecipientBySig(consent) =>
          UNCHANGED <<multisigVars, actionNonce>>
    BY DEF SetPartyAuthorizedRecipientBySig, nonceVars
  <2> QED
    BY <1>1, <1>7, <2>1, <2>2, <2>3, <2>4, SetAlternativeSpends
    DEF RecipientStep, multisigVars
<1> QED
  BY <1>2, <1>3, <1>4, <1>5, <1>6, <1>7 DEF Next

(* Only a relayed consent moves a nonce of a leg: by one, and with a consent *)
(* the party of that leg has signed for that nonce.                          *)
ConsentStep ==
  /\ signedConsents \subseteq signedConsents'
  /\ \/ UNCHANGED authorizationNonce
     \/ \E c \in signedConsents :
          /\ Exists(c.project) /\ c.signer = PartyOf(c.project, c.leg)
          /\ c.nonce = authorizationNonce[c.project][c.scope][c.leg]
          /\ authorizationNonce' =
               [authorizationNonce EXCEPT ![c.project][c.scope][c.leg] = @ + 1]
          /\ UNCHANGED <<projectCount, project>>

LEMMA ConsentSteps == ASSUME RegistryInv, [Next]_vars PROVE ConsentStep
<1>1. CASE UNCHANGED consentVars
  BY <1>1 DEF ConsentStep, consentVars
<1>2. CASE AdminStep
  <2>1. UNCHANGED recipientVars
    BY <1>2 DEF AdminStep, ChangeRoles, Pause, Unpause, AttestTokenReviewForAllowlist,
       SetAllowedToken, SweepUntrackedToken
  <2> QED
    BY <1>1, <2>1 DEF recipientVars, consentVars
<1>3. CASE EnvironmentStep \/ UNCHANGED vars
  <2>1. \A t, a, amount : StrayTransfer(a, t, amount) => UNCHANGED recipientVars
    BY DEF StrayTransfer
  <2>2. \A t, a, b : SetBlocked(t, a, b) => UNCHANGED recipientVars
    BY DEF SetBlocked
  <2>3. Tick \/ UNCHANGED vars => UNCHANGED recipientVars
    BY DEF Tick, vars
  <2> QED
    BY <1>1, <1>3, <2>1, <2>2, <2>3 DEF EnvironmentStep, recipientVars, consentVars
<1>4. CASE ProjectStep
  <2>1. \A c, f, t, plan : CreateProject(c, f, t, plan) => UNCHANGED recipientVars
    BY DEF CreateProject
  <2>2. \A c, q, amount : FundProject(c, q, amount) => UNCHANGED recipientVars
    BY DEF FundProject
  <2>3. \A c, q : EmergencyAdminCancel(c, q) => UNCHANGED recipientVars
    BY DEF EmergencyAdminCancel
  <2>4. \A c, q : CancelProject(c, q) => UNCHANGED consentVars
    BY DEF CancelProject
  <2> QED
    BY <1>1, <1>4, <2>1, <2>2, <2>3, <2>4 DEF ProjectStep, recipientVars, consentVars
<1>5. CASE MilestoneStep
  <2>1. ASSUME NEW c, NEW q, NEW j,
               \/ SubmitMilestone(c, q, j) \/ ApproveMilestone(c, q, j)
               \/ ReleaseMilestone(c, q, j) \/ RaiseDispute(c, q, j)
               \/ AppendDisputeEvidence(c, q, j) \/ ResolveStaleDisputeByTimeout(c, q, j)
        PROVE  UNCHANGED consentVars
    BY <2>1 DEF SubmitMilestone, ApproveMilestone, ReleaseMilestone, RaiseDispute,
       AppendDisputeEvidence, ResolveStaleDisputeByTimeout, recipientVars, consentVars
  <2> QED
    BY <1>1, <1>5, <2>1 DEF MilestoneStep
<1>6. CASE ResolutionStep
  <2>1. ASSUME NEW c, NEW q, NEW j, NEW r,
               \/ ProposeEmergencyResolveDispute(c, q, j, r)
               \/ CancelEmergencyResolveDispute(c, q, j, r)
               \/ VoteOnDispute(c, q, j, r)
               \/ ResolveDispute(c, q, j, r) \/ EmergencyResolveDispute(c, q, j, r)
        PROVE  UNCHANGED consentVars
    BY <2>1 DEF VoteOnDispute, ProposeEmergencyResolveDispute,
       CancelEmergencyResolveDispute, ResolveDispute, EmergencyResolveDispute,
       recipientVars, consentVars
  <2> QED
    BY <1>1, <1>6, <2>1 DEF ResolutionStep
<1>7. CASE RecipientStep
  <2>1. ASSUME NEW c, NEW q, NEW s, NEW k, NEW new,
               SetPartyAuthorizedRecipient(c, q, s, k, new)
        PROVE  ConsentStep
    BY <2>1 DEF SetPartyAuthorizedRecipient, ConsentStep
  <2>2. ASSUME NEW c, NEW q, NEW s, NEW k, NEW new,
               \/ ExecuteAlternativeRecipient(c, q, s, k)
               \/ SetAlternativeRecipient(c, q, s, k, new)
        PROVE  UNCHANGED consentVars
    BY <2>2 DEF SetAlternativeRecipient, ExecuteAlternativeRecipient
  <2>3. ASSUME NEW c, NEW q, NEW s, NEW k, NEW new, NEW nonce, NEW deadline,
               SignRecipientConsent(c, q, s, k, new, nonce, deadline)
        PROVE  ConsentStep
    BY <2>3 DEF SignRecipientConsent, SignConsent, ConsentStep
  <2>4. ASSUME NEW consent \in signedConsents, SetPartyAuthorizedRecipientBySig(consent)
        PROVE  ConsentStep
    <3>1. /\ Exists(consent.project)
          /\ consent.signer = PartyOf(consent.project, consent.leg)
          /\ consent.nonce = authorizationNonce[consent.project][consent.scope][consent.leg]
          /\ authorizationNonce' = [authorizationNonce EXCEPT
               ![consent.project][consent.scope][consent.leg] = @ + 1]
          /\ UNCHANGED <<projectCount, project, signedConsents>>
      BY <2>4 DEF SetPartyAuthorizedRecipientBySig, UseConsent, projectVars
    <3> QED
      BY <3>1 DEF ConsentStep
  <2> QED
    BY <1>1, <1>7, <2>1, <2>2, <2>3, <2>4 DEF RecipientStep
<1> QED
  BY <1>2, <1>3, <1>4, <1>5, <1>6, <1>7 DEF Next

-----------------------------------------------------------------------------
(* The invariant of the approvals: one lemma per part.                      *)

LEMMA DisputesAreDatedStep ==
  ASSUME ApprovalsInv, [Next]_vars
  PROVE  DisputesAreDated'
<1> SUFFICES ASSUME NEW p \in Projects, NEW i \in MilestoneIndexes, dispute'[p][i].active
             PROVE  /\ Exists(p)' /\ i \in Milestones(p)'
                    /\ dispute'[p][i].raisedAt <= now'
  BY DEF DisputesAreDated
<1>1. /\ RegistryInv /\ now \in Nat /\ now' \in Nat /\ now' >= now
      /\ dispute[p][i].raisedAt \in Nat
      /\ KeepsAgreement(p) /\ DisputeStep(p, i)
  BY ClockSteps, EveryDisputeStep, StepTypes DEF ApprovalsInv, DisputeType
<1>2. Exists(p) /\ i \in Milestones(p) /\ dispute'[p][i].raisedAt <= now
  <2>1. CASE LeavesDispute(p, i)
    BY <2>1 DEF ApprovalsInv, DisputesAreDated, LeavesDispute
  <2>2. CASE RaisesDispute(p, i)
    BY <1>1, <2>2 DEF RaisesDispute
  <2> QED
    BY <1>1, <2>1, <2>2 DEF DisputeStep, EndsDispute
<1>3. dispute'[p][i].raisedAt \in Nat
  BY <1>1 DEF DisputeStep, LeavesDispute, RaisesDispute, EndsDispute
<1> QED
  BY <1>1, <1>2, <1>3 DEF KeepsAgreement, Milestones

LEMMA DisputedOnceStep ==
  ASSUME ApprovalsInv, [Next]_vars
  PROVE  DisputedOnce'
<1> SUFFICES ASSUME NEW p \in Projects, NEW i \in MilestoneIndexes, emergencyNonce'[p][i] > 0
             PROVE  /\ emergencyNonce'[p][i] = 1 /\ Exists(p)'
                    /\ i \in Milestones(p)' /\ Settled(p, i)'
  BY DEF DisputedOnce
<1>1. /\ RegistryInv /\ emergencyNonce[p][i] \in Nat
      /\ KeepsAgreement(p) /\ DisputeStep(p, i)
      /\ emergencyNonce[p][i] > 0 =>
           emergencyNonce[p][i] = 1 /\ Exists(p) /\ i \in Milestones(p) /\ Settled(p, i)
  BY EveryDisputeStep, StepTypes DEF ApprovalsInv, DisputedOnce
<1>2. CASE LeavesDispute(p, i) \/ RaisesDispute(p, i)
  <2>1. emergencyNonce'[p][i] = emergencyNonce[p][i]
    BY <1>2 DEF LeavesDispute, RaisesDispute
  <2>2. LeavesDispute(p, i)
    BY <1>1, <1>2, <2>1 DEF RaisesDispute
  <2> QED
    BY <1>1, <2>1, <2>2 DEF LeavesDispute, KeepsAgreement, Milestones
<1>3. CASE EndsDispute(p, i)
  <2>1. ~Settled(p, i) /\ Exists(p) /\ i \in Milestones(p)
    BY <1>1, <1>3, OpenIsUnsettled DEF EndsDispute
  <2>2. emergencyNonce[p][i] = 0
    BY <1>1, <2>1
  <2> QED
    BY <1>1, <1>3, <2>1, <2>2 DEF EndsDispute, KeepsAgreement, Milestones
<1> QED
  BY <1>1, <1>2, <1>3 DEF DisputeStep

LEMMA ProposalsAreBoundStep ==
  ASSUME ApprovalsInv, [Next]_vars
  PROVE  ProposalsAreBound'
<1>0. RegistryInv
  BY DEF ApprovalsInv
<1> SUFFICES ASSUME NEW e \in emergencyReadyAt'
             PROVE  LET p == e[1].project  i == e[1].milestone IN
                    /\ e[1].nonce <= emergencyNonce'[p][i]
                    /\ e[1].nonce = emergencyNonce'[p][i] =>
                         /\ dispute'[p][i].active
                         /\ e[2] >= dispute'[p][i].raisedAt + EMERGENCY_RESOLUTION_DELAY
  BY DEF ProposalsAreBound
<1>1. CASE e \in emergencyReadyAt
  <2> DEFINE p == e[1].project  i == e[1].milestone  n == e[1].nonce
  <2>1. p \in Projects /\ i \in MilestoneIndexes /\ n \in Nat
    BY <1>0, <1>1, StepTypes DEF EmergencyActionType
  <2>2. /\ n <= emergencyNonce[p][i]
        /\ n = emergencyNonce[p][i] =>
             /\ dispute[p][i].active
             /\ e[2] >= dispute[p][i].raisedAt + EMERGENCY_RESOLUTION_DELAY
    BY <1>1 DEF ApprovalsInv, ProposalsAreBound
  <2>3. emergencyNonce[p][i] \in Nat /\ DisputeStep(p, i)
    BY <1>0, <2>1, StepTypes, EveryDisputeStep
  <2> HIDE DEF p, i, n
  <2>4. CASE LeavesDispute(p, i)
    BY <2>2, <2>4 DEF LeavesDispute, p, i, n
  <2>5. CASE RaisesDispute(p, i)
    BY <2>1, <2>2, <2>3, <2>5 DEF RaisesDispute, p, i, n
  <2>6. CASE EndsDispute(p, i)
    BY <2>1, <2>2, <2>3, <2>6 DEF EndsDispute, p, i, n
  <2> QED
    BY <2>3, <2>4, <2>5, <2>6 DEF DisputeStep
<1>2. CASE e \notin emergencyReadyAt
  <2>1. PICK p \in Projects, i \in MilestoneIndexes, r \in Resolutions :
          /\ e = <<EmergencyAction(p, i, r), now + EMERGENCY_RESOLUTION_DELAY>>
          /\ dispute[p][i].active /\ UNCHANGED <<dispute, emergencyNonce>>
    BY <1>0, <1>2, ProposalSteps
  <2>2. /\ e[1].project = p /\ e[1].milestone = i /\ e[1].nonce = emergencyNonce[p][i]
        /\ e[2] = now + EMERGENCY_RESOLUTION_DELAY
    BY <2>1 DEF EmergencyAction
  <2>3. dispute[p][i].raisedAt <= now
    BY <2>1 DEF ApprovalsInv, DisputesAreDated
  <2>4. /\ now \in Nat /\ EMERGENCY_RESOLUTION_DELAY \in Nat /\ dispute[p][i].raisedAt \in Nat
        /\ emergencyNonce[p][i] \in Nat
    BY <1>0, StepTypes, TimeAssumption DEF DisputeType
  <2> QED
    BY <2>1, <2>2, <2>3, <2>4
<1> QED
  BY <1>1, <1>2

LEMMA AlternativesLiveStep ==
  ASSUME ApprovalsInv, [Next]_vars
  PROVE  AlternativesLiveInTheirDispute'
<1>0. RegistryInv
  BY DEF ApprovalsInv
<1> SUFFICES ASSUME NEW p \in Projects, NEW i \in MilestoneIndexes, NEW l \in Legs
             PROVE  /\ alternative'[p][i][l] # NoAddress => dispute'[p][i].active
                    /\ pendingAlternative'[p][i][l].recipient # NoAddress =>
                         /\ dispute'[p][i].active
                         /\ pendingAlternative'[p][i][l].executableAfter
                              >= dispute'[p][i].raisedAt + ALTERNATIVE_RECIPIENT_DELAY
  BY DEF AlternativesLiveInTheirDispute
<1>1. /\ alternative[p][i][l] # NoAddress => dispute[p][i].active
      /\ pendingAlternative[p][i][l].recipient # NoAddress =>
           /\ dispute[p][i].active
           /\ pendingAlternative[p][i][l].executableAfter
                >= dispute[p][i].raisedAt + ALTERNATIVE_RECIPIENT_DELAY
  BY DEF ApprovalsInv, AlternativesLiveInTheirDispute
<1>2. AlternativeStep(p, i, l) /\ DisputeStep(p, i)
  BY <1>0, AlternativeSteps, EveryDisputeStep
<1>3. CASE NoAlternative(p, i, l)'
  BY <1>3 DEF NoAlternative, NoPending
<1>4. CASE SameAlternative(p, i, l)
  <2>1. CASE LeavesDispute(p, i)
    BY <1>1, <1>4, <2>1 DEF SameAlternative, LeavesDispute
  <2>2. CASE RaisesDispute(p, i)
    BY <1>1, <1>4, <2>2 DEF SameAlternative, RaisesDispute
  <2>3. CASE EndsDispute(p, i)
    BY <2>3 DEF EndsDispute, NoPending
  <2> QED
    BY <1>2, <2>1, <2>2, <2>3 DEF DisputeStep
<1>5. CASE AlternativeMoves(p, i, l)
  <2>1. /\ dispute[p][i].active /\ dispute[p][i].raisedAt <= now
        /\ now \in Nat /\ ALTERNATIVE_RECIPIENT_DELAY \in Nat
        /\ dispute[p][i].raisedAt \in Nat
    BY <1>0, <1>5, StepTypes, AlternativeDelayAssumption
    DEF AlternativeMoves, ApprovalsInv, DisputesAreDated, DisputeType
  <2> QED
    BY <1>5, <2>1 DEF AlternativeMoves, NoPending
<1> QED
  BY <1>2, <1>3, <1>4, <1>5 DEF AlternativeStep

LEMMA ActionsAreSpentStep ==
  ASSUME ApprovalsInv, [Next]_vars
  PROVE  ActionsAreSpent'
<1>0. RegistryInv
  BY DEF ApprovalsInv
<1> SUFFICES ASSUME NEW id \in executedActions'
             PROVE  LET s == id.subject IN
                    /\ Exists(s.project)' /\ s.milestone \in Milestones(s.project)'
                    /\ s.nonce < actionNonce'[s.project][s.milestone]
                    /\ s.domain = "RESOLVE_DISPUTE" => Settled(s.project, s.milestone)'
  BY DEF ActionsAreSpent
<1> DEFINE s == id.subject  p == s.project  i == s.milestone
<1>1. id \in ActionIds(Subjects)
  BY <1>0, RegistryNextInv DEF RegistryInv, MultisigInv, MultisigTypeOK
<1>2. p \in Projects /\ i \in MilestoneIndexes /\ s.nonce \in Nat
  BY <1>1 DEF ActionIds, Subjects, ResolveSubjects, AlternativeSubjects
<1>3. /\ actionNonce[p][i] \in Nat /\ actionNonce'[p][i] \in Nat
      /\ actionNonce'[p][i] >= actionNonce[p][i]
      /\ id \in executedActions \/ Spends(id)
  <2>1. actionNonce'[p][i] >= actionNonce[p][i] /\ (id \in executedActions \/ Spends(id))
    BY <1>0, <1>2, ActionSteps DEF ActionStep
  <2>2. actionNonce[p][i] \in Nat
    BY <1>0, <1>2, StepTypes
  <2>3. actionNonce'[p][i] \in Nat
    BY <1>0, <1>2, RegistryNextInv DEF RegistryInv, NoncesTypeOK
  <2> QED
    BY <2>1, <2>2, <2>3
<1>4. KeepsAgreement(p) /\ DisputeStep(p, i)
  BY <1>0, <1>2, EveryDisputeStep
<1>5. CASE id \in executedActions
  <2>1. /\ Exists(p) /\ i \in Milestones(p) /\ s.nonce < actionNonce[p][i]
        /\ s.domain = "RESOLVE_DISPUTE" => Settled(p, i)
    BY <1>5 DEF ApprovalsInv, ActionsAreSpent
  <2> HIDE DEF s, p, i
  <2>2. s.domain = "RESOLVE_DISPUTE" => Settled(p, i)'
    BY <1>4, <2>1 DEF DisputeStep, LeavesDispute, RaisesDispute, EndsDispute
  <2>3. s.nonce < actionNonce'[p][i]
    BY <1>2, <1>3, <2>1
  <2>4. Exists(p)' /\ i \in Milestones(p)'
    BY <1>4, <2>1 DEF KeepsAgreement, Milestones
  <2> QED
    BY <2>2, <2>3, <2>4 DEF s, p, i
<1>6. CASE Spends(id)
  <2>1. /\ Exists(p) /\ i \in Milestones(p)
        /\ actionNonce'[p][i] = s.nonce + 1
        /\ s.domain = "RESOLVE_DISPUTE" => EndsDispute(p, i)
    BY <1>6 DEF Spends
  <2> HIDE DEF s, p, i
  <2>2. Exists(p)' /\ i \in Milestones(p)'
    BY <1>4, <2>1 DEF KeepsAgreement, Milestones
  <2>3. s.domain = "RESOLVE_DISPUTE" => Settled(p, i)'
    BY <2>1 DEF EndsDispute
  <2>4. s.nonce < actionNonce'[p][i]
    BY <1>2, <2>1
  <2> QED
    BY <2>2, <2>3, <2>4 DEF s, p, i
<1> QED
  BY <1>3, <1>5, <1>6

LEMMA ConsentsAreSignedStep ==
  ASSUME ApprovalsInv, [Next]_vars
  PROVE  ConsentsAreSigned'
<1>0. RegistryInv /\ ConsentStep /\ \A p \in Projects : KeepsAgreement(p)
  <2>1. RegistryInv /\ 0 \in MilestoneIndexes
    BY MilestonesAssumption DEF ApprovalsInv, MilestoneIndexes
  <2> QED
    BY <2>1, ConsentSteps, EveryDisputeStep
<1> SUFFICES ASSUME NEW p \in Projects, NEW s \in Scopes, NEW l \in Legs
             PROVE  /\ authorizationNonce'[p][s][l] > 0 => Exists(p)'
                    /\ \A n \in 0..(authorizationNonce'[p][s][l] - 1) :
                         \E c \in signedConsents' :
                           /\ c.project = p /\ c.scope = s /\ c.leg = l /\ c.nonce = n
                           /\ c.signer = PartyOf(p, l)'
  BY DEF ConsentsAreSigned, EveryNonceWasSigned
<1> DEFINE k == authorizationNonce[p][s][l]
<1>1. /\ k \in Nat
      /\ k > 0 => Exists(p)
      /\ \A n \in 0..(k - 1) : \E c \in signedConsents :
           /\ c.project = p /\ c.scope = s /\ c.leg = l /\ c.nonce = n
           /\ c.signer = PartyOf(p, l)
  <2>1. k \in Nat
    BY <1>0, StepTypes
  <2>2. k > 0 => Exists(p)
    BY DEF ApprovalsInv, ConsentsAreSigned
  <2>3. EveryNonceWasSigned
    BY DEF ApprovalsInv, ConsentsAreSigned
  <2> QED
    BY <2>1, <2>2, <2>3 DEF EveryNonceWasSigned
<1>2. signedConsents \subseteq signedConsents'
  BY <1>0 DEF ConsentStep
<1>3. Exists(p) => Exists(p)' /\ PartyOf(p, l)' = PartyOf(p, l)
  BY <1>0 DEF KeepsAgreement, PartyOf
<1> HIDE DEF k
<1>4. CASE authorizationNonce'[p][s][l] = k
  <2>1. \A n \in 0..(k - 1) : Exists(p)
    BY <1>1
  <2> QED
    BY <1>1, <1>2, <1>3, <1>4, <2>1
<1>5. CASE authorizationNonce'[p][s][l] # k
  <2>1. PICK c \in signedConsents :
          /\ Exists(c.project) /\ c.signer = PartyOf(c.project, c.leg)
          /\ c.nonce = authorizationNonce[c.project][c.scope][c.leg]
          /\ authorizationNonce' =
               [authorizationNonce EXCEPT ![c.project][c.scope][c.leg] = @ + 1]
          /\ UNCHANGED <<projectCount, project>>
    BY <1>0, <1>5 DEF ConsentStep, k
  <2>2. c.project \in Projects /\ c.scope \in Scopes /\ c.leg \in Legs
    BY <1>0, StepTypes DEF ConsentType
  <2>3. c.project = p /\ c.scope = s /\ c.leg = l /\ authorizationNonce'[p][s][l] = k + 1
    BY <1>0, <1>5, <2>1, <2>2, StepTypes DEF k
  <2>4. c.nonce = k
    BY <2>1, <2>3 DEF k
  <2>5. Exists(p)' /\ PartyOf(p, l)' = PartyOf(p, l) /\ c.signer = PartyOf(p, l)
    BY <1>3, <2>1, <2>3
  <2>6. \A n \in 0..(authorizationNonce'[p][s][l] - 1) : n \in 0..(k - 1) \/ n = k
    BY <1>1, <2>3
  <2> QED
    BY <1>1, <1>2, <2>3, <2>4, <2>5, <2>6
<1> QED
  BY <1>4, <1>5

(* The constructor establishes the invariant: nothing is approved yet. *)
LEMMA ApprovalsInitInv ==
  ASSUME Init
  PROVE  ApprovalsInv
<1>1. RegistryInv
  BY RegistryInitInv
<1>2. DisputesAreDated /\ DisputedOnce /\ ProposalsAreBound
  BY DEF Init, DisputesAreDated, DisputedOnce, ProposalsAreBound, NoDispute
<1>3. AlternativesLiveInTheirDispute
  BY DEF Init, RecipientsInit, AlternativesLiveInTheirDispute, NoPending
<1>4. ActionsAreSpent
  BY DEF Init, MultisigInit, ActionsAreSpent
<1>5. ConsentsAreSigned
  BY DEF Init, RecipientsInit, ConsentsAreSigned, EveryNonceWasSigned
<1> QED
  BY <1>1, <1>2, <1>3, <1>4, <1>5 DEF ApprovalsInv

LEMMA ApprovalsNextInv ==
  ASSUME ApprovalsInv, [Next]_vars
  PROVE  ApprovalsInv'
<1>1. RegistryInv'
  BY RegistryNextInv DEF ApprovalsInv
<1> QED
  BY <1>1, DisputesAreDatedStep, DisputedOnceStep, ProposalsAreBoundStep,
     AlternativesLiveStep, ActionsAreSpentStep, ConsentsAreSignedStep DEF ApprovalsInv

(* What refers to a dispute, a vote or a consent never outlives it: the     *)
(* inductive invariant of everything arbitrators, admins and parties may    *)
(* have approved, in every reachable state.                                 *)
THEOREM ApprovalsInvariant == Spec => []ApprovalsInv
<1>1. Init => ApprovalsInv
  BY ApprovalsInitInv
<1>2. ApprovalsInv /\ [Next]_vars => ApprovalsInv'
  BY ApprovalsNextInv
<1> QED
  BY <1>1, <1>2, PTL DEF Spec

(* A milestone is disputed at most once, and an emergency proposal that can *)
(* still be executed was made while that dispute was open.                  *)
THEOREM RegistryProposals == Spec => []ProposalsDieWithTheirDispute
<1>1. ApprovalsInv => ProposalsDieWithTheirDispute
  <2> SUFFICES ASSUME ApprovalsInv, NEW p \in Created, NEW i \in Milestones(p)
               PROVE  /\ emergencyNonce[p][i] > 0 =>
                           emergencyNonce[p][i] = 1 /\ Settled(p, i) /\ ~dispute[p][i].active
                      /\ \A e \in emergencyReadyAt :
                           e[1] = EmergencyAction(p, i, e[1].resolution) =>
                             /\ dispute[p][i].active
                             /\ e[2] >= dispute[p][i].raisedAt + EMERGENCY_RESOLUTION_DELAY
    BY DEF ProposalsDieWithTheirDispute
  <2>1. RegistryInv /\ Exists(p) /\ p \in Projects /\ i \in MilestoneIndexes
    BY ProjectFacts DEF ApprovalsInv, RegistryInv, Created, Exists
  <2>2. emergencyNonce[p][i] > 0 => emergencyNonce[p][i] = 1 /\ Settled(p, i)
    BY <2>1 DEF ApprovalsInv, DisputedOnce
  <2>3. dispute[p][i].active => ~Settled(p, i)
    BY <2>1, OpenIsUnsettled
  <2>4. ASSUME NEW e \in emergencyReadyAt, e[1] = EmergencyAction(p, i, e[1].resolution)
        PROVE  /\ dispute[p][i].active
               /\ e[2] >= dispute[p][i].raisedAt + EMERGENCY_RESOLUTION_DELAY
    <3>1. e[1].project = p /\ e[1].milestone = i /\ e[1].nonce = emergencyNonce[p][i]
      BY <2>4 DEF EmergencyAction
    <3> QED
      BY <3>1 DEF ApprovalsInv, ProposalsAreBound
  <2> QED
    BY <2>2, <2>3, <2>4
<1> QED
  BY <1>1, ApprovalsInvariant, PTL

(* An alternative recipient lives in one dispute and waits out its delay    *)
(* there.                                                                   *)
THEOREM RegistryAlternatives == Spec => []AlternativesLiveInTheirDispute
<1>1. ApprovalsInv => AlternativesLiveInTheirDispute
  BY DEF ApprovalsInv
<1> QED
  BY <1>1, ApprovalsInvariant, PTL

(* What the arbitrators executed is spent, and a decision on a dispute      *)
(* leaves the milestone settled.                                            *)
THEOREM RegistryActionsSpent == Spec => []ExecutedActionsAreSpent
<1>1. ApprovalsInv => ExecutedActionsAreSpent
  BY DEF ApprovalsInv, ActionsAreSpent, ExecutedActionsAreSpent
<1> QED
  BY <1>1, ApprovalsInvariant, PTL

(* Every consent nonce that has passed was signed by the party of its leg.  *)
THEOREM RegistryConsents == Spec => []EveryNonceWasSigned
<1>1. ApprovalsInv => EveryNonceWasSigned
  BY DEF ApprovalsInv, ConsentsAreSigned
<1> QED
  BY <1>1, ApprovalsInvariant, PTL

(* Approvals of all kinds serve once, for what they were given. *)
THEOREM RegistryApprovals == Spec => []ApprovalsServeOnce
BY RegistryAlternatives, RegistryActionsSpent, RegistryConsents, PTL DEF ApprovalsServeOnce

=============================================================================
