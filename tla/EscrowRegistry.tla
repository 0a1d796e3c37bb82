--------------------------- MODULE EscrowRegistry ---------------------------
(***************************************************************************)
(* The EscrowFlowRegistry contract: ERC20 milestone escrow for any number  *)
(* of projects, with submission, approval, payout, disputes, arbitration,  *)
(* timeouts, cancellation and the admin's emergency paths.                 *)
(*                                                                         *)
(* One action is one transaction.  A revert undoes all of a transaction,   *)
(* so the conditions under which the code reverts are the guards of the    *)
(* action, the checked subtractions of Solidity among them.  Transactions  *)
(* of all accounts interleave freely, and the clock moves between them.    *)
(***************************************************************************)
EXTENDS ArbitratorMultisig, PayoutRecipients, FiniteSetsExt

CONSTANTS
  Tokens,
  Plans,                \* milestone lists clients may pass to createProject
  Resolutions,          \* kind and amounts admins and arbitrators may ask for
  FundingAmounts,       \* amounts clients may deposit in one call
  Parties,              \* <<client, freelancer>> pairs that start projects
  RecipientChoices,     \* <<scope, leg, address>>: redirections someone may want
  InitialBalance,       \* tokens each account holds at the start
  Blockable,            \* accounts the token issuer may come to block
  StrayAmounts,         \* amounts sent to the registry outside fundProject
  DISPUTE_TIMEOUT, CANCEL_TIMEOUT, EMERGENCY_RESOLUTION_DELAY,
  MAX_UINT256,
  MaxTime,              \* bound: the clock stops there
  MaxProposals          \* bound: alternatives proposed per milestone

ResolutionKinds == {"ReleaseToFreelancer", "RefundToClient", "Split"}
MilestoneStatuses == {"Pending", "Submitted", "Approved", "Released", "Refunded"}
ProjectStatuses == {"Active", "Disputed", "Completed", "Cancelled"}

(* The list of milestones of a project.  runningTotal[k] is the value of    *)
(* totalAmount after k iterations of createProject's loop, so milestone i   *)
(* is worth runningTotal[i + 1] - runningTotal[i].                          *)
PlanType ==
  [milestoneCount : 0..MAX_MILESTONES,
   runningTotal   : [0..MAX_MILESTONES -> Nat],
   deadline       : [MilestoneIndexes -> Nat]]

NoPlan ==
  [milestoneCount |-> 0,
   runningTotal   |-> [k \in 0..MAX_MILESTONES |-> 0],
   deadline       |-> [i \in MilestoneIndexes |-> 0]]

ResolutionType ==
  [kind : ResolutionKinds, freelancerAmount : Nat, clientAmount : Nat]

ASSUME PlansAssumption ==
  /\ Plans \subseteq PlanType
  /\ \A plan \in Plans :
       /\ plan.runningTotal[0] = 0
       /\ \A i \in 0..(plan.milestoneCount - 1) :
            plan.runningTotal[i] <= plan.runningTotal[i + 1]
ASSUME ChoicesAssumption ==
  /\ Resolutions \subseteq ResolutionType
  /\ FundingAmounts \subseteq Nat /\ StrayAmounts \subseteq Nat
  /\ Parties \subseteq Accounts \X Holders
  /\ RecipientChoices \subseteq Scopes \X Legs \X Addresses
  /\ Blockable \subseteq Accounts
  /\ InitialBalance \in Nat
ASSUME TimeAssumption ==
  /\ {DISPUTE_TIMEOUT, CANCEL_TIMEOUT, EMERGENCY_RESOLUTION_DELAY} \subseteq Nat
  /\ {MAX_UINT256, MaxTime, MaxProposals} \subseteq Nat

VARIABLES
  paused,
  tokenReviewAttested, allowedTokens,   \* sets of tokens
  projectCount,
  project,              \* [project]: parties, token, accounting, status, plan
  milestone,            \* [project][index]: status and reviewEnteredAt
  dispute,              \* [project][index]: active, raisedAt, evidence appended
  actionNonce,          \* [project][index]: _arbitratorActionNonce
  emergencyNonce,       \* [project][index]: _emergencyResolveNonce
  emergencyReadyAt,     \* pairs <<action hash, ready-at time>> of proposals
  tokenOutstanding,     \* [token]: liabilities over all projects
  balance,              \* [token][holder]: the token contract's own books
  blocked               \* [token]: holders the token refuses to pay

(* What arbitrators confirm: the fields hashed into an action id, except    *)
(* the threshold and the configuration nonce.                               *)
ResolveSubjects ==
  [domain : {"RESOLVE_DISPUTE"}, project : Projects, milestone : MilestoneIndexes,
   resolution : Resolutions, raisedAt : Nat, nonce : Nat]
AlternativeSubjects ==
  [domain : {"SET_ALT_RECIPIENT"}, project : Projects, milestone : MilestoneIndexes,
   leg : Legs, recipient : Addresses, raisedAt : Nat, nonce : Nat]

adminVars == <<paused, tokenReviewAttested, allowedTokens>>
projectVars == <<projectCount, project, milestone, dispute, tokenOutstanding>>
nonceVars == <<actionNonce, emergencyNonce, emergencyReadyAt>>
tokenVars == <<balance, blocked>>
vars == <<now, recipientVars, multisigVars, adminVars, projectVars, nonceVars,
          tokenVars>>

NoProject ==
  [client |-> NoAddress, freelancer |-> NoAddress, token |-> NoAddress,
   fundedAmount |-> 0, releasedAmount |-> 0, refundedAmount |-> 0,
   reservedAmount |-> 0, activeDisputeCount |-> 0, settledMilestoneCount |-> 0,
   status |-> "Active", plan |-> NoPlan]
NewMilestone == [status |-> "Pending", reviewEnteredAt |-> 0]
NoDispute == [active |-> FALSE, raisedAt |-> 0, evidence |-> FALSE]

Init ==
  /\ now = 1
  /\ RecipientsInit
  /\ MultisigInit
  /\ paused = FALSE /\ tokenReviewAttested = {} /\ allowedTokens = {}
  /\ projectCount = 0
  /\ project = [p \in Projects |-> NoProject]
  /\ milestone = [p \in Projects |-> [i \in MilestoneIndexes |-> NewMilestone]]
  /\ dispute = [p \in Projects |-> [i \in MilestoneIndexes |-> NoDispute]]
  /\ actionNonce = [p \in Projects |-> [i \in MilestoneIndexes |-> 0]]
  /\ emergencyNonce = [p \in Projects |-> [i \in MilestoneIndexes |-> 0]]
  /\ emergencyReadyAt = {}
  /\ tokenOutstanding = [t \in Tokens |-> 0]
  /\ balance = [t \in Tokens |->
       [h \in Holders |-> IF h = Registry THEN 0 ELSE InitialBalance]]
  /\ blocked = [t \in Tokens |-> {}]

-----------------------------------------------------------------------------
(* What the private view functions compute.                                *)

Exists(p) == p \in 1..projectCount
Milestones(p) == 0..(project[p].plan.milestoneCount - 1)
Amount(p, i) ==
  project[p].plan.runningTotal[i + 1] - project[p].plan.runningTotal[i]
TotalAmount(p) == project[p].plan.runningTotal[project[p].plan.milestoneCount]

(* Mutant: a completed project is still operable. *)
Operable_NotCancelled(p) == Exists(p) /\ project[p].status # "Cancelled"

(* Mutant: a project in dispute is not operable. *)
Operable_ActiveOnly(p) == Exists(p) /\ project[p].status = "Active"

(* _requireProjectOperable, after _projectStorage *)
Operable(p) == Exists(p) /\ project[p].status \in {"Active", "Disputed"}

Settled(p, i) == milestone[p][i].status \in {"Released", "Refunded"}

(* Mutant: off by one, the milestone just before is not looked at. *)
PreviousCompleted_OffByOne(p, i) == \A j \in 0..(i - 2) : Settled(p, j)

(* _requirePreviousMilestonesCompleted *)
PreviousCompleted(p, i) == \A j \in 0..(i - 1) : Settled(p, j)

AvailableLiquidity(p) ==
  project[p].fundedAmount - project[p].releasedAmount - project[p].refundedAmount

(* Mutant: what has been paid out already still counts as liquidity. *)
FreeLiquidity_ForgetsPayouts(p) ==
  project[p].fundedAmount - project[p].reservedAmount

FreeLiquidity(p) ==
  IF AvailableLiquidity(p) <= project[p].reservedAmount THEN 0
  ELSE AvailableLiquidity(p) - project[p].reservedAmount

(* _requireProjectCanSettleAmount *)
CanSettle(p, amount) ==
  project[p].releasedAmount + project[p].refundedAmount + amount
    <= project[p].fundedAmount

(* _refreshProjectStatus, on the record being written *)
Refreshed(proj) ==
  [proj EXCEPT !.status =
     IF proj.activeDisputeCount > 0 THEN "Disputed"
     ELSE IF proj.settledMilestoneCount = proj.plan.milestoneCount
          THEN "Completed" ELSE "Active"]

(* _markMilestoneSettled does not revert: room for n more settlements *)
MayMarkSettled(p, n) ==
  project[p].settledMilestoneCount + n <= project[p].plan.milestoneCount

(* Mutant: the amounts need not add up to the milestone's. *)
ValidAmounts_AtMost(r, amount) == r.freelancerAmount + r.clientAmount <= amount

(* _validateResolutionAmounts *)
ValidAmounts(r, amount) ==
  CASE r.kind = "ReleaseToFreelancer" ->
         r.freelancerAmount = amount /\ r.clientAmount = 0
    [] r.kind = "RefundToClient" ->
         r.clientAmount = amount /\ r.freelancerAmount = 0
    [] OTHER ->
         /\ r.freelancerAmount # 0 /\ r.clientAmount # 0
         /\ r.freelancerAmount + r.clientAmount = amount

(* A dispute on undelivered work can only be refunded. *)
KindAllowed(p, i, r) ==
  milestone[p][i].status = "Pending" =>
    /\ project[p].reservedAmount >= Amount(p, i)
    /\ r.kind = "RefundToClient"

-----------------------------------------------------------------------------
(* Token movements.  Tokens are exact-transfer ERC20s; a token that moves   *)
(* any other amount makes _safeTransferExact and fundProject revert.        *)

(* The recipient is valid and _safeTransferExact(to, amount) goes through. *)
Payable(t, to, amount) ==
  to # Registry /\ (amount = 0 \/ to \notin blocked[t])

(* The registry pays amountF to f, then amountC to c; NoAddress and 0 stand *)
(* for a payment the code does not make.                                    *)
Pay(t, f, amountF, c, amountC) ==
  /\ Payable(t, f, amountF) /\ Payable(t, c, amountC)
  /\ balance[t][Registry] >= amountF + amountC
  /\ balance' = [balance EXCEPT ![t] = [h \in Holders |->
       @[h] + (IF h = f THEN amountF ELSE 0) + (IF h = c THEN amountC ELSE 0)
            - (IF h = Registry THEN amountF + amountC ELSE 0)]]
  /\ UNCHANGED blocked

(* Mutant: a payment leaves the liability as it was. *)
ReduceOutstanding_Forgotten(t, amount) ==
  tokenOutstanding[t] >= amount /\ UNCHANGED tokenOutstanding

(* _tokenOutstanding[t] -= amount, a checked subtraction *)
ReduceOutstanding(t, amount) ==
  /\ tokenOutstanding[t] >= amount
  /\ tokenOutstanding' = [tokenOutstanding EXCEPT ![t] = @ - amount]

-----------------------------------------------------------------------------
(* Administration.                                                         *)

Pause(caller) ==
  /\ HasRole(PAUSER_ROLE, caller) /\ ~paused
  /\ paused' = TRUE
  /\ UNCHANGED <<now, recipientVars, multisigVars, tokenReviewAttested,
                 allowedTokens, projectVars, nonceVars, tokenVars>>

Unpause(caller) ==
  /\ HasRole(PAUSER_ROLE, caller) /\ paused
  /\ paused' = FALSE
  /\ UNCHANGED <<now, recipientVars, multisigVars, tokenReviewAttested,
                 allowedTokens, projectVars, nonceVars, tokenVars>>

AttestTokenReviewForAllowlist(caller, t) ==
  /\ HasRole(DEFAULT_ADMIN_ROLE, caller)
  /\ tokenReviewAttested' = tokenReviewAttested \cup {t}
  /\ UNCHANGED <<now, recipientVars, multisigVars, paused, allowedTokens,
                 projectVars, nonceVars, tokenVars>>

SetAllowedToken(caller, t, allowed) ==
  /\ HasRole(DEFAULT_ADMIN_ROLE, caller)
  /\ allowed => t \in tokenReviewAttested
  /\ allowedTokens' = IF allowed THEN allowedTokens \cup {t}
                      ELSE allowedTokens \ {t}
  /\ UNCHANGED <<now, recipientVars, multisigVars, paused, tokenReviewAttested,
                 projectVars, nonceVars, tokenVars>>

ChangeRoles ==
  /\ RoleStep
  /\ UNCHANGED <<now, recipientVars, adminVars, projectVars, nonceVars, tokenVars>>

(* Mutant: everything the registry holds may be swept. *)
Untracked_Everything(t) == balance[t][Registry]

(* What sweepUntrackedToken finds the registry holds beyond its liabilities. *)
Untracked(t) == balance[t][Registry] - tokenOutstanding[t]

SweepUntrackedToken(caller, t, to, amount) ==
  /\ HasRole(DEFAULT_ADMIN_ROLE, caller)
  /\ to \notin {NoAddress, Registry}
  /\ Untracked(t) >= amount
  /\ to \notin blocked[t]
  /\ balance' = [balance EXCEPT ![t][Registry] = @ - amount, ![t][to] = @ + amount]
  /\ UNCHANGED <<now, recipientVars, multisigVars, adminVars, projectVars,
                 nonceVars, blocked>>

-----------------------------------------------------------------------------
(* Projects and milestones.                                                *)

CreateProject(caller, freelancer, t, plan) ==
  /\ ~paused
  /\ t \in allowedTokens
  /\ freelancer # caller
  /\ plan.milestoneCount # 0
  /\ \A i \in 0..(plan.milestoneCount - 1) :
       /\ plan.runningTotal[i + 1] # plan.runningTotal[i]
       /\ plan.deadline[i] # 0
       /\ plan.runningTotal[i + 1] <= MAX_UINT256
  /\ projectCount < MaxProjects
  /\ projectCount' = projectCount + 1
  /\ project' = [project EXCEPT ![projectCount + 1] =
       [NoProject EXCEPT !.client = caller, !.freelancer = freelancer,
                         !.token = t, !.plan = plan]]
  /\ milestone' = [milestone EXCEPT ![projectCount + 1] =
       [i \in MilestoneIndexes |->
          IF i < plan.milestoneCount THEN NewMilestone ELSE @[i]]]
  /\ UNCHANGED <<now, recipientVars, multisigVars, adminVars, dispute,
                 tokenOutstanding, nonceVars, tokenVars>>

FundProject(caller, p, amount) ==
  /\ ~paused /\ Operable(p)
  /\ project[p].client = caller
  /\ amount # 0
  /\ project[p].fundedAmount + amount <= TotalAmount(p)
  /\ LET t == project[p].token IN
     /\ caller \notin blocked[t]
     /\ balance[t][caller] >= amount
     /\ balance' = [balance EXCEPT ![t][caller] = @ - amount,
                                   ![t][Registry] = @ + amount]
     /\ tokenOutstanding' = [tokenOutstanding EXCEPT ![t] = @ + amount]
  /\ project' = [project EXCEPT ![p].fundedAmount = @ + amount]
  /\ UNCHANGED <<now, recipientVars, multisigVars, adminVars, projectCount,
                 milestone, dispute, nonceVars, blocked>>

SubmitMilestone(caller, p, i) ==
  /\ ~paused /\ Operable(p)
  /\ project[p].freelancer = caller
  /\ i \in Milestones(p)
  /\ ~dispute[p][i].active
  /\ milestone[p][i].status = "Pending"
  /\ PreviousCompleted(p, i)
  /\ FreeLiquidity(p) >= Amount(p, i)
  /\ milestone' = [milestone EXCEPT ![p][i] =
       [status |-> "Submitted",
        reviewEnteredAt |-> IF @.reviewEnteredAt = 0 THEN now
                            ELSE @.reviewEnteredAt]]
  /\ UNCHANGED <<now, recipientVars, multisigVars, adminVars, projectCount,
                 project, dispute, tokenOutstanding, nonceVars, tokenVars>>

(* Mutant: not gated by pause. *)
ApproveMilestone_WhilePaused(caller, p, i) ==
  /\ Operable(p)
  /\ project[p].client = caller
  /\ i \in Milestones(p)
  /\ ~dispute[p][i].active
  /\ milestone[p][i].status = "Submitted"
  /\ milestone' = [milestone EXCEPT ![p][i].status = "Approved"]
  /\ UNCHANGED <<now, recipientVars, multisigVars, adminVars, projectCount,
                 project, dispute, tokenOutstanding, nonceVars, tokenVars>>

ApproveMilestone(caller, p, i) ==
  /\ ~paused /\ Operable(p)
  /\ project[p].client = caller
  /\ i \in Milestones(p)
  /\ ~dispute[p][i].active
  /\ milestone[p][i].status = "Submitted"
  /\ PreviousCompleted(p, i)
  /\ milestone' = [milestone EXCEPT ![p][i].status = "Approved"]
  /\ UNCHANGED <<now, recipientVars, multisigVars, adminVars, projectCount,
                 project, dispute, tokenOutstanding, nonceVars, tokenVars>>

ReleaseMilestone(caller, p, i) ==
  LET amount == Amount(p, i)
      t == project[p].token
  IN
  /\ ~paused /\ Operable(p)
  /\ project[p].client = caller
  /\ i \in Milestones(p)
  /\ ~dispute[p][i].active
  /\ milestone[p][i].status = "Approved"
  /\ PreviousCompleted(p, i)
  /\ FreeLiquidity(p) >= amount
  /\ CanSettle(p, amount)
  /\ MayMarkSettled(p, 1)
  /\ project' = [project EXCEPT ![p] = Refreshed(
       [project[p] EXCEPT !.releasedAmount = @ + amount,
                          !.settledMilestoneCount = @ + 1])]
  /\ ReduceOutstanding(t, amount)
  /\ milestone' = [milestone EXCEPT ![p][i] =
       [status |-> "Released", reviewEnteredAt |-> 0]]
  /\ Pay(t, LegRecipient(p, i, "freelancer", project[p].freelancer), amount,
         NoAddress, 0)
  /\ UNCHANGED <<now, recipientVars, multisigVars, adminVars, projectCount,
                 dispute, nonceVars>>

-----------------------------------------------------------------------------
(* Disputes.                                                               *)

IsParty(p, a) == a \in {project[p].client, project[p].freelancer}

AppendDisputeEvidence(caller, p, i) ==
  /\ Exists(p) /\ IsParty(p, caller)
  /\ i \in Milestones(p)
  /\ dispute[p][i].active
  /\ dispute' = [dispute EXCEPT ![p][i].evidence = TRUE]
  /\ UNCHANGED <<now, recipientVars, multisigVars, adminVars, projectCount,
                 project, milestone, tokenOutstanding, nonceVars, tokenVars>>

RaiseDispute(caller, p, i) ==
  /\ ~paused /\ Operable(p)
  /\ i \in Milestones(p)
  /\ PreviousCompleted(p, i)
  /\ ~dispute[p][i].active
  /\ IsParty(p, caller)
  /\ \/ milestone[p][i].status = "Pending" /\ now > project[p].plan.deadline[i]
     \/ milestone[p][i].status \in {"Submitted", "Approved"}
  /\ FreeLiquidity(p) >= Amount(p, i)
  /\ dispute' = [dispute EXCEPT ![p][i] =
       [@ EXCEPT !.active = TRUE, !.raisedAt = now]]
  /\ project' = [project EXCEPT ![p] =
       [project[p] EXCEPT !.activeDisputeCount = @ + 1,
                          !.reservedAmount = @ + Amount(p, i),
                          !.status = "Disputed"]]
  /\ UNCHANGED <<now, recipientVars, multisigVars, adminVars, projectCount,
                 milestone, tokenOutstanding, nonceVars, tokenVars>>

(* The part the three ways of settling a disputed milestone share: the      *)
(* dispute and its reservation end, freelancerAmount and clientAmount leave *)
(* the project, and emergency proposals for it lose their nonce.            *)
SettleDispute(p, i, freelancer, freelancerAmount, clientAmount) ==
  LET totalOut == freelancerAmount + clientAmount IN
  /\ CanSettle(p, totalOut)
  /\ project[p].activeDisputeCount >= 1
  /\ project[p].reservedAmount >= Amount(p, i)
  /\ MayMarkSettled(p, 1)
  /\ dispute' = [dispute EXCEPT ![p][i] = NoDispute]
  /\ emergencyNonce' = [emergencyNonce EXCEPT ![p][i] = @ + 1]
  /\ project' = [project EXCEPT ![p] = Refreshed(
       [project[p] EXCEPT !.activeDisputeCount = @ - 1,
                          !.reservedAmount = @ - Amount(p, i),
                          !.releasedAmount = @ + freelancerAmount,
                          !.refundedAmount = @ + clientAmount,
                          !.settledMilestoneCount = @ + 1])]
  /\ ReduceOutstanding(project[p].token, totalOut)
  /\ Pay(project[p].token, freelancer, freelancerAmount,
         LegRecipient(p, i, "client", project[p].client), clientAmount)
  /\ ClearAlternatives(p, i)

SettledStatus(kind) ==
  IF kind = "RefundToClient" THEN "Refunded" ELSE "Released"

(* Mutant: the action's id does not tell the milestones apart. *)
ResolveSubject_OneMilestone(p, i, r) ==
  [domain |-> "RESOLVE_DISPUTE", project |-> p, milestone |-> 0,
   resolution |-> r, raisedAt |-> dispute[p][i].raisedAt,
   nonce |-> actionNonce[p][i]]

ResolveSubject(p, i, r) ==
  [domain |-> "RESOLVE_DISPUTE", project |-> p, milestone |-> i,
   resolution |-> r, raisedAt |-> dispute[p][i].raisedAt,
   nonce |-> actionNonce[p][i]]

(* Mutant: the nonce of an executed decision is not spent. *)
SpendActionNonce_Forgotten(p, i) == UNCHANGED actionNonce

SpendActionNonce(p, i) == actionNonce' = [actionNonce EXCEPT ![p][i] = @ + 1]

(* Mutant: the dispute need not be open any more. *)
VoteOnDispute_AnyTime(caller, p, i, r) ==
  /\ ~paused /\ Exists(p)
  /\ i \in Milestones(p)
  /\ ArbitratorVote(caller, ResolveSubject(p, i, r))
  /\ ~QuorumWith(caller, ResolveSubject(p, i, r))
  /\ UNCHANGED <<now, recipientVars, adminVars, projectVars, nonceVars, tokenVars>>

(* resolveDispute, short of the quorum: the vote is recorded. *)
VoteOnDispute(caller, p, i, r) ==
  /\ ~paused /\ Operable(p)
  /\ i \in Milestones(p)
  /\ dispute[p][i].active
  /\ ArbitratorVote(caller, ResolveSubject(p, i, r))
  /\ ~QuorumWith(caller, ResolveSubject(p, i, r))
  /\ UNCHANGED <<now, recipientVars, adminVars, projectVars, nonceVars, tokenVars>>

(* resolveDispute, with the deciding vote: what the decision amounts to is  *)
(* checked only now, and a failed check takes the vote back.                *)
ResolveDispute(caller, p, i, r) ==
  /\ ~paused /\ Operable(p)
  /\ i \in Milestones(p)
  /\ dispute[p][i].active
  /\ ArbitratorVote(caller, ResolveSubject(p, i, r))
  /\ QuorumWith(caller, ResolveSubject(p, i, r))
  /\ KindAllowed(p, i, r)
  /\ NoBlockingChange(p, i, r)
  /\ ValidAmounts(r, Amount(p, i))
  /\ SettleDispute(p, i, LegRecipient(p, i, "freelancer", project[p].freelancer),
                   r.freelancerAmount, r.clientAmount)
  /\ milestone' = [milestone EXCEPT ![p][i] =
       [status |-> SettledStatus(r.kind), reviewEnteredAt |-> 0]]
  /\ SpendActionNonce(p, i)
  /\ UNCHANGED <<now, consentVars, adminVars, projectCount, emergencyReadyAt>>

(* Mutant: a timeout also takes delivered work. *)
DisputeTimedOut_Delivered(p, i) ==
  dispute[p][i].active /\ now >= dispute[p][i].raisedAt + DISPUTE_TIMEOUT

(* resolveStaleDisputeByTimeout may end the dispute for the client. *)
DisputeTimedOut(p, i) ==
  /\ dispute[p][i].active
  /\ now >= dispute[p][i].raisedAt + DISPUTE_TIMEOUT
  /\ milestone[p][i].status = "Pending"

ResolveStaleDisputeByTimeout(caller, p, i) ==
  /\ ~paused /\ Operable(p)
  /\ project[p].client = caller
  /\ i \in Milestones(p)
  /\ DisputeTimedOut(p, i)
  /\ SettleDispute(p, i, NoAddress, 0, Amount(p, i))
  /\ milestone' = [milestone EXCEPT ![p][i].status = "Refunded"]
  /\ UNCHANGED <<now, consentVars, multisigVars, adminVars, projectCount,
                 actionNonce, emergencyReadyAt>>

-----------------------------------------------------------------------------
(* Payout recipients.                                                      *)

PartyOf(p, leg) ==
  IF leg = "freelancer" THEN project[p].freelancer ELSE project[p].client

ScopeOf(p, scope) == scope = ProjectWide \/ scope \in Milestones(p)

SetPartyAuthorizedRecipient(caller, p, scope, leg, new) ==
  /\ Exists(p) /\ PartyOf(p, leg) = caller /\ ScopeOf(p, scope)
  /\ AuthorizeRecipient(p, scope, leg, new)
  /\ UNCHANGED <<now, authorizationNonce, signedConsents, alternativeVars,
                 multisigVars, adminVars, projectVars, nonceVars, tokenVars>>

SignRecipientConsent(party, p, scope, leg, new, nonce, deadline) ==
  /\ Exists(p) /\ party \in Accounts /\ PartyOf(p, leg) = party
  /\ Cardinality(signedConsents) < MaxSignedConsents
  /\ SignConsent(party, p, scope, leg, new, nonce, deadline)
  /\ UNCHANGED <<now, partyAuthorized, authorizationNonce, alternativeVars,
                 multisigVars, adminVars, projectVars, nonceVars, tokenVars>>

SetPartyAuthorizedRecipientBySig(consent) ==
  /\ Exists(consent.project)
  /\ ScopeOf(consent.project, consent.scope)
  /\ consent.signer = PartyOf(consent.project, consent.leg)
  /\ UseConsent(consent)
  /\ UNCHANGED <<now, signedConsents, alternativeVars,
                 multisigVars, adminVars, projectVars, nonceVars, tokenVars>>

AlternativeSubject(p, i, leg, new) ==
  [domain |-> "SET_ALT_RECIPIENT", project |-> p, milestone |-> i, leg |-> leg,
   recipient |-> new, raisedAt |-> dispute[p][i].raisedAt,
   nonce |-> actionNonce[p][i]]

(* setAlternativeRecipient: a vote, and with the deciding vote the proposal. *)
SetAlternativeRecipient(caller, p, i, leg, new) ==
  /\ ~paused /\ Exists(p)
  /\ i \in Milestones(p)
  /\ dispute[p][i].active
  /\ new # Registry
  /\ ArbitratorVote(caller, AlternativeSubject(p, i, leg, new))
  /\ \/ /\ QuorumWith(caller, AlternativeSubject(p, i, leg, new))
        /\ actionNonce[p][i] < MaxProposals
        /\ SpendActionNonce(p, i)
        /\ ProposeAlternative(p, i, leg, new)
     \/ /\ ~QuorumWith(caller, AlternativeSubject(p, i, leg, new))
        /\ UNCHANGED <<actionNonce, alternativeVars>>
  /\ UNCHANGED <<now, consentVars, adminVars, projectVars, emergencyNonce,
                 emergencyReadyAt, tokenVars>>

ExecuteAlternativeRecipient(caller, p, i, leg) ==
  /\ Exists(p)
  /\ i \in Milestones(p)
  /\ dispute[p][i].active
  /\ PartyOf(p, leg) = caller
  /\ ExecuteAlternative(p, i, leg)
  /\ UNCHANGED <<now, consentVars, multisigVars, adminVars, projectVars,
                 nonceVars, tokenVars>>

-----------------------------------------------------------------------------
(* Cancellation.                                                           *)

(* Mutant: the loop skips disputed milestones. *)
StaleDisputes_Skipped(p) == {}

(* The milestones cancelProject's loop closes, by the branch it takes.      *)
StaleDisputes(p) == {i \in Milestones(p) : dispute[p][i].active}
DueReviews(p) ==
  {i \in Milestones(p) : ~dispute[p][i].active /\ milestone[p][i].status = "Submitted"}
Untouched(p) ==
  {i \in Milestones(p) : ~dispute[p][i].active /\ milestone[p][i].status = "Pending"}

(* The loop reaches milestone i without reverting. *)
CancelMayClose(p, i) ==
  /\ dispute[p][i].active =>
       /\ milestone[p][i].status = "Pending"
       /\ now >= dispute[p][i].raisedAt + CANCEL_TIMEOUT
  /\ ~dispute[p][i].active => milestone[p][i].status # "Approved"
  /\ i \in DueReviews(p) =>
       /\ milestone[p][i].reviewEnteredAt # 0
       /\ now >= milestone[p][i].reviewEnteredAt + CANCEL_TIMEOUT

SumOfAmounts(p, S) == MapThenSumSet(LAMBDA i : Amount(p, i), S)

(* The milestones fall due one after the other, so at most one of them is   *)
(* disputed or in review and the loop makes at most one payout; the order   *)
(* of its checks of free liquidity does not matter.                         *)
CancelProject(caller, p) ==
  LET stale   == StaleDisputes(p)
      due     == DueReviews(p)
      closed  == stale \cup due \cup Untouched(p)
      payout  == SumOfAmounts(p, due)
      reserve == SumOfAmounts(p, stale)
      refundable == AvailableLiquidity(p) - payout
      t == project[p].token
  IN
  /\ ~paused /\ Operable(p)
  /\ project[p].client = caller
  /\ \A i \in Milestones(p) : CancelMayClose(p, i)
  /\ due # {} => FreeLiquidity(p) >= payout /\ CanSettle(p, payout)
  /\ project[p].activeDisputeCount >= Cardinality(stale)
  /\ project[p].reservedAmount >= reserve
  /\ MayMarkSettled(p, Cardinality(closed))
  /\ LET reserved == project[p].reservedAmount - reserve
         refunded == IF refundable <= reserved THEN 0 ELSE refundable - reserved
     IN
     /\ project' = [project EXCEPT ![p] =
          [project[p] EXCEPT !.activeDisputeCount = @ - Cardinality(stale),
                             !.reservedAmount = reserved,
                             !.releasedAmount = @ + payout,
                             !.refundedAmount = @ + refunded,
                             !.settledMilestoneCount = @ + Cardinality(closed),
                             !.status = "Cancelled"]]
     /\ ReduceOutstanding(t, payout + refunded)
     /\ \E f \in {LegRecipient(p, i, "freelancer", project[p].freelancer) : i \in due}
                 \cup (IF due = {} THEN {NoAddress} ELSE {}) :
          Pay(t, f, payout, ProjectRecipient(p, project[p].client), refunded)
  /\ milestone' = [milestone EXCEPT ![p] = [i \in MilestoneIndexes |->
       IF i \in due THEN [status |-> "Released", reviewEnteredAt |-> 0]
       ELSE IF i \in stale THEN [status |-> "Refunded", reviewEnteredAt |-> 0]
       ELSE IF i \in closed THEN [@[i] EXCEPT !.status = "Refunded"]
       ELSE @[i]]]
  /\ dispute' = [dispute EXCEPT ![p] =
       [i \in MilestoneIndexes |-> IF i \in stale THEN NoDispute ELSE @[i]]]
  /\ emergencyNonce' = [emergencyNonce EXCEPT ![p] =
       [i \in MilestoneIndexes |-> IF i \in stale THEN @[i] + 1 ELSE @[i]]]
  /\ ClearAlternativesOf(p, stale)
  /\ UNCHANGED <<now, consentVars, multisigVars, adminVars, projectCount,
                 actionNonce, emergencyReadyAt>>

(* Not gated by pause. *)
EmergencyAdminCancel(caller, p) ==
  LET pending == {i \in Milestones(p) : milestone[p][i].status = "Pending"}
      refundable == FreeLiquidity(p)
  IN
  /\ HasRole(DEFAULT_ADMIN_ROLE, caller)
  /\ Operable(p)
  /\ project[p].activeDisputeCount = 0
  /\ \A i \in Milestones(p) : milestone[p][i].status \notin {"Approved", "Submitted"}
  /\ MayMarkSettled(p, Cardinality(pending))
  /\ project' = [project EXCEPT ![p] =
       [project[p] EXCEPT !.refundedAmount = @ + refundable,
                          !.settledMilestoneCount = @ + Cardinality(pending),
                          !.status = "Cancelled"]]
  /\ milestone' = [milestone EXCEPT ![p] = [i \in MilestoneIndexes |->
       IF i \in pending THEN [status |-> "Refunded", reviewEnteredAt |-> 0]
       ELSE @[i]]]
  /\ ReduceOutstanding(project[p].token, refundable)
  /\ Pay(project[p].token, NoAddress, 0,
         ProjectRecipient(p, project[p].client), refundable)
  /\ UNCHANGED <<now, recipientVars, multisigVars, adminVars, projectCount,
                 dispute, nonceVars>>

-----------------------------------------------------------------------------
(* The admin's timelocked dispute resolution; not gated by pause.          *)

(* Mutant: proposals are not bound to the nonce of the dispute. *)
EmergencyAction_NoNonce(p, i, r) ==
  [project |-> p, milestone |-> i, nonce |-> 0, resolution |-> r]

EmergencyAction(p, i, r) ==
  [project |-> p, milestone |-> i, nonce |-> emergencyNonce[p][i],
   resolution |-> r]

(* _validateEmergencyResolvePayload *)
ValidEmergency(p, i, r) ==
  /\ Operable(p)
  /\ i \in Milestones(p)
  /\ dispute[p][i].active
  /\ KindAllowed(p, i, r)
  /\ ValidAmounts(r, Amount(p, i))

ProposeEmergencyResolveDispute(caller, p, i, r) ==
  LET hash == EmergencyAction(p, i, r) IN
  /\ HasRole(DEFAULT_ADMIN_ROLE, caller)
  /\ ValidEmergency(p, i, r)
  /\ \A e \in emergencyReadyAt : e[1] # hash
  /\ emergencyReadyAt' =
       emergencyReadyAt \cup {<<hash, now + EMERGENCY_RESOLUTION_DELAY>>}
  /\ UNCHANGED <<now, recipientVars, multisigVars, adminVars, projectVars,
                 actionNonce, emergencyNonce, tokenVars>>

CancelEmergencyResolveDispute(caller, p, i, r) ==
  LET proposed == {e \in emergencyReadyAt : e[1] = EmergencyAction(p, i, r)} IN
  /\ HasRole(DEFAULT_ADMIN_ROLE, caller)
  /\ proposed # {}
  /\ emergencyReadyAt' = emergencyReadyAt \ proposed
  /\ UNCHANGED <<now, recipientVars, multisigVars, adminVars, projectVars,
                 actionNonce, emergencyNonce, tokenVars>>

EmergencyResolveDispute(caller, p, i, r) ==
  LET proposed == {e \in emergencyReadyAt : e[1] = EmergencyAction(p, i, r)} IN
  /\ HasRole(DEFAULT_ADMIN_ROLE, caller)
  /\ \E e \in proposed : now >= e[2]
  /\ ValidEmergency(p, i, r)
  /\ emergencyReadyAt' = emergencyReadyAt \ proposed
  /\ SettleDispute(p, i, LegRecipient(p, i, "freelancer", project[p].freelancer),
                   r.freelancerAmount, r.clientAmount)
  /\ milestone' = [milestone EXCEPT ![p][i] =
       [status |-> SettledStatus(r.kind), reviewEnteredAt |-> 0]]
  /\ SpendActionNonce(p, i)
  /\ UNCHANGED <<now, consentVars, multisigVars, adminVars, projectCount>>

-----------------------------------------------------------------------------
(* The environment: time, and the token contract.                          *)

Tick ==
  /\ now < MaxTime
  /\ now' = now + 1
  /\ UNCHANGED <<recipientVars, multisigVars, adminVars, projectVars, nonceVars,
                 tokenVars>>

(* Somebody transfers tokens to the registry outside fundProject. *)
StrayTransfer(from, t, amount) ==
  /\ balance[t][from] >= amount
  /\ balance' = [balance EXCEPT ![t][from] = @ - amount, ![t][Registry] = @ + amount]
  /\ UNCHANGED <<now, recipientVars, multisigVars, adminVars, projectVars,
                 nonceVars, blocked>>

(* The issuer of the token blocks an account, or lifts the block. *)
SetBlocked(t, a, isBlocked) ==
  /\ blocked' = [blocked EXCEPT ![t] = IF isBlocked THEN @ \cup {a} ELSE @ \ {a}]
  /\ UNCHANGED <<now, recipientVars, multisigVars, adminVars, projectVars,
                 nonceVars, balance>>

-----------------------------------------------------------------------------

AdminStep ==
  \/ ChangeRoles
  \/ \E c \in Accounts : Pause(c) \/ Unpause(c)
  \/ \E c \in Accounts, t \in Tokens :
       \/ AttestTokenReviewForAllowlist(c, t)
       \/ \E allowed \in BOOLEAN : SetAllowedToken(c, t, allowed)
       \/ \E to \in Accounts, amount \in StrayAmounts :
            SweepUntrackedToken(c, t, to, amount)

ProjectStep ==
  \/ \E parties \in Parties, t \in Tokens, plan \in Plans :
       CreateProject(parties[1], parties[2], t, plan)
  \/ \E c \in Accounts, p \in Projects :
       \/ \E amount \in FundingAmounts : FundProject(c, p, amount)
       \/ CancelProject(c, p)
       \/ EmergencyAdminCancel(c, p)

MilestoneStep ==
  \E c \in Accounts, p \in Projects, i \in MilestoneIndexes :
    \/ SubmitMilestone(c, p, i)
    \/ ApproveMilestone(c, p, i)
    \/ ReleaseMilestone(c, p, i)
    \/ RaiseDispute(c, p, i)
    \/ AppendDisputeEvidence(c, p, i)
    \/ ResolveStaleDisputeByTimeout(c, p, i)

ResolutionStep ==
  \E c \in Accounts, p \in Projects, i \in MilestoneIndexes, r \in Resolutions :
    \/ VoteOnDispute(c, p, i, r)
    \/ ResolveDispute(c, p, i, r)
    \/ ProposeEmergencyResolveDispute(c, p, i, r)
    \/ CancelEmergencyResolveDispute(c, p, i, r)
    \/ EmergencyResolveDispute(c, p, i, r)

RecipientStep ==
  \/ \E c \in Accounts, p \in Projects, choice \in RecipientChoices :
       LET scope == choice[1]  leg == choice[2]  new == choice[3] IN
       \/ SetPartyAuthorizedRecipient(c, p, scope, leg, new)
       \/ scope # ProjectWide /\ SetAlternativeRecipient(c, p, scope, leg, new)
       \/ \E nonce \in 0..MaxSignedConsents, deadline \in 1..MaxTime :
            SignRecipientConsent(c, p, scope, leg, new, nonce, deadline)
  \/ \E c \in Accounts, p \in Projects, i \in MilestoneIndexes, l \in Legs :
       ExecuteAlternativeRecipient(c, p, i, l)
  \/ \E consent \in signedConsents : SetPartyAuthorizedRecipientBySig(consent)

EnvironmentStep ==
  \/ Tick
  \/ \E t \in Tokens, a \in Accounts, amount \in StrayAmounts :
       StrayTransfer(a, t, amount)
  \/ \E t \in Tokens, a \in Blockable, b \in BOOLEAN : SetBlocked(t, a, b)

Next == AdminStep \/ ProjectStep \/ MilestoneStep \/ ResolutionStep
        \/ RecipientStep \/ EnvironmentStep

Spec == Init /\ [][Next]_vars

=============================================================================
