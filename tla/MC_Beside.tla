----------------------------- MODULE MC_Beside -----------------------------
(***************************************************************************)
(* What stands beside the registry, in scenes: the rows and the cursor     *)
(* state event sync keeps of recipients and emergency decisions, the pages *)
(* that offer its transactions, and the sync runs themselves on a chain    *)
(* that reorganises deeply.  The last is the EventSync of the .cfg, each   *)
(* other scene an instance with its own bounds.                            *)
(***************************************************************************)
EXTENDS EventSync, TLC

CONSTANTS
  Scenes, Registry, NoAddress, admin, arb, client, freelancer, other, usdc,
  pause, unpause, redirect, r1

VARIABLES
  scene, now,
  partyAuthorized, authorizationNonce, signedConsents, alternative, pendingAlternative,
  members, arbitratorCount, arbitratorThreshold, arbitratorConfigNonce, votes,
  executedActions, paused, tokenReviewAttested, allowedTokens, projectCount, project,
  milestone, dispute, actionNonce, emergencyNonce, emergencyReadyAt, tokenOutstanding,
  balance, blocked,
  recipientRow, proposalRows, cursor, cancelPanel, adminPanel

registryVars ==
  <<now, partyAuthorized, authorizationNonce, signedConsents, alternative,
    pendingAlternative, members, arbitratorCount, arbitratorThreshold,
    arbitratorConfigNonce, votes, executedActions, paused, tokenReviewAttested,
    allowedTokens, projectCount, project, milestone, dispute, actionNonce,
    emergencyNonce, emergencyReadyAt, tokenOutstanding, balance, blocked>>
cursorVars == <<recipientRow, proposalRows, cursor>>
panelVars == <<cancelPanel, adminPanel>>
sceneVars == <<vars, scene, registryVars, cursorVars, panelVars>>

Absent == "absent"
NoCursor == recipientRow = Absent /\ proposalRows = Absent /\ cursor = Absent
NoPanels == cancelPanel = Absent /\ adminPanel = Absent
NoRegistry ==
  /\ now = Absent /\ partyAuthorized = Absent /\ authorizationNonce = Absent
  /\ signedConsents = Absent /\ alternative = Absent /\ pendingAlternative = Absent
  /\ members = Absent /\ arbitratorCount = Absent /\ arbitratorThreshold = Absent
  /\ arbitratorConfigNonce = Absent /\ votes = Absent /\ executedActions = Absent
  /\ paused = Absent /\ tokenReviewAttested = Absent /\ allowedTokens = Absent
  /\ projectCount = Absent /\ project = Absent /\ milestone = Absent
  /\ dispute = Absent /\ actionNonce = Absent /\ emergencyNonce = Absent
  /\ emergencyReadyAt = Absent /\ tokenOutstanding = Absent /\ balance = Absent
  /\ blocked = Absent

In(s) == scene = s

(* So many milestones of that price, due one after the other from 1. *)
PlanOf(price, n) ==
  [milestoneCount |-> n,
   runningTotal   |-> [k \in 0..n |-> k * price],
   deadline       |-> [i \in 0..(n - 1) |-> i + 1]]
Refund(n) == [kind |-> "RefundToClient", freelancerAmount |-> 0, clientAmount |-> n]
Release(n) == [kind |-> "ReleaseToFreelancer", freelancerAmount |-> n, clientAmount |-> 0]
Split(f, c) == [kind |-> "Split", freelancerAmount |-> f, clientAmount |-> c]
OneArbiter == {<<"ARBITRATOR_ROLE", arb>>}

(* Recipients the arbitrators propose, and the admin's proposals. *)
Recipients == INSTANCE CursorState WITH
  Accounts <- {admin, arb, client, freelancer}, Deployer <- admin, Tokens <- {usdc},
  RoleChanges <- OneArbiter, MaxConfigNonce <- 1, MaxProjects <- 1, MAX_MILESTONES <- 1,
  Plans <- {PlanOf(2, 1)}, Parties <- {<<client, freelancer>>},
  Resolutions <- {Split(1, 1), Refund(2)}, FundingAmounts <- {2},
  RecipientChoices <- {<<0, "freelancer", admin>>, <<0, "freelancer", arb>>,
                       <<0, "freelancer", NoAddress>>, <<0, "client", arb>>},
  InitialBalance <- 2, Blockable <- {}, StrayAmounts <- {},
  MaxSignedConsents <- 0, ALTERNATIVE_RECIPIENT_DELAY <- 1, EMERGENCY_RESOLUTION_DELAY <- 1,
  CANCEL_TIMEOUT <- 1, DISPUTE_TIMEOUT <- 1, MAX_UINT256 <- 9, MaxProposals <- 1,
  MaxTime <- 3, MayConsent <- FALSE, MaxProposalRows <- 3

(* Recipients the parties choose as well. *)
Consents == INSTANCE CursorState WITH
  Accounts <- {admin, arb, client, freelancer}, Deployer <- admin, Tokens <- {usdc},
  RoleChanges <- OneArbiter, MaxConfigNonce <- 1, MaxProjects <- 1, MAX_MILESTONES <- 1,
  Plans <- {PlanOf(2, 1)}, Parties <- {<<client, freelancer>>},
  Resolutions <- {Refund(2)}, FundingAmounts <- {2},
  RecipientChoices <- {<<0, "freelancer", arb>>},
  InitialBalance <- 2, Blockable <- {}, StrayAmounts <- {},
  MaxSignedConsents <- 1, ALTERNATIVE_RECIPIENT_DELAY <- 1, EMERGENCY_RESOLUTION_DELAY <- 1,
  CANCEL_TIMEOUT <- 1, DISPUTE_TIMEOUT <- 1, MAX_UINT256 <- 9, MaxProposals <- 1,
  MaxTime <- 2, MayConsent <- TRUE, MaxProposalRows <- 1

(* What the panels offer of two milestones. *)
Offering == INSTANCE PanelSessions WITH
  Accounts <- {admin, arb, client, freelancer}, Deployer <- admin, Tokens <- {usdc},
  RoleChanges <- OneArbiter, MaxConfigNonce <- 1, MaxProjects <- 1, MAX_MILESTONES <- 2,
  Plans <- {PlanOf(1, 2)}, Parties <- {<<client, freelancer>>},
  Resolutions <- {Refund(1), Release(1)}, FundingAmounts <- {2},
  RecipientChoices <- {}, InitialBalance <- 2, Blockable <- {}, StrayAmounts <- {},
  MaxSignedConsents <- 0, ALTERNATIVE_RECIPIENT_DELAY <- 1, EMERGENCY_RESOLUTION_DELAY <- 1,
  CANCEL_TIMEOUT <- 1, DISPUTE_TIMEOUT <- 2, MAX_UINT256 <- 9, MaxProposals <- 0,
  MaxTime <- 3, Panels <- {}

(* What the dispute card offers of one. *)
Card == INSTANCE PanelSessions WITH
  Accounts <- {admin, arb, client, freelancer, other}, Deployer <- admin, Tokens <- {usdc},
  RoleChanges <- OneArbiter, MaxConfigNonce <- 1, MaxProjects <- 1, MAX_MILESTONES <- 1,
  Plans <- {PlanOf(2, 1)}, Parties <- {<<client, freelancer>>},
  Resolutions <- {Refund(2), Split(1, 1), Split(2, 1)}, FundingAmounts <- {2},
  RecipientChoices <- {<<0, "freelancer", other>>},
  InitialBalance <- 2, Blockable <- {}, StrayAmounts <- {},
  MaxSignedConsents <- 0, ALTERNATIVE_RECIPIENT_DELAY <- 1, EMERGENCY_RESOLUTION_DELAY <- 1,
  CANCEL_TIMEOUT <- 1, DISPUTE_TIMEOUT <- 2, MAX_UINT256 <- 9, MaxProposals <- 1,
  MaxTime <- 3, Panels <- {}

(* Panels that stay open while the project moves on. *)
Sessions == INSTANCE PanelSessions WITH
  Accounts <- {admin, client, freelancer}, Deployer <- admin, Tokens <- {usdc},
  RoleChanges <- {}, MaxConfigNonce <- 1, MaxProjects <- 1, MAX_MILESTONES <- 1,
  Plans <- {PlanOf(2, 1)}, Parties <- {<<client, freelancer>>},
  Resolutions <- {}, FundingAmounts <- {2},
  RecipientChoices <- {}, InitialBalance <- 2, Blockable <- {}, StrayAmounts <- {},
  MaxSignedConsents <- 0, ALTERNATIVE_RECIPIENT_DELAY <- 1, EMERGENCY_RESOLUTION_DELAY <- 1,
  CANCEL_TIMEOUT <- 1, DISPUTE_TIMEOUT <- 2, MAX_UINT256 <- 9, MaxProposals <- 0,
  MaxTime <- 4, Panels <- {"cancel", "admin"}

(* Blocks of a chain that reorganises as deep as the rewind reaches. *)
Pauses == {pause, unpause}
Redirected == redirect :> 1
ReorgBlocks == {<<>>, <<pause>>, <<redirect>>, <<pause, unpause>>}

-----------------------------------------------------------------------------
SceneInit ==
  /\ scene \in Scenes
  /\ Init
  /\ \/ In("recipients") /\ Recipients!CursorInit /\ NoPanels
     \/ In("consents") /\ Consents!CursorInit /\ NoPanels
     \/ In("offering") /\ Offering!SessionInit /\ NoCursor
     \/ In("card") /\ Card!SessionInit /\ NoCursor
     \/ In("sessions") /\ Sessions!SessionInit /\ NoCursor
     \/ In("deep") /\ NoRegistry /\ NoCursor /\ NoPanels

BesideRegistry ==
  \/ In("recipients") /\ Recipients!CursorNext /\ UNCHANGED panelVars
  \/ In("consents") /\ Consents!CursorNext /\ UNCHANGED panelVars
  \/ In("offering") /\ Offering!SessionNext /\ UNCHANGED cursorVars
  \/ In("card") /\ Card!SessionNext /\ UNCHANGED cursorVars
  \/ In("sessions") /\ Sessions!SessionNext /\ UNCHANGED cursorVars

SyncRuns(Step) ==
  In("deep") /\ Step /\ UNCHANGED <<scene, registryVars, cursorVars, panelVars>>

SceneNext ==
  \/ BesideRegistry /\ UNCHANGED <<scene, vars>>
  \/ SyncRuns(Next)

(* FairSpec of EventSync, in its scene. *)
GoesOn(r) == SyncRuns(RunStep(r))
IsTriggered(r) == SyncRuns(Trigger(r))

FairSceneSpec ==
  /\ SceneInit /\ [][SceneNext]_sceneVars
  /\ \A r \in Runs : WF_sceneVars(GoesOn(r)) /\ WF_sceneVars(IsTriggered(r))

-----------------------------------------------------------------------------
(* What the rows and the cursor state name as proposed, chosen or executed, *)
(* the registry holds or has done, and they leave no live proposal out: see *)
(* RegistryMirror and CursorState.                                          *)
MirrorsFollowDisputes ==
  /\ In("recipients") =>
       /\ Recipients!ProposedMirrors /\ Recipients!PendingShown /\ Recipients!NothingInvented
       /\ Recipients!PendingWasProposed /\ Recipients!ProposedIsLive
  /\ In("consents") =>
       Consents!NothingInvented /\ Consents!PendingWasProposed /\ Consents!ExecutedIsActive

(* A page offers what the registry would accept, a confirmation that has    *)
(* been open for long is not refused for that, and a cancellation refunds   *)
(* and releases what the panel lists: see PanelSessions.                    *)
OffersHold ==
  /\ In("offering") =>
       Offering!CancelOfferMatches /\ Offering!AdminPreflightMatches /\ Offering!TimeoutOfferMatches
  /\ In("card") =>
       Card!PartyOffersMatch /\ Card!ResolutionOfferMatches /\ Card!EmergencyOffersWork
  /\ In("sessions") => Sessions!ConfirmationsWork
OffersMatchRegistry ==
  [][OffersHold' /\ (In("offering") => Offering!CancelDoesAsListed)]_sceneVars
=============================================================================
