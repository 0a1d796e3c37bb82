----------------------------- MODULE MC_Registry -----------------------------
(***************************************************************************)
(* The registry in scenes, each an instance with its own accounts, plans   *)
(* and bounds, for one of its questions: who decides a dispute, where the  *)
(* money may go, what two projects that share a token owe, and whether the *)
(* money comes out at last.                                                *)
(***************************************************************************)
EXTENDS Naturals, FiniteSets

CONSTANTS
  Scenes, Registry, NoAddress, admin, arb, arb2, client, freelancer, other, usdc

VARIABLES
  scene, now,
  partyAuthorized, authorizationNonce, signedConsents, alternative, pendingAlternative,
  members, arbitratorCount, arbitratorThreshold, arbitratorConfigNonce, votes,
  executedActions, paused, tokenReviewAttested, allowedTokens, projectCount, project,
  milestone, dispute, actionNonce, emergencyNonce, emergencyReadyAt, tokenOutstanding,
  balance, blocked

vars == <<scene, now, partyAuthorized, authorizationNonce, signedConsents, alternative,
          pendingAlternative, members, arbitratorCount, arbitratorThreshold,
          arbitratorConfigNonce, votes, executedActions, paused, tokenReviewAttested,
          allowedTokens, projectCount, project, milestone, dispute, actionNonce,
          emergencyNonce, emergencyReadyAt, tokenOutstanding, balance, blocked>>

In(s) == scene = s

(* One milestone of that price, due at 1. *)
PlanOf(price) ==
  [milestoneCount |-> 1, runningTotal |-> [k \in 0..1 |-> k * price],
   deadline |-> [i \in {0} |-> 1]]
ToFreelancer(f) == [kind |-> "ReleaseToFreelancer", freelancerAmount |-> f, clientAmount |-> 0]
ToClient(c) == [kind |-> "RefundToClient", freelancerAmount |-> 0, clientAmount |-> c]
Split(f, c) == [kind |-> "Split", freelancerAmount |-> f, clientAmount |-> c]

(* Two accounts may become arbitrators, and stop to be. *)
Council == INSTANCE EscrowProperties WITH
  Accounts <- {admin, arb, arb2, client, freelancer}, Deployer <- admin, Tokens <- {usdc},
  RoleChanges <- {<<"ARBITRATOR_ROLE", arb>>, <<"ARBITRATOR_ROLE", arb2>>},
  MaxConfigNonce <- 3, MaxProjects <- 1, MAX_MILESTONES <- 1, Plans <- {PlanOf(2)},
  Parties <- {<<client, freelancer>>},
  Resolutions <- {ToFreelancer(2), Split(1, 1), Split(2, 1)}, FundingAmounts <- {2},
  RecipientChoices <- {}, InitialBalance <- 2, Blockable <- {}, StrayAmounts <- {},
  MaxSignedConsents <- 0, ALTERNATIVE_RECIPIENT_DELAY <- 1, EMERGENCY_RESOLUTION_DELAY <- 1,
  CANCEL_TIMEOUT <- 1, DISPUTE_TIMEOUT <- 1, MAX_UINT256 <- 9, MaxProposals <- 0,
  MaxTime <- 3

(* What an arbitrator may propose: another address, none, the other party's. *)
Proposing == INSTANCE EscrowProperties WITH
  Accounts <- {admin, arb, client, freelancer, other}, Deployer <- admin, Tokens <- {usdc},
  RoleChanges <- {<<"ARBITRATOR_ROLE", arb>>},
  MaxConfigNonce <- 1, MaxProjects <- 1, MAX_MILESTONES <- 1, Plans <- {PlanOf(2)},
  Parties <- {<<client, freelancer>>}, Resolutions <- {Split(1, 1)}, FundingAmounts <- {2},
  RecipientChoices <- {<<0, "freelancer", other>>, <<0, "freelancer", NoAddress>>,
                       <<0, "client", other>>, <<1, "client", admin>>},
  InitialBalance <- 2, Blockable <- {}, StrayAmounts <- {},
  MaxSignedConsents <- 0, ALTERNATIVE_RECIPIENT_DELAY <- 1, EMERGENCY_RESOLUTION_DELAY <- 1,
  CANCEL_TIMEOUT <- 1, DISPUTE_TIMEOUT <- 1, MAX_UINT256 <- 9, MaxProposals <- 2,
  MaxTime <- 2

(* What the parties sign, for a milestone and for the project. *)
Consenting == INSTANCE EscrowProperties WITH
  Accounts <- {admin, client, freelancer, other}, Deployer <- admin, Tokens <- {usdc},
  RoleChanges <- {}, MaxConfigNonce <- 0, MaxProjects <- 1, MAX_MILESTONES <- 1,
  Plans <- {PlanOf(2)}, Parties <- {<<client, freelancer>>}, Resolutions <- {Split(1, 1)},
  FundingAmounts <- {2},
  RecipientChoices <- {<<0, "freelancer", other>>, <<1, "freelancer", admin>>,
                       <<1, "client", other>>},
  InitialBalance <- 2, Blockable <- {}, StrayAmounts <- {},
  MaxSignedConsents <- 2, ALTERNATIVE_RECIPIENT_DELAY <- 1, EMERGENCY_RESOLUTION_DELAY <- 1,
  CANCEL_TIMEOUT <- 1, DISPUTE_TIMEOUT <- 1, MAX_UINT256 <- 9, MaxProposals <- 0,
  MaxTime <- 1

(* Two projects share a token, one started by each party. *)
Sharing == INSTANCE EscrowProperties WITH
  Accounts <- {admin, client, freelancer}, Deployer <- admin, Tokens <- {usdc},
  RoleChanges <- {}, MaxConfigNonce <- 0, MaxProjects <- 2, MAX_MILESTONES <- 1,
  Plans <- {PlanOf(1)}, Parties <- {<<client, freelancer>>, <<freelancer, client>>},
  Resolutions <- {}, FundingAmounts <- {1}, RecipientChoices <- {},
  InitialBalance <- 1, Blockable <- {}, StrayAmounts <- {1},
  MaxSignedConsents <- 0, ALTERNATIVE_RECIPIENT_DELAY <- 1, EMERGENCY_RESOLUTION_DELAY <- 1,
  CANCEL_TIMEOUT <- 1, DISPUTE_TIMEOUT <- 1, MAX_UINT256 <- 9, MaxProposals <- 0,
  MaxTime <- 2

(* Nobody but the client wants the dispute to end. *)
Exit == INSTANCE EscrowProperties WITH
  Accounts <- {admin, arb, client, freelancer}, Deployer <- admin, Tokens <- {usdc},
  RoleChanges <- {<<"ARBITRATOR_ROLE", arb>>}, MaxConfigNonce <- 1, MaxProjects <- 1,
  MAX_MILESTONES <- 1, Plans <- {PlanOf(2)}, Parties <- {<<client, freelancer>>},
  Resolutions <- {ToFreelancer(2), ToClient(2), ToClient(1)}, FundingAmounts <- {2},
  RecipientChoices <- {}, InitialBalance <- 2, Blockable <- {}, StrayAmounts <- {},
  MaxSignedConsents <- 0, ALTERNATIVE_RECIPIENT_DELAY <- 1, EMERGENCY_RESOLUTION_DELAY <- 1,
  CANCEL_TIMEOUT <- 1, DISPUTE_TIMEOUT <- 2, MAX_UINT256 <- 9, MaxProposals <- 0,
  MaxTime <- 4

(* A freelancer the token's issuer may block, and the recipient it names or *)
(* two arbitrators give it.                                                *)
Paying == INSTANCE EscrowProperties WITH
  Accounts <- {admin, arb, arb2, client, freelancer, other}, Deployer <- admin, Tokens <- {usdc},
  RoleChanges <- {<<"ARBITRATOR_ROLE", arb>>, <<"ARBITRATOR_ROLE", arb2>>},
  MaxConfigNonce <- 3, MaxProjects <- 1, MAX_MILESTONES <- 1,
  Plans <- {PlanOf(2)}, Parties <- {<<client, freelancer>>}, Resolutions <- {ToClient(1)},
  FundingAmounts <- {2}, RecipientChoices <- {<<0, "freelancer", other>>},
  InitialBalance <- 2, Blockable <- {freelancer}, StrayAmounts <- {},
  MaxSignedConsents <- 0, ALTERNATIVE_RECIPIENT_DELAY <- 1, EMERGENCY_RESOLUTION_DELAY <- 1,
  CANCEL_TIMEOUT <- 1, DISPUTE_TIMEOUT <- 2, MAX_UINT256 <- 9, MaxProposals <- 1,
  MaxTime <- 2

-----------------------------------------------------------------------------
Init ==
  /\ scene \in Scenes
  /\ \/ In("council") /\ Council!Init
     \/ In("proposing") /\ Proposing!Init
     \/ In("consenting") /\ Consenting!Init
     \/ In("sharing") /\ Sharing!Init
     \/ In("exit") /\ Exit!Init
     \/ In("paying") /\ Paying!Init

Next ==
  /\ UNCHANGED scene
  /\ \/ In("council") /\ Council!Next
     \/ In("proposing") /\ Proposing!Next
     \/ In("consenting") /\ Consenting!Next
     \/ In("sharing") /\ Sharing!Next
     \/ In("exit") /\ Exit!Next
     \/ In("paying") /\ Paying!Next

(* Time passes; the client takes back what it may take back and pays what   *)
(* it approved; the freelancer, should the token refuse it, comes to name   *)
(* another recipient.  The registry may be paused and unpaused and the      *)
(* block lifted and set again meanwhile, hence strong fairness.             *)
Spec ==
  /\ Init /\ [][Next]_vars
  /\ WF_vars(UNCHANGED scene /\ In("exit") /\ Exit!Tick)
  /\ SF_vars(UNCHANGED scene /\ In("exit") /\ Exit!ClientTakesBack(1, 0))
  /\ SF_vars(UNCHANGED scene /\ In("paying") /\ Paying!ClientPays(1, 0))
  /\ WF_vars(UNCHANGED scene /\ In("paying") /\ Paying!PartyNames(1, 0, "freelancer", other))

-----------------------------------------------------------------------------
(* What the arbitrators executed is spent and cannot be voted or decided    *)
(* again; a recipient they propose lives only in the dispute it was         *)
(* proposed in and waits out its delay there; a consent is used once, for   *)
(* the party that signed it and in the order it was signed; and the         *)
(* registry holds what it owes to both projects.                            *)
BooksAreSound ==
  /\ In("council") => Council!ApprovalsServeOnce
  /\ In("proposing") => Proposing!ApprovalsServeOnce
  /\ In("consenting") => Consenting!ApprovalsServeOnce
  /\ In("sharing") => Sharing!TokensCoverLiabilities

(* A vote is one the multisig allows, on a dispute open at that moment, and *)
(* money goes to the party it is due to or to whom that party named.        *)
MovesAreApproved ==
  /\ In("council") => Council!VotesThroughMultisig
  /\ In("proposing") => Proposing!PaysConsentedRecipients
  /\ In("consenting") => Consenting!PaysConsentedRecipients

(* In every scene decisions, payouts and books keep what EscrowProperties   *)
(* says of them.                                                            *)
PromisesAreKept == [][BooksAreSound' /\ MovesAreApproved]_vars

Locked ==
  \/ In("exit") /\ Exit!MayTimeOut(1, 0) /\ milestone[1][0].status = "Pending"
  \/ In("paying") /\ milestone[1][0].status = "Approved" /\ ~dispute[1][0].active

(* Unless the registry stays paused for ever: the client's deposit leaves a *)
(* dispute on work never delivered though nobody else acts, and approved    *)
(* work is paid or disputed though the token refuses its freelancer.        *)
FundsGetOut == []<>~paused => []<>~Locked
=============================================================================
