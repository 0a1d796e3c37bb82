---------------------------- MODULE MC_Services ----------------------------
(***************************************************************************)
(* The services of the web application and what they keep in step: the     *)
(* marketplace, sign-in, the binding of rows to escrows, the governance of *)
(* a token, the arbitrators' votes and the mirror of the roles, and what   *)
(* the browser believes of the contract.  They do not meet: a behaviour is *)
(* a scene, in which one moves and the others stay as they began.  In      *)
(* "sign-in" and "council" the .cfg says how.                              *)
(***************************************************************************)
EXTENDS SignIn, ArbitratorCouncil, Sequences

CONSTANTS
  Scenes, Nobody,
  ann, bob, cleo, c1, f1, f2,
  n1, n2, v1, v2, phone, laptop, alice, boss,
  t1, t2, admin, arb1, arb2, arb3, settle, run1

VARIABLES
  scene,
  (* Applications *)
  project, application, locked, request, notices,
  (* ProjectBinding *)
  bindingRows, escrows, events, applied, tab,
  (* TokenGovernance *)
  head, log, token, tokenApplied, tokenCheckpoint, row, polled, notice, panel,
  (* RoleMirror, beside the multisig *)
  roleEvents, stored, checkpoint, memberRow, councilRow, run, rewinds,
  (* ContractWatch *)
  paused, holders, account, effectDue, heldRoles, roleReads, pause, pauseReads,
  selection, check, checkReads, changes, switches

applicationVars == <<project, application, locked, request, notices>>
bindingVars == <<bindingRows, escrows, events, applied, tab>>
tokenVars == <<head, log, token, tokenApplied, tokenCheckpoint, row, polled, notice, panel>>
mirrorVars == <<roleEvents, stored, checkpoint, memberRow, councilRow, run, rewinds>>
roleVars == <<multisigVars, mirrorVars>>
watchVars == <<paused, holders, account, effectDue, heldRoles, roleReads, pause,
               pauseReads, selection, check, checkReads, changes, switches>>
sceneVars == <<scene, vars, applicationVars, bindingVars, tokenVars, roleVars, watchVars>>

In(s) == scene = s
InAny(S) == scene \in S

(* A client decides while two freelancers apply and withdraw. *)
Marketplace == INSTANCE Applications WITH
  Freelancers <- {ann, bob}, Client <- cleo, ClientRequests <- {c1},
  FreelancerRequests <- {f1, f2}, MayFail <- TRUE

(* A wallet signs in for the first time from two browsers, *)
OfAlice == [d \in {phone, laptop} |-> alice]

(* and no request is cut off. *)
Answering == INSTANCE SignIn WITH OnboardingRoles <- {"CLIENT"}, MayFail <- FALSE

(* Escrows made in one tab, outside the app, and in a tab that was closed. *)
Binding == INSTANCE ProjectBinding WITH
  Tabs <- {t1}, TypedIds <- {0}, OutsideClients <- {"user", "stranger"},
  MayLeave <- TRUE, MaxRows <- 2, MaxEscrows <- 2, rows <- bindingRows

(* In two tabs at the same time. *)
Tabbing == INSTANCE ProjectBinding WITH
  Tabs <- {t1, t2}, TypedIds <- {0}, OutsideClients <- {"stranger"}, MayLeave <- FALSE,
  MaxRows <- 1, MaxEscrows <- 2, rows <- bindingRows

Governing == INSTANCE TokenGovernance WITH
  CONFIRMATIONS <- 1, TIMEOUT <- 1, MaxHead <- 4, MaxEvents <- 3,
  applied <- tokenApplied, checkpoint <- tokenCheckpoint

(* Three accounts may become arbitrators, one of them and the admin hold any *)
(* role; there is one action to confirm.                                   *)
CouncilAccounts == {admin, arb1, arb2, arb3}
CouncilChanges  == (Roles \X {admin, arb1}) \cup ({ARBITRATOR_ROLE} \X {arb2, arb3})

(* Roles are granted, revoked and renounced while runs start and crash. *)
Mirroring == INSTANCE RoleMirror WITH
  Accounts <- {admin, arb1, arb2}, Deployer <- admin,
  RoleChanges <- {<<"ARBITRATOR_ROLE", arb1>>, <<"ARBITRATOR_ROLE", arb2>>},
  MaxConfigNonce <- 5, Runs <- {run1}, MaxEvents <- 6, Rewinds <- 0, events <- roleEvents

(* And are rebuilt after a reorganisation. *)
Rewinding == INSTANCE RoleMirror WITH
  Accounts <- {admin, arb1, arb2}, Deployer <- admin,
  RoleChanges <- {<<"ARBITRATOR_ROLE", arb1>>, <<"ARBITRATOR_ROLE", arb2>>,
                  <<"PAUSER_ROLE", arb1>>},
  MaxConfigNonce <- 4, Runs <- {run1}, MaxEvents <- 5, Rewinds <- 1, events <- roleEvents

(* The wallet switches accounts while their roles are read. *)
Switching == INSTANCE ContractWatch WITH
  Accounts <- {ann, bob}, Roles <- {"PAUSER_ROLE"}, MaxChanges <- 1, MaxSwitches <- 3,
  MaxReads <- 2, members <- holders, roles <- heldRoles

(* The contract is paused and unpaused while the banner asks. *)
Pausing == INSTANCE ContractWatch WITH
  Accounts <- {ann}, Roles <- {"PAUSER_ROLE"}, MaxChanges <- 3, MaxSwitches <- 0,
  MaxReads <- 2, members <- holders, roles <- heldRoles

ASSUME ServicesAssumption ==
  /\ Marketplace!ApplicationsAssumption
  /\ Binding!BindingAssumption /\ Tabbing!BindingAssumption
  /\ Governing!TokenGovernanceAssumption
  /\ Mirroring!RoleMirrorAssumption /\ Rewinding!RoleMirrorAssumption
  /\ Switching!ContractWatchAssumption /\ Pausing!ContractWatchAssumption

-----------------------------------------------------------------------------
Watching == {"switching", "pausing"}

(* Where a component may begin in several ways, it does so in its scene.    *)
SceneInit ==
  /\ scene \in Scenes
  /\ Marketplace!Init /\ Init /\ Governing!Init /\ Mirroring!MirrorInit
  /\ IF In("tabs") THEN Tabbing!Init ELSE Binding!Init
  /\ IF In("pausing") THEN Pausing!Init ELSE Switching!Init
  /\ InAny(Watching) \/ holders = {}
  /\ selection = <<"PAUSER_ROLE", ann>>

SceneNext ==
  /\ UNCHANGED scene
  /\ \/ In("marketplace") /\ Marketplace!Next
     \/ ~In("marketplace") /\ UNCHANGED applicationVars
  /\ \/ In("sign-in") /\ Next
     \/ In("answering") /\ Answering!Next
     \/ ~InAny({"sign-in", "answering"}) /\ UNCHANGED vars
  /\ \/ In("binding") /\ Binding!Next
     \/ In("tabs") /\ Tabbing!Next
     \/ ~InAny({"binding", "tabs"}) /\ UNCHANGED bindingVars
  /\ \/ In("governing") /\ Governing!Next
     \/ ~In("governing") /\ UNCHANGED tokenVars
  /\ \/ In("council") /\ CouncilNext /\ UNCHANGED mirrorVars
     \/ In("mirroring") /\ Mirroring!MirrorNext
     \/ In("rewinding") /\ Rewinding!MirrorNext
     \/ ~InAny({"council", "mirroring", "rewinding"}) /\ UNCHANGED roleVars
  /\ \/ In("switching") /\ Switching!RolesNext
     \/ In("pausing") /\ Pausing!PauseNext
     \/ ~InAny(Watching) /\ UNCHANGED watchVars

(* The fairness of SignIn, TokenGovernance and ContractWatch: the server    *)
(* goes on with what it has accepted; the browser polls and its handlers    *)
(* run on; blocks are mined and event sync is triggered again and again;    *)
(* the node answers, and not every request is lost.                         *)
GoesOn(n) ==
  /\ UNCHANGED scene
  /\ \/ In("answering") /\ \/ n = 1 /\ Answering!VerificationStep(v1)
                           \/ n = 2 /\ Answering!VerificationStep(v2)
                           \/ n = 3 /\ Answering!OnboardingStep(phone)
                           \/ n = 4 /\ Answering!OnboardingStep(laptop)
     \/ In("governing") /\ \/ n = 1 /\ Governing!Poll
                           \/ n = 2 /\ Governing!Tick
                           \/ n = 3 /\ Governing!Handle
                           \/ n = 4 /\ Governing!MineEmpty
                           \/ n = 5 /\ Governing!Synchronise
     \/ In("pausing") /\ n = 1 /\ Pausing!RefreshPaused

Moving ==
  CASE In("answering") -> vars
    [] In("governing") -> tokenVars
    [] In("pausing") -> watchVars
    [] OTHER -> <<>>

SceneSpec ==
  /\ SceneInit /\ [][SceneNext]_sceneVars
  /\ \A n \in 1..5 : WF_Moving(GoesOn(n))
  /\ SF_watchVars(UNCHANGED scene /\ In("pausing") /\ Pausing!ServePaused)
  /\ SF_watchVars(UNCHANGED scene /\ In("pausing") /\ Pausing!PausedArrives)

-----------------------------------------------------------------------------
(* A project gets one freelancer, who alone is told so; its row is active   *)
(* only when its escrow is funded, is bound to the escrow made for it, and  *)
(* every escrow of the client is shown: see Applications, ProjectBinding.   *)
ProjectsAreTheirParties ==
  /\ In("marketplace") => Marketplace!OneAccepted /\ Marketplace!AcceptanceNoticesAreTrue
  /\ In("binding") => Binding!ActiveMeansFunded /\ Binding!EscrowsAreShown
  /\ In("tabs") => Tabbing!BoundToItsOwn

(* Rows and pages say of roles, of the threshold and of a token what the    *)
(* contract says, after crashes, rewinds, switched accounts and late        *)
(* answers: see TokenGovernance, RoleMirror, ContractWatch.                 *)
MirrorsFollowGovernance ==
  /\ In("governing") => Governing!RowMirrorsContract /\ Governing!CaughtUpBeforeTarget
  /\ In("mirroring") => Mirroring!MembersMirrored /\ Mirroring!CountMirrorsRows /\ Mirroring!ThresholdMirrored
  /\ In("rewinding") => Rewinding!MembersMirrored /\ Rewinding!CountMirrorsRows
  /\ In("switching") => Switching!RolesAreTheAccounts

(* A request of either kind is answered, the others being like it; whoever  *)
(* waits for event sync is told at last; and the banner comes to say        *)
(* whether the contract is paused, and in the end says nothing else.        *)
Settled ==
  /\ In("answering") => verification[v1].at = "idle"
  /\ notice.stage \notin {"tx_confirmed", "waiting_sync", "timeout"}
  /\ In("pausing") => Pausing!Banner = paused
WaitsEnd ==
  /\ []<>Settled
  /\ []<>(In("answering") => form[phone].at = "idle")
  /\ <>[](Pausing!Banner => paused)
=============================================================================
