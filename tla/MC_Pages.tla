------------------------------ MODULE MC_Pages ------------------------------
(***************************************************************************)
(* Pages and panels of the browser, each with what it talks to, in one     *)
(* run.  They do not meet: a behaviour is a scene, in which one of them    *)
(* moves and the others stay as they began.  Each scene is an instance of  *)
(* a component; some components have two, for two of its questions.        *)
(***************************************************************************)
EXTENDS Naturals, Sequences, FiniteSets

CONSTANTS
  Scenes,
  PostingEdits, DeliveryEdits, Visitors, Clicks, Switches, DeskTxs, Others, Balances, Proposals,  \* bounds
  Blank, Junk,
  admin, other, freelancer, stranger, new1, new2, Registry, NoAddress,
  p1, p2, p3, tab1, tab2

VARIABLES
  scene,
  (* ProjectPosting *)
  draft, postPage, message, postRequest, projects, created, told, postEdits,
  (* DeliveryPage *)
  viewer, form, page, request, pinned, attempts, milestone, contract, deliveryTxs,
  network, edits,
  (* Notifications *)
  happened, inbox, admins, session, bell, fetch, posts, bellClicks,
  (* GovernanceDesk *)
  members, arbitratorCount, arbitratorThreshold, arbitratorConfigNonce, votes,
  executedActions, paused, reviewed, allowed, fields, desk, deskTxs, seen, check, counts,
  (* FundingDesk *)
  chain, others, rows, view, field, fundPhase, fundHandlers, txs, mined,
  (* RecipientPanel *)
  now, partyAuthorized, authorizationNonce, signedConsents, alternative,
  pendingAlternative, dispute, registryPaused, events, synced, loaded, wallet, busy, handlers,
  (* ProjectLists *)
  listed, clock, walk,
  (* DisputeCard *)
  open, proposal, phase, flights, clicks

postingVars == <<draft, postPage, message, postRequest, projects, created, told, postEdits>>
deliveryVars == <<viewer, form, page, request, pinned, attempts, milestone, contract,
                  deliveryTxs, network, edits>>
bellVars == <<happened, inbox, admins, session, bell, fetch, posts, bellClicks>>
deskVars == <<members, arbitratorCount, arbitratorThreshold, arbitratorConfigNonce, votes,
              executedActions, paused, reviewed, allowed, fields, desk, deskTxs, seen,
              check, counts>>
fundingVars == <<chain, others, rows, view, field, fundPhase, fundHandlers, txs, mined>>
recipientVars == <<now, partyAuthorized, authorizationNonce, signedConsents, alternative,
                   pendingAlternative, dispute, registryPaused, events, synced, loaded,
                   wallet, busy, handlers>>
listVars == <<listed, clock, walk>>
cardVars == <<open, proposal, phase, flights, clicks>>
vars == <<scene, postingVars, deliveryVars, bellVars, deskVars, fundingVars,
          recipientVars, listVars, cardVars>>

In(s) == scene = s
InAny(S) == scene \in S

-----------------------------------------------------------------------------
(* The smallest files on either side of every limit of the pinning service. *)
File(content, bytes, type) == [content |-> content, bytes |-> bytes, type |-> type]
Agreements == {File("agreement", 1, "pdf"), File("video", 3, "pdf"),
               File("sketch", 1, "octet-stream")}
Deliverables == {File("design", 1, "pdf"), File("nothing", 0, "pdf"),
                 File("sketch", 1, "octet-stream")}

(* A client names a freelancer; the client's registry may be another.       *)
Direct == INSTANCE ProjectPosting WITH
  Kind <- "direct", Client <- "cleo", Users <- {"cleo", "lance", "guest"},
  Freelancers <- {"cleo", "lance"}, Amounts <- {2, 5, Junk}, Dues <- {3, 4},
  Wallets <- {"lance", "cleo", "guest", "nobody", "badsum", Junk}, Tokens <- {"usdc", "badsum"},
  Chains <- {0, 11}, Files <- Agreements, DefaultToken <- "usdc", DefaultChain <- 1,
  AllowedTokens <- {"usdc"}, ClientOverride <- TRUE, ServerOverride <- FALSE,
  UintMax <- 5, IntMax <- 10, LastDate <- 8, FormMilestones <- 2, MaxMilestones <- 2,
  MaxEdits <- PostingEdits, MaxRows <- 2, MaxFileBytes <- 2, MaxJsonBytes <- 2,
  AllowedTypes <- {"pdf"}, FallbackSetting <- "unset",
  page <- postPage, request <- postRequest, rows <- projects, chain <- created,
  edits <- postEdits

(* A project for the marketplace, where dates are not checked.              *)
Market == INSTANCE ProjectPosting WITH
  Kind <- "marketplace", Client <- "cleo", Users <- {"cleo", "lance", "guest"},
  Freelancers <- {"cleo", "lance"}, Amounts <- {2, 5, Junk}, Dues <- {0 - 1, 3, 4, 9},
  Wallets <- {}, Tokens <- {"usdc", "badsum"},
  Chains <- {0, 11}, Files <- Agreements, DefaultToken <- "usdc", DefaultChain <- 1,
  AllowedTokens <- {"usdc"}, ClientOverride <- FALSE, ServerOverride <- FALSE,
  UintMax <- 5, IntMax <- 10, LastDate <- 8, FormMilestones <- 2, MaxMilestones <- 2,
  MaxEdits <- 3, MaxRows <- 1, MaxFileBytes <- 2, MaxJsonBytes <- 2,
  AllowedTypes <- {"pdf"}, FallbackSetting <- "true",
  page <- postPage, request <- postRequest, rows <- projects, chain <- created,
  edits <- postEdits

(* A freelancer hands in a milestone of a bound project; others look on.    *)
Delivery == INSTANCE DeliveryPage WITH
  Files <- Deliverables,
  Links <- {"url", "no url"}, Bound <- TRUE, MaxPicked <- 2, UriMax <- 2, UriBytes <- 2,
  MaxEdits <- DeliveryEdits, MaxSwitches <- 1, MaxTxs <- 2, MaxFileBytes <- 2, MaxJsonBytes <- 2,
  AllowedTypes <- {"pdf"}, FallbackSetting <- "unset", txs <- deliveryTxs

(* The administrator is one of the parties; the bell shows one row.         *)
Bell == INSTANCE Notifications WITH
  Client <- "cleo", Freelancer <- "lance", Applicants <- {"ann", "bob"}, Others <- {},
  Admins <- {"lance"}, Past <- {"created", "funded", "received"}, Limit <- 1,
  Calls <- {1, 2}, MaxHappenings <- 1, MaxClicks <- Clicks, MaxSwitches <- Switches, clicks <- bellClicks

(* An administrator changes roles, and may lose his own meanwhile.          *)
RolesDesk == INSTANCE GovernanceDesk WITH
  Accounts <- {admin, other}, Deployer <- admin, Me <- admin,
  RoleChanges <- {<<"ARBITRATOR_ROLE", other>>, <<"PAUSER_ROLE", other>>,
                  <<"DEFAULT_ADMIN_ROLE", other>>},
  MaxConfigNonce <- 1, Tokens <- {"usdc"}, Thresholds <- {1}, Panels <- {"roles"},
  Checked <- {}, Elsewhere <- {"grant", "revoke"}, MaxTxs <- DeskTxs, MaxEdits <- 2,
  form <- fields, txs <- deskTxs

(* Token and pause panels beside each other. *)
TokenDesk == INSTANCE GovernanceDesk WITH
  Accounts <- {admin, other}, Deployer <- admin, Me <- admin,
  RoleChanges <- {<<"PAUSER_ROLE", admin>>, <<"DEFAULT_ADMIN_ROLE", admin>>},
  MaxConfigNonce <- 0, Tokens <- {"usdc", "dai"}, Thresholds <- {1},
  Panels <- {"token", "pause"}, Checked <- {}, Elsewhere <- {"revoke", "pause"},
  MaxTxs <- 1, MaxEdits <- 1, form <- fields, txs <- deskTxs

(* The check of an account's roles, which others change meanwhile.          *)
CheckDesk == INSTANCE GovernanceDesk WITH
  Accounts <- {admin, other}, Deployer <- admin, Me <- admin,
  RoleChanges <- {<<"ARBITRATOR_ROLE", other>>, <<"PAUSER_ROLE", other>>},
  MaxConfigNonce <- 2, Tokens <- {"usdc"}, Thresholds <- {1}, Panels <- {},
  Checked <- {other}, Elsewhere <- {"grant", "revoke"}, MaxTxs <- 0, MaxEdits <- 0,
  form <- fields, txs <- deskTxs

(* One tab; the wallet spends and approves elsewhere too. *)
OneTab == INSTANCE FundingDesk WITH
  Projects <- {p1}, Tabs <- {tab1}, ProjectOf <- [t \in {tab1} |-> p1],
  Amounts <- {1, 2}, Total <- 2, Leftovers <- {0},
  MaxClicks <- 2, MaxOthers <- Others, phase <- fundPhase, handlers <- fundHandlers

(* Two tabs fund one project. *)
TwoTabs == INSTANCE FundingDesk WITH
  Projects <- {p1}, Tabs <- {tab1, tab2}, ProjectOf <- [t \in {tab1, tab2} |-> p1],
  Amounts <- {1}, Total <- 1, Balances <- {2}, Leftovers <- {0},
  MaxClicks <- 2, MaxOthers <- 0, phase <- fundPhase, handlers <- fundHandlers

(* Arbitrators propose again while a freelancer executes what it was shown. *)
Executing == INSTANCE RecipientPanel WITH
  Accounts <- {freelancer, stranger, new1, new2}, MaxProjects <- 1, MAX_MILESTONES <- 1,
  ALTERNATIVE_RECIPIENT_DELAY <- 2, MaxSignedConsents <- 0, Party <- freelancer,
  Stranger <- freelancer, Candidates <- {new1, new2}, Lag <- 1, MaxTime <- 2,
  MaxEvents <- Proposals, MaxClicks <- 1, paused <- registryPaused

(* A freelancer signs, and strangers relay what it signed. *)
Consenting == INSTANCE RecipientPanel WITH
  Accounts <- {freelancer, stranger, new1}, MaxProjects <- 1, MAX_MILESTONES <- 1,
  ALTERNATIVE_RECIPIENT_DELAY <- 1, MaxSignedConsents <- 1, Party <- freelancer,
  Stranger <- stranger, Candidates <- {new1}, Lag <- 1, MaxTime <- 0,
  MaxEvents <- 2, MaxClicks <- 2, paused <- registryPaused

(* A reader walks over the marketplace page by page. *)
Walk == INSTANCE ProjectLists WITH
  Projects <- {p1, p2, p3}, Amounts <- {1}, Take <- 1, SortKeys <- {"createdAt"},
  MayTake <- FALSE, MaxClock <- 3, rows <- listed

(* As many rows as a page takes. *)
Few == INSTANCE ProjectLists WITH
  Projects <- {p1, p2}, Amounts <- {1, 2}, Take <- 2, SortKeys <- {},
  MayTake <- TRUE, MaxClock <- 4, rows <- listed

(* An arbitrator's and an administrator's controls on one card. *)
Card == INSTANCE DisputeCard WITH
  Controls <- {"resolve", "propose", "execute", "cancel"}, MaxClicks <- 3

ASSUME PagesAssumption ==
  /\ Direct!PostingAssumption /\ Direct!PinningAssumption /\ Market!PostingAssumption
  /\ Delivery!DeliveryAssumption /\ Bell!NotificationsAssumption
  /\ RolesDesk!DeskAssumption /\ TokenDesk!DeskAssumption /\ CheckDesk!DeskAssumption
  /\ OneTab!FundingAssumption /\ TwoTabs!FundingAssumption
  /\ Executing!RecipientPanelAssumption /\ Consenting!RecipientPanelAssumption
  /\ Walk!ListsAssumption /\ Few!ListsAssumption /\ Card!DisputeCardAssumption

-----------------------------------------------------------------------------
(* Where a component may begin in several ways, it does so in its scene.    *)
Init ==
  /\ scene \in Scenes
  /\ Direct!Init
  /\ Delivery!Init /\ (In("delivery") \/ network = "right")
  /\ Bell!Init /\ (In("bell") \/ (admins = {} /\ session.user = "cleo"))
  /\ CASE In("token desk") -> TokenDesk!Init
       [] In("check")      -> CheckDesk!Init
       [] OTHER -> RolesDesk!Init /\ (In("roles desk") \/ fields.account = admin)
  /\ IF In("two tabs") THEN TwoTabs!Init
     ELSE OneTab!Init
  /\ IF In("consenting") THEN Consenting!Init
     ELSE Executing!Init /\ (In("executing") \/ wallet = freelancer)
  /\ Walk!Init
  /\ Card!Init

Next ==
  /\ UNCHANGED scene
  /\ \/ In("direct") /\ Direct!Next
     \/ In("marketplace") /\ Market!Next
     \/ ~InAny({"direct", "marketplace"}) /\ UNCHANGED postingVars
  /\ \/ In("delivery") /\ Delivery!Next
     \/ ~In("delivery") /\ UNCHANGED deliveryVars
  /\ \/ In("bell") /\ Bell!Next
     \/ ~In("bell") /\ UNCHANGED bellVars
  /\ \/ In("roles desk") /\ RolesDesk!Next
     \/ In("token desk") /\ TokenDesk!Next
     \/ In("check") /\ CheckDesk!Next
     \/ ~InAny({"roles desk", "token desk", "check"}) /\ UNCHANGED deskVars
  /\ \/ In("one tab") /\ OneTab!Next
     \/ In("two tabs") /\ TwoTabs!Next
     \/ ~InAny({"one tab", "two tabs"}) /\ UNCHANGED fundingVars
  /\ \/ In("executing") /\ Executing!Next
     \/ In("consenting") /\ Consenting!Next
     \/ ~InAny({"executing", "consenting"}) /\ UNCHANGED recipientVars
  /\ \/ In("walk") /\ Walk!Next
     \/ In("few") /\ Few!Next
     \/ ~InAny({"walk", "few"}) /\ UNCHANGED listVars
  /\ \/ In("card") /\ Card!Next
     \/ ~In("card") /\ UNCHANGED cardVars

(* What goes on by itself in the scenes that ask whether a click is         *)
(* answered: each component's own Fairness, its n-th conjunct here as n.    *)
GoesOn(n) ==
  /\ UNCHANGED scene
  /\ \/ In("direct") /\ \/ n = 1 /\ Direct!CheckDirect
                        \/ n = 2 /\ Direct!AbortUpload
                        \/ n = 3 /\ Direct!StoreDirect
                        \/ n = 4 /\ Direct!HearAnswer
     \/ In("delivery") /\ \/ n = 1 /\ Delivery!CheckRequest
                          \/ n = 2 /\ (Delivery!PinFile \/ Delivery!PinDocument \/ Delivery!AbortUpload)
                          \/ n = 3 /\ Delivery!StoreAttempt
                          \/ n = 4 /\ Delivery!HearAnswer
                          \/ n = 5 /\ Delivery!RefuseToSign
                          \/ n = 6 /\ (Delivery!SeeReceipt \/ Delivery!WaitTimesOut)
     \/ In("bell") /\ \/ n = 1 /\ Bell!ListRows
                      \/ n = 2 /\ Bell!CountRows
                      \/ n = 3 /\ Bell!ShowList
                      \/ n \in 4..5 /\ Bell!UpdateRow(n - 3)
                      \/ n \in 6..7 /\ Bell!HearMarked(n - 5)
     \/ In("roles desk") /\ \/ n = 1 /\ RolesDesk!RefuseToSign("roles")
                            \/ n = 2 /\ (RolesDesk!Receive("roles") \/ RolesDesk!GiveUp("roles"))
                            \/ n = 3 /\ RolesDesk!Refreshed("roles")
     \/ In("one tab") /\ n \in 1..2 /\ OneTab!Handle(n)
     \/ In("executing") /\ n = 1 /\ Executing!Handle(1)
     \/ In("card") /\ n = 1 /\ Card!Advance

Moving ==
  CASE In("direct") -> postingVars
    [] In("delivery") -> deliveryVars
    [] In("bell") -> bellVars
    [] In("roles desk") -> deskVars
    [] In("one tab") -> fundingVars
    [] In("executing") -> recipientVars
    [] In("card") -> cardVars
    [] OTHER -> <<>>

Spec == Init /\ [][Next]_vars
FairSpec == Spec /\ \A n \in 1..7 : WF_Moving(GoesOn(n))

-----------------------------------------------------------------------------
(* What a page sends, stores, signs and pays is what was chosen on it: the  *)
(* project and its agreement, the delivery and its files, the recipient,    *)
(* the call of a panel, the deposit.                                        *)
SentAsChosen ==
  /\ (IF In("marketplace") THEN Market!PostedAsTyped ELSE Direct!PostedAsTyped)
  /\ (In("direct") => Direct!AgreementIsKept /\ Direct!LockedToCanonical)
  /\ (IF In("marketplace") THEN Market!StoredCanBeCreated ELSE Direct!StoredCanBeCreated)
  /\ Delivery!RegisteredAsChosen /\ Delivery!StoredIsPinned
  /\ (In("token desk") => TokenDesk!SaysWhatWasSent)
  /\ (In("roles desk") => RolesDesk!SaysWhatWasSent)
  /\ (IF In("two tabs") THEN TwoTabs!NeverOverfunded ELSE OneTab!NeverOverfunded)
  /\ (In("one tab") => OneTab!AllowanceIsAsked)
  /\ (In("consenting") => Consenting!ChosenByParty)

(* What a page, a list and a row say has happened has happened, once, and   *)
(* no row, notification or due date is kept from whom it concerns.          *)
ShownIsTrue ==
  /\ Delivery!SavedMeansSaved /\ Delivery!HandedInOnce
  /\ Bell!ToldTogether /\ Bell!BadgeHidesNothing
  /\ (In("roles desk") => RolesDesk!RenounceSpendsConfirmation)
  /\ (IF In("two tabs") THEN TwoTabs!ReportedIsDeposited ELSE OneTab!ReportedIsDeposited)
  /\ (In("walk") => Walk!NothingMissed)
  /\ (In("few") => Few!HighestFirst /\ Few!NoneHidden)
  /\ Card!WaitingMeansInFlight

(* What was done is not undone by a late answer, a second click or somebody *)
(* else's.                                                                  *)
NothingIsUndone ==
  [][/\ In("direct") => Direct!PostedOnce
     /\ Bell!ReadStaysRead /\ Bell!ReadByOwner
     /\ In("roles desk") => RolesDesk!RolesNotDenied
     /\ OneTab!PromotedStays
     /\ Executing!ExecutesWhatItShowed]_vars

(* Every click is answered, whatever the pinning service, the wallet and    *)
(* the chain do; and what is marked read is shown so, unless the answer or  *)
(* the account is lost.                                                     *)
Waiting ==
  \/ In("direct") /\ postPage = "sending"
  \/ In("delivery") /\ page.at # "idle"
  \/ In("roles desk") /\ desk["roles"].at # "idle"
  \/ In("one tab") /\ fundPhase[tab1] = "busy"
  \/ In("executing") /\ busy
  \/ In("card") /\ phase \in Card!Waiting
Marking(k) == \E c \in 1..2 : posts[c].at = "update" /\ posts[c].row = k
Marked(k) ==
  [row |-> k, read |-> FALSE] \notin bell.shown \/ bell.broken \/ session.switches > 0
EveryClickIsAnswered ==
  \A k \in 1..2 : (Waiting \/ Marking(k)) ~> (~Waiting /\ Marked(k))
=============================================================================
