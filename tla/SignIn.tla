------------------------------- MODULE SignIn -------------------------------
(***************************************************************************)
(* Signing in with a wallet, and the onboarding that follows: nonces are   *)
(* issued, signed and consumed (lib/auth/nonce.ts, lib/auth/user-sync.ts), *)
(* the first login of a wallet creates its user, sessions are tokens that  *)
(* nothing revokes, and a new user chooses a role (user-service.ts).       *)
(*                                                                         *)
(* A verification is one interactive transaction of PostgreSQL at READ     *)
(* COMMITTED, and so is an onboarding; what they write stays locked and    *)
(* unseen until they commit.  A key holds the rows written of a nonce, or  *)
(* of a wallet's user.                                                     *)
(***************************************************************************)
EXTENDS Naturals, FiniteSets

CONSTANTS
  Wallets,
  Devices, WalletOf,           \* browsers, and the wallet each connects
  Nonces,                      \* bound: nonces that may be issued
  Verifications,               \* requests to verify in progress at once
  AUTH_ADMIN_WALLETS,
  AUTH_NONCE_TTL_SECONDS, AUTH_SESSION_MAX_AGE_SECONDS,
  OnboardingRoles,             \* roles the onboarding form is sent with
  MaxNow,                      \* bound on the clock
  MayFail,                     \* whether requests are cut off
  None                         \* SQL null

ASSUME SignInAssumption ==
  /\ WalletOf \in [Devices -> Wallets] /\ AUTH_ADMIN_WALLETS \subseteq Wallets
  /\ Wallets \cap Nonces = {} /\ Devices \cap Verifications = {}
  /\ None \notin Wallets \cup Devices \cup Nonces \cup Verifications \cup Nat
  /\ {AUTH_NONCE_TTL_SECONDS, AUTH_SESSION_MAX_AGE_SECONDS} \subseteq Nat \ {0}
  /\ OnboardingRoles \subseteq {"CLIENT", "FREELANCER"}
  /\ MaxNow \in Nat /\ MayFail \in BOOLEAN

VARIABLES
  now,
  nonces,        \* [nonce]: its row, None when there is none
  issued,        \* nonces ever issued: a random one is not issued twice
  users,         \* wallets that have a user
  roles,         \* [wallet]: platform roles of its user
  lock,          \* [nonce or wallet]: the transaction that wrote its rows
  posted,        \* signed messages sent; the network may deliver one again
  verification,  \* [verification]: where it stands
  device,        \* [device]: the sign-in panel and the session cookie
  form,          \* [device]: its onboarding request
  logins,        \* [nonce]: sessions signed for it
  welcomes,      \* [wallet]: answers that said isNewUser
  onboardings    \* [wallet]: onboardings committed

rows == <<nonces, issued, users, roles>>
counts == <<logins, welcomes, onboardings>>
vars == <<now, rows, lock, posted, verification, device, form, counts>>

IdleVerification == [at |-> "idle", message |-> None, isNewUser |-> FALSE]

Init ==
  /\ now = 0
  /\ nonces = [n \in Nonces |-> None] /\ issued = {}
  /\ users = {} /\ roles = [w \in Wallets |-> {}]
  /\ lock = [k \in Nonces \cup Wallets |-> None]
  /\ posted = {}
  /\ verification = [v \in Verifications |-> IdleVerification]
  /\ device = [d \in Devices |-> [at |-> "idle", nonce |-> None, cookie |-> None]]
  /\ form = [d \in Devices |-> [at |-> "idle", role |-> None]]
  /\ logins = [n \in Nonces |-> 0]
  /\ welcomes = [w \in Wallets |-> 0]
  /\ onboardings = [w \in Wallets |-> 0]

Free(k) == lock[k] = None
Lock(k, owner) == lock' = [lock EXCEPT ![k] = owner]
EndTransaction(owner) ==
  lock' = [k \in DOMAIN lock |-> IF lock[k] = owner THEN None ELSE lock[k]]

-----------------------------------------------------------------------------
(* The panel of a device.                                                  *)

Expired(n) == nonces[n] # None /\ nonces[n].expiresAt < now

(* createSiweNonce prunes the expired nonces, then issues a new one. *)
CreateSiweNonce(d, n) ==
  /\ device[d].at = "idle" /\ n \notin issued
  /\ \A m \in Nonces : Expired(m) => Free(m)
  /\ nonces' = [m \in Nonces |->
       CASE m = n -> [expiresAt |-> now + AUTH_NONCE_TTL_SECONDS, used |-> FALSE]
         [] Expired(m) -> None
         [] OTHER -> nonces[m]]
  /\ issued' = issued \cup {n}
  /\ device' = [device EXCEPT ![d].at = "signing", ![d].nonce = n]
  /\ UNCHANGED <<now, users, roles, lock, posted, verification, form, counts>>

(* The wallet signs; the message expires as long after its signature. *)
PostMessage(d) ==
  /\ device[d].at = "signing"
  /\ posted' = posted \cup
       {[nonce |-> device[d].nonce, wallet |-> WalletOf[d],
         expiresAt |-> now + AUTH_NONCE_TTL_SECONDS]}
  /\ device' = [device EXCEPT ![d].at = "verifying"]
  /\ UNCHANGED <<now, rows, lock, verification, form, counts>>

(* The user rejects the signature, or the answer is lost. *)
GiveUp(d) ==
  /\ device[d].at \in {"signing", "verifying"}
  /\ device' = [device EXCEPT ![d].at = "idle", ![d].nonce = None]
  /\ UNCHANGED <<now, rows, lock, posted, verification, form, counts>>

Logout(d) ==
  /\ device[d].at = "idle" /\ device[d].cookie # None
  /\ device' = [device EXCEPT ![d].cookie = None]
  /\ UNCHANGED <<now, rows, lock, posted, verification, form, counts>>

-----------------------------------------------------------------------------
(* verifySiweAndBuildSession.                                              *)

MessageOf(v) == verification[v].message
Wallet(v) == MessageOf(v).wallet
Move(v, place) == verification' = [verification EXCEPT ![v].at = place]
InVerification == <<now, posted, device, form, counts>>

(* A message is delivered and its signature and expiry verified. *)
VerifySiweMessageAndBinding(v, message) ==
  /\ verification[v].at = "idle" /\ now < message.expiresAt
  /\ verification' = [verification EXCEPT ![v] =
       [at |-> "consume", message |-> message, isNewUser |-> FALSE]]
  /\ UNCHANGED <<rows, lock, InVerification>>

(* Mutant: the row is updated whatever its usedAt. *)
Live_EvenUsed(n) == nonces[n] # None /\ nonces[n].expiresAt > now

Live(n) ==
  nonces[n] # None /\ ~nonces[n].used /\ nonces[n].expiresAt > now

(* Mutant: the nonce is consumed outside the transaction. *)
ConsumeNonce_Autocommit(v) ==
  LET n == MessageOf(v).nonce IN
  /\ verification[v].at = "consume" /\ Free(n)
  /\ IF Live(n)
     THEN /\ nonces' = [nonces EXCEPT ![n].used = TRUE]
          /\ Move(v, "find")
     ELSE Move(v, "refused") /\ UNCHANGED nonces
  /\ UNCHANGED <<issued, users, roles, lock, InVerification>>

ConsumeNonce(v) ==
  LET n == MessageOf(v).nonce IN
  /\ verification[v].at = "consume" /\ Free(n)
  /\ IF Live(n) THEN Lock(n, v) /\ Move(v, "find")
                ELSE Move(v, "refused") /\ UNCHANGED lock
  /\ UNCHANGED <<rows, InVerification>>

(* syncUserAfterWalletLogin: the user is looked up, *)
FindUser(v) ==
  /\ verification[v].at = "find"
  /\ Move(v, IF Wallet(v) \in users THEN "update" ELSE "create")
  /\ UNCHANGED <<rows, lock, InVerification>>

(* and updated, *)
UpdateUser(v) ==
  /\ verification[v].at = "update" /\ Free(Wallet(v))
  /\ Lock(Wallet(v), v)
  /\ Move(v, "commit")
  /\ UNCHANGED <<rows, InVerification>>

(* Mutant: a failed insert leaves its transaction open. *)
CreateUser_NoRollback(v) ==
  /\ verification[v].at = "create" /\ Free(Wallet(v))
  /\ IF Wallet(v) \in users
     THEN Move(v, "refused") /\ UNCHANGED lock
     ELSE /\ Lock(Wallet(v), v)
          /\ verification' = [verification EXCEPT ![v].at = "commit", ![v].isNewUser = TRUE]
  /\ UNCHANGED <<rows, InVerification>>

(* Mutant: a first login is told by the earlier look-up, with an upsert. *)
CreateUser_Upsert(v) ==
  /\ verification[v].at = "create" /\ Free(Wallet(v))
  /\ Lock(Wallet(v), v)
  /\ verification' = [verification EXCEPT ![v].at = "commit", ![v].isNewUser = TRUE]
  /\ UNCHANGED <<rows, InVerification>>

(* or created, unless another first login has created it meanwhile (P2002,  *)
(* and the nonce is not consumed after all).                                *)
CreateUser(v) ==
  /\ verification[v].at = "create" /\ Free(Wallet(v))
  /\ IF Wallet(v) \in users
     THEN EndTransaction(v) /\ Move(v, "refused")
     ELSE /\ Lock(Wallet(v), v)
          /\ verification' = [verification EXCEPT ![v].at = "commit", ![v].isNewUser = TRUE]
  /\ UNCHANGED <<rows, InVerification>>

CommitLogin(v) ==
  LET w == Wallet(v) IN
  /\ verification[v].at = "commit"
  /\ nonces' = [nonces EXCEPT ![MessageOf(v).nonce].used = TRUE]
  /\ users' = users \cup {w}
  /\ roles' = [roles EXCEPT ![w] = @ \cup IF w \in AUTH_ADMIN_WALLETS THEN {"ADMIN"} ELSE {}]
  /\ EndTransaction(v)
  /\ Move(v, "committed")
  /\ UNCHANGED <<issued, InVerification>>

(* signSessionToken: the token carries its own expiry. *)
SessionToken == now + AUTH_SESSION_MAX_AGE_SECONDS

WaitsFor(d, v) == device[d].at = "verifying" /\ device[d].nonce = MessageOf(v).nonce

(* Mutant: the session is signed before the transaction commits. *)
AnswerSession_BeforeCommit(v) ==
  /\ verification[v].at \in {"commit", "committed"}
  /\ logins' = [logins EXCEPT ![MessageOf(v).nonce] = @ + 1]
  /\ welcomes' = [welcomes EXCEPT ![Wallet(v)] = @ + IF verification[v].isNewUser THEN 1 ELSE 0]
  /\ device' = [d \in Devices |->
       IF WaitsFor(d, v)
       THEN [at |-> "idle", nonce |-> None, cookie |-> SessionToken]
       ELSE device[d]]
  /\ verification' = [verification EXCEPT ![v] = IdleVerification]
  /\ EndTransaction(v)
  /\ UNCHANGED <<now, rows, posted, form, onboardings>>

(* The session is signed and answered to the device, if it still waits. *)
AnswerSession(v) ==
  /\ verification[v].at = "committed"
  /\ logins' = [logins EXCEPT ![MessageOf(v).nonce] = @ + 1]
  /\ welcomes' = [welcomes EXCEPT ![Wallet(v)] = @ + IF verification[v].isNewUser THEN 1 ELSE 0]
  /\ device' = [d \in Devices |->
       IF WaitsFor(d, v)
       THEN [at |-> "idle", nonce |-> None, cookie |-> SessionToken]
       ELSE device[d]]
  /\ verification' = [verification EXCEPT ![v] = IdleVerification]
  /\ UNCHANGED <<now, rows, lock, posted, form, onboardings>>

AnswerRefusal(v) ==
  /\ verification[v].at = "refused"
  /\ device' = [d \in Devices |->
       IF WaitsFor(d, v) THEN [device[d] EXCEPT !.at = "idle", !.nonce = None] ELSE device[d]]
  /\ verification' = [verification EXCEPT ![v] = IdleVerification]
  /\ UNCHANGED <<now, rows, lock, posted, form, counts>>

-----------------------------------------------------------------------------
(* completeOnboarding.                                                     *)

TokenIsValid(d) == device[d].cookie # None /\ now < device[d].cookie

HasSession(d) ==
  /\ TokenIsValid(d)
  /\ WalletOf[d] \in users

NeedsOnboarding(w) == roles[w] = {}
InOnboarding == <<now, nonces, issued, users, posted, verification, device, logins, welcomes>>

OpenForm(d, role) ==
  /\ form[d].at = "idle" /\ HasSession(d) /\ NeedsOnboarding(WalletOf[d])
  /\ form' = [form EXCEPT ![d] = [at |-> "check", role |-> role]]
  /\ UNCHANGED <<roles, lock, onboardings, InOnboarding>>

AlreadyOnboarded(w) == roles[w] \cap {"CLIENT", "FREELANCER"} # {}

CloseForm(d) == form' = [form EXCEPT ![d] = [at |-> "idle", role |-> None]]

CheckOnboarding(d) ==
  /\ form[d].at = "check"
  /\ IF AlreadyOnboarded(WalletOf[d]) \/ ~HasSession(d)
     THEN CloseForm(d) ELSE form' = [form EXCEPT ![d].at = "profile"]
  /\ UNCHANGED <<roles, lock, onboardings, InOnboarding>>

UpdateProfile(d) ==
  /\ form[d].at = "profile" /\ Free(WalletOf[d])
  /\ Lock(WalletOf[d], d)
  /\ form' = [form EXCEPT ![d].at = "role"]
  /\ UNCHANGED <<roles, onboardings, InOnboarding>>

(* The key (userId, role) rejects a second row of the same role. *)
CreateRole(d) ==
  LET w == WalletOf[d]  isNew == form[d].role \notin roles[w] IN
  /\ form[d].at = "role"
  /\ roles' = [roles EXCEPT ![w] = @ \cup {form[d].role}]
  /\ onboardings' = [onboardings EXCEPT ![w] = @ + IF isNew THEN 1 ELSE 0]
  /\ EndTransaction(d) /\ CloseForm(d)
  /\ UNCHANGED InOnboarding

-----------------------------------------------------------------------------
Tick ==
  /\ now < MaxNow
  /\ now' = now + 1
  /\ UNCHANGED <<rows, lock, posted, verification, device, form, counts>>

(* A request is cut off: its transaction rolls back. *)
Fail ==
  /\ MayFail
  /\ \/ \E v \in Verifications :
          /\ verification[v].at # "idle" /\ EndTransaction(v)
          /\ verification' = [verification EXCEPT ![v] = IdleVerification]
          /\ UNCHANGED form
     \/ \E d \in Devices :
          /\ form[d].at # "idle" /\ EndTransaction(d)
          /\ CloseForm(d)
          /\ UNCHANGED verification
  /\ UNCHANGED <<now, rows, posted, device, counts>>

VerificationStep(v) ==
  \/ ConsumeNonce(v) \/ FindUser(v) \/ UpdateUser(v) \/ CreateUser(v)
  \/ CommitLogin(v) \/ AnswerSession(v) \/ AnswerRefusal(v)

OnboardingStep(d) == CheckOnboarding(d) \/ UpdateProfile(d) \/ CreateRole(d)

Next ==
  \/ \E d \in Devices :
       \/ \E n \in Nonces : CreateSiweNonce(d, n)
       \/ PostMessage(d) \/ GiveUp(d) \/ Logout(d)
       \/ \E role \in OnboardingRoles : OpenForm(d, role)
       \/ OnboardingStep(d)
  \/ \E v \in Verifications :
       \/ \E message \in posted : VerifySiweMessageAndBinding(v, message)
       \/ VerificationStep(v)
  \/ Tick \/ Fail

Spec == Init /\ [][Next]_vars

(* The server goes on with the requests it has accepted. *)
Fairness ==
  /\ \A v \in Verifications : WF_vars(VerificationStep(v))
  /\ \A d \in Devices : WF_vars(OnboardingStep(d))

FairSpec == Spec /\ Fairness

-----------------------------------------------------------------------------
(* What docs/auth.md and the services promise of sign-in and onboarding.    *)

Transactions == Verifications \cup Devices
NonceRows == [expiresAt : Nat, used : BOOLEAN]
Messages == [nonce : Nonces, wallet : Wallets, expiresAt : Nat]
Requests ==
  [at : {"idle", "consume", "find", "update", "create", "commit", "committed", "refused"},
   message : Messages \cup {None}, isNewUser : BOOLEAN]
Panels ==
  [at : {"idle", "signing", "verifying"}, nonce : Nonces \cup {None}, cookie : Nat \cup {None}]
Forms == [at : {"idle", "check", "profile", "role"}, role : OnboardingRoles \cup {None}]

(* Type invariant of sign-in. *)
TypeOK ==
  /\ now \in 0..MaxNow
  /\ nonces \in [Nonces -> NonceRows \cup {None}]
  /\ issued \subseteq Nonces
  /\ users \subseteq Wallets
  /\ roles \in [Wallets -> SUBSET {"ADMIN", "CLIENT", "FREELANCER"}]
  /\ lock \in [Nonces \cup Wallets -> Transactions \cup {None}]
  /\ posted \subseteq Messages
  /\ verification \in [Verifications -> Requests]
  /\ device \in [Devices -> Panels]
  /\ form \in [Devices -> Forms]
  /\ logins \in [Nonces -> Nat]
  /\ welcomes \in [Wallets -> Nat] /\ onboardings \in [Wallets -> Nat]

(* "Concurrent reuse: updateMany with usedAt: null ensures only one         *)
(* verifier wins": a nonce is good for one session, however often its       *)
(* message is delivered and however the verifications interleave.           *)
OneLoginPerNonce == \A n \in Nonces : logins[n] <= 1

(* A wallet is welcomed as new once, although its first logins from two     *)
(* devices race to create the user.                                         *)
WelcomedOnce == \A w \in Wallets : welcomes[w] <= 1

(* Consuming a nonce and finding or creating its user succeed or fail as    *)
(* one: no nonce is spent that did not log its wallet's user in.            *)
SpentWithItsLogin ==
  \A n \in Nonces : nonces[n] # None /\ nonces[n].used =>
    \E m \in posted : m.nonce = n /\ m.wallet \in users

(* A device holds a session only of a user there is. *)
SessionsAreOfUsers ==
  \A d \in Devices : device[d].cookie # None => WalletOf[d] \in users

(* "Onboarding has already been completed for this account": the profile   *)
(* and role of an account are set by one onboarding,                       *)
OnboardedOnce == \A w \in Wallets : onboardings[w] <= 1

(* and in any case each onboarding gave a role the account did not have.   *)
OnboardedOncePerRole ==
  \A w \in Wallets : onboardings[w] = Cardinality(roles[w] \ {"ADMIN"})

(* What sign-in promises in every state, whatever roles the forms send.    *)
LoginsAreSound ==
  /\ OneLoginPerNonce /\ WelcomedOnce /\ SpentWithItsLogin
  /\ SessionsAreOfUsers /\ OnboardedOncePerRole

(* Verifications and onboardings take their locks in an order that never   *)
(* makes two wait for each other: every request is answered.               *)
RequestsEnd ==
  /\ \A v \in Verifications : verification[v].at # "idle" ~> verification[v].at = "idle"
  /\ \A d \in Devices : form[d].at # "idle" ~> form[d].at = "idle"
=============================================================================
