---------------------------- MODULE SignInProofs ----------------------------
(***************************************************************************)
(* Sign-in keeps its promises for every set of wallets, browsers, nonces   *)
(* and requests, however often a message is delivered, however the         *)
(* transactions interleave and wherever requests are cut off.              *)
(*                                                                         *)
(* What carries the argument is that a transaction holds the row lock of   *)
(* its nonce from the moment it found it unused until it commits, and the  *)
(* lock of its wallet's user from the moment it found none: what it has    *)
(* read of them is still true when it writes.                              *)
(***************************************************************************)
EXTENDS SignIn, FiniteSetTheorems, TLAPS

(* A transaction is open on the nonce it consumed. *)
IsOpen(v) == verification[v].at \in {"find", "update", "create", "commit"}

NonceOf(v) == MessageOf(v).nonce
Unused(n) == nonces[n] # None /\ ~nonces[n].used

(* A nonce that nobody can log in with any more. *)
Spent(n) == n \in issued /\ ~Unused(n)

(* Messages carry issued nonces; a request carries a message that was sent. *)
MessagesAreSent ==
  /\ \A m \in posted : m.nonce \in issued
  /\ \A v \in Verifications : verification[v].at # "idle" => MessageOf(v) \in posted

(* A nonce is signed by the wallet of the one device it was issued to. *)
NoncesHaveTheirDevice ==
  /\ \A d \in Devices : device[d].at # "idle" => device[d].nonce \in issued
  /\ \A d, e \in Devices :
       device[d].at # "idle" /\ device[e].at # "idle" /\ device[d].nonce = device[e].nonce
         => d = e
  /\ \A d \in Devices : \A m \in posted :
       device[d].at # "idle" /\ m.nonce = device[d].nonce => m.wallet = WalletOf[d]

(* What an open transaction has read is locked. *)
ReadsAreLocked ==
  \A v \in Verifications :
    /\ IsOpen(v) => lock[NonceOf(v)] = v /\ Unused(NonceOf(v))
    /\ verification[v].at = "commit" => lock[Wallet(v)] = v
    /\ verification[v].isNewUser =>
         \/ /\ verification[v].at = "commit"
            /\ Wallet(v) \notin users
         \/ verification[v].at = "committed"

(* A session is signed once, for a login that spent its nonce. *)
LoginsSpendNonces ==
  /\ \A n \in Nonces :
       /\ n \notin issued => nonces[n] = None
       /\ logins[n] = 0 \/ (logins[n] = 1 /\ Spent(n))
  /\ \A v \in Verifications : verification[v].at = "committed" =>
       Spent(NonceOf(v)) /\ logins[NonceOf(v)] = 0 /\ Wallet(v) \in users
  /\ \A v, u \in Verifications :
       verification[v].at = "committed" /\ verification[u].at = "committed"
         /\ NonceOf(v) = NonceOf(u) => v = u

(* A welcome is answered once, by the login that created the user. *)
WelcomesAreFirst ==
  /\ \A w \in Wallets : welcomes[w] = 0 \/ (welcomes[w] = 1 /\ w \in users)
  /\ \A v \in Verifications :
       verification[v].at = "committed" /\ verification[v].isNewUser => welcomes[Wallet(v)] = 0
  /\ \A v, u \in Verifications :
       /\ verification[v].at = "committed" /\ verification[v].isNewUser
       /\ verification[u].at = "committed" /\ verification[u].isNewUser
       /\ Wallet(v) = Wallet(u)
       => v = u

FormsHaveRoles ==
  \A d \in Devices : form[d].at # "idle" => form[d].role \in OnboardingRoles

SignInInv ==
  /\ TypeOK
  /\ MessagesAreSent /\ NoncesHaveTheirDevice /\ ReadsAreLocked
  /\ LoginsSpendNonces /\ WelcomesAreFirst /\ FormsHaveRoles
  /\ SpentWithItsLogin /\ SessionsAreOfUsers /\ OnboardedOncePerRole

-----------------------------------------------------------------------------
LEMMA SignInConstants ==
  /\ WalletOf \in [Devices -> Wallets] /\ AUTH_ADMIN_WALLETS \subseteq Wallets
  /\ Wallets \cap Nonces = {} /\ Devices \cap Verifications = {}
  /\ None \notin Wallets /\ None \notin Nonces /\ None \notin Nat
  /\ None \notin Verifications /\ None \notin Devices
  /\ AUTH_NONCE_TTL_SECONDS \in Nat /\ AUTH_SESSION_MAX_AGE_SECONDS \in Nat
  /\ MaxNow \in Nat
  /\ \A role \in OnboardingRoles : role \in {"CLIENT", "FREELANCER"}
BY SignInAssumption

(* A request that is not idle carries a message. *)
LEMMA MessageParts ==
  ASSUME TypeOK, MessagesAreSent,
         NEW v \in Verifications, verification[v].at # "idle"
  PROVE  /\ MessageOf(v) \in posted /\ MessageOf(v) \in Messages
         /\ NonceOf(v) \in Nonces /\ NonceOf(v) \in issued /\ Wallet(v) \in Wallets
         /\ NonceOf(v) # Wallet(v)
<1>1. MessageOf(v) \in posted /\ MessageOf(v) \in Messages
  BY DEF MessagesAreSent, TypeOK
<1> QED  BY <1>1, SignInConstants DEF MessagesAreSent, NonceOf, Wallet, Messages

(* One lemma per action. *)

LEMMA CreateSiweNonceKeeps ==
  ASSUME SignInInv, NEW d \in Devices, NEW n \in Nonces,
         CreateSiweNonce(d, n)
  PROVE  SignInInv'
<1> USE DEF SignInInv
<1>d. /\ device' \in [Devices -> Panels]
      /\ device'[d].at = "signing" /\ device'[d].nonce = n /\ device'[d].cookie = device[d].cookie
      /\ \A e \in Devices : e # d => device'[e] = device[e]
  BY DEF CreateSiweNonce, counts, TypeOK, Panels
<1>1. TypeOK'
  <2>1. nonces' \in [Nonces -> NonceRows \cup {None}]
    BY SignInConstants DEF CreateSiweNonce, counts, TypeOK, NonceRows
  <2> QED  BY <1>d, <2>1 DEF CreateSiweNonce, counts, TypeOK
<1>2. MessagesAreSent'
  BY DEF CreateSiweNonce, counts, Expired, Free, TypeOK, MessagesAreSent,
       MessageOf, Messages, Requests
<1>3. NoncesHaveTheirDevice'
  <2>1. \A m \in posted : m.nonce # n
    BY DEF CreateSiweNonce, MessagesAreSent
  <2>2. \A e \in Devices : device[e].at # "idle" => device[e].nonce # n
    BY DEF CreateSiweNonce, NoncesHaveTheirDevice
  <2>3. issued' = issued \cup {n} /\ posted' = posted
    BY DEF CreateSiweNonce
  <2> QED  BY <1>d, <2>1, <2>2, <2>3 DEF NoncesHaveTheirDevice, TypeOK
<1>4. ReadsAreLocked'
  <2>1. ASSUME NEW u \in Verifications, IsOpen(u)
        PROVE  nonces'[NonceOf(u)] = nonces[NonceOf(u)]
    <3>1. NonceOf(u) \in Nonces /\ NonceOf(u) \in issued
      BY <2>1, MessageParts DEF IsOpen
    <3>2. ~Expired(NonceOf(u)) /\ NonceOf(u) # n
      BY <2>1, <3>1, SignInConstants DEF CreateSiweNonce, ReadsAreLocked, Free
    <3> QED  BY <3>1, <3>2 DEF CreateSiweNonce
  <2>2. verification' = verification /\ lock' = lock /\ users' = users
    BY DEF CreateSiweNonce
  <2> QED  BY <2>1, <2>2 DEF ReadsAreLocked, IsOpen, NonceOf, MessageOf, Unused, Wallet
<1>5. LoginsSpendNonces'
  BY DEF CreateSiweNonce, counts, Expired, Free, TypeOK, LoginsSpendNonces,
       Spent, Unused, NonceOf, Wallet, MessageOf, NonceRows, Requests,
       Messages
<1>6. SpentWithItsLogin'
  BY DEF CreateSiweNonce, counts, Expired, Free, TypeOK, SpentWithItsLogin,
       NonceRows, Messages
<1>7. SessionsAreOfUsers'
  BY DEF CreateSiweNonce, counts, Expired, Free, TypeOK, SessionsAreOfUsers,
       Panels
<1>8. WelcomesAreFirst' /\ FormsHaveRoles' /\ OnboardedOncePerRole'
  BY DEF CreateSiweNonce, counts, WelcomesAreFirst, Wallet, MessageOf,
       FormsHaveRoles, OnboardedOncePerRole
<1> QED  BY <1>1, <1>2, <1>3, <1>4, <1>5, <1>6, <1>7, <1>8

LEMMA PostMessageKeeps ==
  ASSUME SignInInv, NEW d \in Devices, PostMessage(d)
  PROVE  SignInInv'
<1> USE DEF SignInInv
<1>d. /\ device' \in [Devices -> Panels]
      /\ device'[d].at = "verifying" /\ device'[d].nonce = device[d].nonce
      /\ device'[d].cookie = device[d].cookie
      /\ \A e \in Devices : e # d => device'[e] = device[e]
  BY DEF PostMessage, rows, counts, TypeOK, Panels
<1>m. /\ device[d].nonce \in Nonces /\ device[d].nonce \in issued
      /\ posted' = posted \cup {[nonce |-> device[d].nonce, wallet |-> WalletOf[d],
                                 expiresAt |-> now + AUTH_NONCE_TTL_SECONDS]}
  BY DEF PostMessage, NoncesHaveTheirDevice, TypeOK
<1>1. TypeOK'
  <2>1. posted' \subseteq Messages
    BY <1>m, SignInConstants DEF TypeOK, Messages
  <2> QED  BY <1>d, <2>1 DEF PostMessage, rows, counts, TypeOK
<1>2. MessagesAreSent'
  BY <1>m DEF PostMessage, rows, MessagesAreSent, MessageOf
<1>3. NoncesHaveTheirDevice'
  BY DEF PostMessage, rows, counts, TypeOK, NoncesHaveTheirDevice, Panels,
       Messages
<1>4. SpentWithItsLogin'
  BY DEF PostMessage, rows, counts, TypeOK, SpentWithItsLogin, NonceRows,
       Messages
<1>5. SessionsAreOfUsers'
  BY DEF PostMessage, rows, counts, TypeOK, SessionsAreOfUsers, Panels
<1>6. ReadsAreLocked' /\ LoginsSpendNonces' /\ WelcomesAreFirst' /\
          FormsHaveRoles' /\ OnboardedOncePerRole'
  BY DEF PostMessage, rows, counts, ReadsAreLocked, IsOpen, NonceOf, Unused,
       Wallet, MessageOf, LoginsSpendNonces, Spent, WelcomesAreFirst,
       FormsHaveRoles, OnboardedOncePerRole
<1> QED  BY <1>1, <1>2, <1>3, <1>4, <1>5, <1>6

LEMMA GiveUpKeeps ==
  ASSUME SignInInv, NEW d \in Devices, GiveUp(d)
  PROVE  SignInInv'
<1> USE DEF SignInInv
<1>d. /\ device' \in [Devices -> Panels]
      /\ device'[d].at = "idle" /\ device'[d].cookie = device[d].cookie
      /\ \A e \in Devices : e # d => device'[e] = device[e]
  BY DEF GiveUp, rows, counts, TypeOK, Panels
<1>1. TypeOK'
  BY <1>d DEF GiveUp, rows, counts, TypeOK
<1>2. NoncesHaveTheirDevice'
  BY DEF GiveUp, rows, counts, TypeOK, NoncesHaveTheirDevice, Panels, Messages
<1>3. SessionsAreOfUsers'
  BY DEF GiveUp, rows, counts, TypeOK, SessionsAreOfUsers, Panels
<1>4. MessagesAreSent' /\ ReadsAreLocked' /\ LoginsSpendNonces' /\
          WelcomesAreFirst' /\ FormsHaveRoles' /\ SpentWithItsLogin' /\
          OnboardedOncePerRole'
  BY DEF GiveUp, rows, counts, MessagesAreSent, MessageOf, ReadsAreLocked,
       IsOpen, NonceOf, Unused, Wallet, LoginsSpendNonces, Spent,
       WelcomesAreFirst, FormsHaveRoles, SpentWithItsLogin,
       OnboardedOncePerRole
<1> QED  BY <1>1, <1>2, <1>3, <1>4

LEMMA LogoutKeeps ==
  ASSUME SignInInv, NEW d \in Devices, Logout(d)
  PROVE  SignInInv'
<1> USE DEF SignInInv
<1>1. TypeOK'
  BY DEF Logout, rows, counts, TypeOK, Transactions, Panels
<1>2. NoncesHaveTheirDevice'
  BY DEF Logout, rows, counts, TypeOK, NoncesHaveTheirDevice, Panels, Messages
<1>3. SessionsAreOfUsers'
  BY DEF Logout, rows, counts, TypeOK, SessionsAreOfUsers, Panels
<1>4. MessagesAreSent' /\ ReadsAreLocked' /\ LoginsSpendNonces' /\
          WelcomesAreFirst' /\ FormsHaveRoles' /\ SpentWithItsLogin' /\
          OnboardedOncePerRole'
  BY DEF Logout, rows, counts, MessagesAreSent, MessageOf, ReadsAreLocked,
       IsOpen, NonceOf, Unused, Wallet, LoginsSpendNonces, Spent,
       WelcomesAreFirst, FormsHaveRoles, SpentWithItsLogin,
       OnboardedOncePerRole
<1> QED  BY <1>1, <1>2, <1>3, <1>4

LEMMA VerifySiweMessageAndBindingKeeps ==
  ASSUME SignInInv, NEW v \in Verifications, NEW message \in
         posted, VerifySiweMessageAndBinding(v, message)
  PROVE  SignInInv'
<1> USE DEF SignInInv
<1>1. TypeOK'
  BY DEF VerifySiweMessageAndBinding, rows, InVerification, counts,
       TypeOK, Transactions, Requests, Messages
<1>2. MessagesAreSent'
  BY DEF VerifySiweMessageAndBinding, rows, InVerification, counts, TypeOK,
       MessagesAreSent, MessageOf, Messages, Requests
<1>3. ReadsAreLocked'
  BY DEF VerifySiweMessageAndBinding, rows, InVerification, counts, TypeOK,
       ReadsAreLocked, IsOpen, NonceOf, Unused, Wallet, MessageOf, Requests,
       Messages, NonceRows
<1>4. LoginsSpendNonces'
  BY DEF VerifySiweMessageAndBinding, rows, InVerification, counts, TypeOK,
       LoginsSpendNonces, Spent, Unused, NonceOf, Wallet, MessageOf,
       NonceRows, Requests, Messages
<1>5. WelcomesAreFirst'
  BY DEF VerifySiweMessageAndBinding, rows, InVerification, counts, TypeOK,
       WelcomesAreFirst, Wallet, MessageOf, Requests, Messages
<1>6. NoncesHaveTheirDevice' /\ FormsHaveRoles' /\ SpentWithItsLogin' /\
          SessionsAreOfUsers' /\ OnboardedOncePerRole'
  BY DEF VerifySiweMessageAndBinding, rows, InVerification, counts,
       NoncesHaveTheirDevice, FormsHaveRoles, SpentWithItsLogin,
       SessionsAreOfUsers, OnboardedOncePerRole
<1> QED  BY <1>1, <1>2, <1>3, <1>4, <1>5, <1>6

LEMMA ConsumeNonceKeeps ==
  ASSUME SignInInv, NEW v \in Verifications, ConsumeNonce(v)
  PROVE  SignInInv'
<1> USE DEF SignInInv
<1> DEFINE n == NonceOf(v)
<1>1. n \in Nonces /\ n # Wallet(v) /\ Wallet(v) \in Wallets /\ verification[v].at = "consume"
  BY MessageParts DEF ConsumeNonce
<1>2. /\ verification' \in [Verifications -> Requests]
      /\ verification'[v].at \in {"find", "refused"}
      /\ \A u \in Verifications :
           /\ verification'[u].message = verification[u].message
           /\ verification'[u].isNewUser = verification[u].isNewUser
           /\ u # v => verification'[u].at = verification[u].at
  BY <1>1 DEF ConsumeNonce, Move, TypeOK, Requests
<1>3. /\ verification'[v].at = "find" => Live(n) /\ lock[n] = None /\ lock'[n] = v
      /\ lock' \in [Nonces \cup Wallets -> Transactions \cup {None}]
      /\ \A k \in Nonces \cup Wallets : lock[k] # None => lock'[k] = lock[k]
  BY <1>1, SignInConstants
     DEF ConsumeNonce, Move, Lock, Free, TypeOK, Requests, Transactions, NonceOf
<1>4. /\ nonces' = nonces /\ issued' = issued /\ users' = users /\ roles' = roles
      /\ now' = now /\ posted' = posted /\ device' = device /\ form' = form
      /\ logins' = logins /\ welcomes' = welcomes /\ onboardings' = onboardings
  BY DEF ConsumeNonce, rows, counts, InVerification
<1>5. TypeOK'
  BY <1>2, <1>3, <1>4 DEF TypeOK
<1>6. ReadsAreLocked'
  <2>1. ASSUME NEW u \in Verifications, IsOpen(u), u # v
        PROVE  /\ lock'[NonceOf(u)] = u
               /\ verification[u].at = "commit" => lock'[Wallet(u)] = u
    BY <2>1, <1>3, MessageParts, SignInConstants DEF ReadsAreLocked, IsOpen
  <2>2. ~verification[v].isNewUser /\ (Live(n) => Unused(n))
    BY <1>1 DEF ReadsAreLocked, Live, Unused
  <2> QED
    BY <1>2, <1>3, <1>4, <2>1, <2>2
       DEF ReadsAreLocked, IsOpen, NonceOf, Wallet, MessageOf, Unused
<1>7. MessagesAreSent' /\ LoginsSpendNonces' /\ WelcomesAreFirst'
  BY <1>1, <1>2, <1>4
     DEF MessagesAreSent, LoginsSpendNonces, WelcomesAreFirst, Spent, Unused, NonceOf,
         Wallet, MessageOf
<1>8. NoncesHaveTheirDevice' /\ FormsHaveRoles' /\ SpentWithItsLogin' /\ SessionsAreOfUsers'
        /\ OnboardedOncePerRole'
  BY <1>4
     DEF NoncesHaveTheirDevice, FormsHaveRoles, SpentWithItsLogin, SessionsAreOfUsers,
         OnboardedOncePerRole
<1> QED  BY <1>5, <1>6, <1>7, <1>8

LEMMA FindUserKeeps ==
  ASSUME SignInInv, NEW v \in Verifications, FindUser(v)
  PROVE  SignInInv'
<1> USE DEF SignInInv
<1>1. TypeOK'
  BY DEF FindUser, rows, InVerification, counts, Move, Wallet, MessageOf,
       TypeOK, Transactions, Requests, Messages
<1>2. MessagesAreSent'
  BY DEF FindUser, rows, InVerification, counts, Move, Wallet, MessageOf,
       TypeOK, MessagesAreSent, Messages, Requests
<1>3. ReadsAreLocked'
  BY DEF FindUser, rows, InVerification, counts, Move, Wallet, MessageOf,
       TypeOK, ReadsAreLocked, IsOpen, NonceOf, Unused, Requests, Messages,
       NonceRows
<1>4. LoginsSpendNonces'
  BY DEF FindUser, rows, InVerification, counts, Move, Wallet, MessageOf,
       TypeOK, LoginsSpendNonces, Spent, Unused, NonceOf, NonceRows, Requests,
       Messages
<1>5. WelcomesAreFirst'
  BY DEF FindUser, rows, InVerification, counts, Move, Wallet, MessageOf,
       TypeOK, WelcomesAreFirst, Requests, Messages
<1>6. NoncesHaveTheirDevice' /\ FormsHaveRoles' /\ SpentWithItsLogin' /\
          SessionsAreOfUsers' /\ OnboardedOncePerRole'
  BY DEF FindUser, rows, InVerification, counts, NoncesHaveTheirDevice,
       FormsHaveRoles, SpentWithItsLogin, SessionsAreOfUsers,
       OnboardedOncePerRole
<1> QED  BY <1>1, <1>2, <1>3, <1>4, <1>5, <1>6

LEMMA UpdateUserKeeps ==
  ASSUME SignInInv, NEW v \in Verifications, UpdateUser(v)
  PROVE  SignInInv'
<1> USE DEF SignInInv
<1>v. /\ verification[v].at = "update" /\ ~verification[v].isNewUser
      /\ verification' = [verification EXCEPT ![v].at = "commit"]
      /\ lock[Wallet(v)] = None /\ lock' = [lock EXCEPT ![Wallet(v)] = v]
      /\ Wallet(v) \in Wallets /\ Wallet(v) # NonceOf(v) /\ NonceOf(v) \in Nonces
      /\ nonces' = nonces /\ users' = users
  BY MessageParts DEF UpdateUser, rows, Free, Lock, Move, ReadsAreLocked
<1>1. TypeOK'
  BY <1>v DEF UpdateUser, rows, counts, InVerification, TypeOK, Transactions, Requests
<1>2. MessagesAreSent'
  BY DEF UpdateUser, rows, InVerification, counts, Free, Lock, Move, Wallet,
       MessageOf, TypeOK, MessagesAreSent, Messages, Requests
<1>3. ReadsAreLocked'
  BY <1>v, SignInConstants
     DEF TypeOK, Requests, ReadsAreLocked, IsOpen, NonceOf, Wallet, MessageOf, Unused
<1>4. LoginsSpendNonces'
  BY DEF UpdateUser, rows, InVerification, counts, Free, Lock, Move, Wallet,
       MessageOf, TypeOK, LoginsSpendNonces, Spent, Unused, NonceOf,
       NonceRows, Requests, Messages
<1>5. WelcomesAreFirst'
  BY DEF UpdateUser, rows, InVerification, counts, Free, Lock, Move, Wallet,
       MessageOf, TypeOK, WelcomesAreFirst, Requests, Messages
<1>6. NoncesHaveTheirDevice' /\ FormsHaveRoles' /\ SpentWithItsLogin' /\
          SessionsAreOfUsers' /\ OnboardedOncePerRole'
  BY DEF UpdateUser, rows, InVerification, counts, NoncesHaveTheirDevice,
       FormsHaveRoles, SpentWithItsLogin, SessionsAreOfUsers,
       OnboardedOncePerRole
<1> QED  BY <1>1, <1>2, <1>3, <1>4, <1>5, <1>6

LEMMA CreateUserKeeps ==
  ASSUME SignInInv, NEW v \in Verifications, CreateUser(v)
  PROVE  SignInInv'
<1> USE DEF SignInInv
<1> DEFINE w == Wallet(v)
<1>1. /\ verification[v].at = "create" /\ ~verification[v].isNewUser
      /\ w \in Wallets /\ NonceOf(v) \in Nonces /\ NonceOf(v) # w
  BY MessageParts DEF CreateUser, ReadsAreLocked
<1>2. /\ verification' \in [Verifications -> Requests]
      /\ \A u \in Verifications :
           /\ verification'[u].message = verification[u].message
           /\ u # v => verification'[u] = verification[u]
  BY <1>1 DEF CreateUser, Move, TypeOK, Requests
<1>3. /\ lock' \in [Nonces \cup Wallets -> Transactions \cup {None}]
      /\ \A k \in Nonces \cup Wallets : lock[k] \notin {v, None} => lock'[k] = lock[k]
  <2>1. \/ lock' = [k \in DOMAIN lock |-> IF lock[k] = v THEN None ELSE lock[k]]
        \/ lock' = [lock EXCEPT ![w] = v] /\ lock[w] = None
    BY DEF CreateUser, Lock, EndTransaction, Free
  <2> QED  BY <1>1, <2>1 DEF TypeOK, Transactions
<1>4. \/ verification'[v].at = "refused" /\ ~verification'[v].isNewUser
      \/ /\ verification'[v].at = "commit" /\ w \notin users
         /\ lock'[w] = v /\ lock'[NonceOf(v)] = lock[NonceOf(v)]
  BY <1>1 DEF CreateUser, Lock, Move, TypeOK, Requests
<1>5. /\ nonces' = nonces /\ issued' = issued /\ users' = users /\ roles' = roles
      /\ now' = now /\ posted' = posted /\ device' = device /\ form' = form
      /\ logins' = logins /\ welcomes' = welcomes /\ onboardings' = onboardings
  BY DEF CreateUser, rows, counts, InVerification
<1>6. TypeOK'
  BY <1>2, <1>3, <1>5 DEF TypeOK
<1>7. ReadsAreLocked'
  <2>1. ASSUME NEW u \in Verifications, IsOpen(u), u # v
        PROVE  /\ lock'[NonceOf(u)] = u
               /\ verification[u].at = "commit" => lock'[Wallet(u)] = u
    BY <2>1, <1>3, MessageParts, SignInConstants DEF ReadsAreLocked, IsOpen
  <2>2. lock[NonceOf(v)] = v /\ Unused(NonceOf(v))
    BY <1>1 DEF ReadsAreLocked, IsOpen
  <2> QED
    BY <1>2, <1>4, <1>5, <2>1, <2>2
       DEF ReadsAreLocked, IsOpen, NonceOf, Wallet, MessageOf, Unused
<1>8. MessagesAreSent' /\ LoginsSpendNonces' /\ WelcomesAreFirst'
  BY <1>1, <1>2, <1>4, <1>5
     DEF MessagesAreSent, LoginsSpendNonces, WelcomesAreFirst, Spent, Unused, NonceOf,
         Wallet, MessageOf
<1>9. NoncesHaveTheirDevice' /\ FormsHaveRoles' /\ SpentWithItsLogin' /\ SessionsAreOfUsers'
        /\ OnboardedOncePerRole'
  BY <1>5
     DEF NoncesHaveTheirDevice, FormsHaveRoles, SpentWithItsLogin, SessionsAreOfUsers,
         OnboardedOncePerRole
<1> QED  BY <1>6, <1>7, <1>8, <1>9

LEMMA CommitLoginKeeps ==
  ASSUME SignInInv, NEW v \in Verifications, CommitLogin(v)
  PROVE  SignInInv'
<1> USE DEF SignInInv
<1> DEFINE n == NonceOf(v)
           w == Wallet(v)
<1>1. /\ verification[v].at = "commit"
      /\ MessageOf(v) \in posted /\ MessageOf(v).nonce = n /\ MessageOf(v).wallet = w
      /\ n \in Nonces /\ n \in issued /\ w \in Wallets
      /\ lock[n] = v /\ lock[w] = v /\ Unused(n)
      /\ verification[v].isNewUser => w \notin users
  BY MessageParts DEF CommitLogin, ReadsAreLocked, IsOpen, NonceOf, Wallet
<1>2. /\ verification' \in [Verifications -> Requests]
      /\ verification'[v].at = "committed"
      /\ \A u \in Verifications :
           /\ verification'[u].message = verification[u].message
           /\ verification'[u].isNewUser = verification[u].isNewUser
           /\ u # v => verification'[u].at = verification[u].at
  BY <1>1 DEF CommitLogin, Move, TypeOK, Requests
<1>3. /\ nonces' \in [Nonces -> NonceRows \cup {None}] /\ nonces'[n].used
      /\ \A m \in Nonces : m # n => nonces'[m] = nonces[m]
  <2>1. nonces[n] \in NonceRows
    BY <1>1 DEF Unused, TypeOK
  <2>2. [nonces[n] EXCEPT !.used = TRUE] \in NonceRows /\ [nonces[n] EXCEPT !.used = TRUE].used
    BY <2>1 DEF NonceRows
  <2>3. nonces' = [nonces EXCEPT ![n] = [nonces[n] EXCEPT !.used = TRUE]]
    BY <1>1 DEF CommitLogin
  <2> QED  BY <1>1, <2>2, <2>3 DEF TypeOK
<1>4. /\ lock' \in [Nonces \cup Wallets -> Transactions \cup {None}]
      /\ \A k \in Nonces \cup Wallets : lock[k] # v => lock'[k] = lock[k]
  BY DEF CommitLogin, EndTransaction, TypeOK
<1>5. /\ users' = users \cup {w} /\ issued' = issued
      /\ now' = now /\ posted' = posted /\ device' = device /\ form' = form
      /\ logins' = logins /\ welcomes' = welcomes /\ onboardings' = onboardings
  BY DEF CommitLogin, counts, InVerification
<1>6. TypeOK'
  <2>1. roles' \in [Wallets -> SUBSET {"ADMIN", "CLIENT", "FREELANCER"}]
    BY <1>1 DEF CommitLogin, TypeOK
  <2> QED  BY <1>1, <1>2, <1>3, <1>4, <1>5, <2>1 DEF TypeOK
<1>7. ReadsAreLocked'
  <2>1. ASSUME NEW u \in Verifications, IsOpen(u), u # v
        PROVE  /\ NonceOf(u) # n /\ lock'[NonceOf(u)] = u /\ NonceOf(u) \in Nonces
               /\ verification[u].at = "commit" => lock'[Wallet(u)] = u /\ Wallet(u) # w
    BY <2>1, <1>1, <1>4, MessageParts DEF ReadsAreLocked, IsOpen
  <2> QED
    BY <1>2, <1>3, <1>5, <2>1
       DEF ReadsAreLocked, IsOpen, NonceOf, Wallet, MessageOf, Unused
<1>8. LoginsSpendNonces'
  <2>1. logins[n] = 0
    BY <1>1 DEF LoginsSpendNonces, Spent
  <2>2. ASSUME NEW u \in Verifications, verification[u].at = "committed"
        PROVE  NonceOf(u) # n /\ NonceOf(u) \in Nonces
    BY <2>2, <1>1, MessageParts DEF LoginsSpendNonces, Spent
  <2>3. \A m \in Nonces : m = n \/ Spent(m) => Spent(m)'
    BY <1>1, <1>3, <1>5 DEF Spent, Unused
  <2>4. \A m \in Nonces : m \notin issued => nonces'[m] = None
    BY <1>1, <1>3 DEF LoginsSpendNonces
  <2> QED
    BY <1>1, <1>2, <1>5, <2>1, <2>2, <2>3, <2>4
       DEF LoginsSpendNonces, NonceOf, Wallet, MessageOf, Spent
<1>9. WelcomesAreFirst'
  <2>1. \A u \in Verifications : verification[u].at = "committed" => Wallet(u) \in users
    BY DEF LoginsSpendNonces
  <2>2. w \notin users => welcomes[w] = 0
    BY <1>1 DEF WelcomesAreFirst
  <2> QED
    BY <1>1, <1>2, <1>5, <2>1, <2>2 DEF WelcomesAreFirst, Wallet, MessageOf
<1>10. SpentWithItsLogin'
  <2>1. ASSUME NEW m \in Nonces, nonces'[m] # None, nonces'[m].used
        PROVE  \E msg \in posted : msg.nonce = m /\ msg.wallet \in users'
    <3>1. CASE m = n
      BY <3>1, <1>1, <1>5
    <3>2. CASE m # n
      BY <3>2, <2>1, <1>3, <1>5 DEF SpentWithItsLogin
    <3> QED  BY <3>1, <3>2
  <2> QED  BY <1>5, <2>1 DEF SpentWithItsLogin
<1>11. OnboardedOncePerRole'
  <2>1. \A x \in Wallets : roles'[x] \ {"ADMIN"} = roles[x] \ {"ADMIN"}
    BY <1>1 DEF CommitLogin, TypeOK
  <2> QED  BY <1>5, <2>1 DEF OnboardedOncePerRole
<1>12. MessagesAreSent' /\ NoncesHaveTheirDevice' /\ FormsHaveRoles' /\ SessionsAreOfUsers'
  BY <1>1, <1>2, <1>5
     DEF MessagesAreSent, NoncesHaveTheirDevice, FormsHaveRoles, SessionsAreOfUsers, MessageOf
<1> QED  BY <1>6, <1>7, <1>8, <1>9, <1>10, <1>11, <1>12

LEMMA AnswerSessionKeeps ==
  ASSUME SignInInv, NEW v \in Verifications, AnswerSession(v)
  PROVE  SignInInv'
<1> USE DEF SignInInv
<1> DEFINE n == NonceOf(v)
           w == Wallet(v)
<1>1. /\ verification[v].at = "committed" /\ MessageOf(v) \in posted
      /\ MessageOf(v).nonce = n /\ MessageOf(v).wallet = w
      /\ n \in Nonces /\ w \in Wallets /\ w \in users
      /\ Spent(n) /\ logins[n] = 0
      /\ verification[v].isNewUser => welcomes[w] = 0
  BY MessageParts DEF AnswerSession, LoginsSpendNonces, WelcomesAreFirst, NonceOf, Wallet
<1>2. /\ verification' \in [Verifications -> Requests]
      /\ verification'[v].at = "idle" /\ ~verification'[v].isNewUser
      /\ \A u \in Verifications : u # v => verification'[u] = verification[u]
  BY DEF AnswerSession, IdleVerification, TypeOK, Requests
<1>3. /\ logins' \in [Nonces -> Nat] /\ logins'[n] = 1
      /\ \A m \in Nonces : m # n => logins'[m] = logins[m]
  BY <1>1 DEF AnswerSession, TypeOK, NonceOf
<1>4. /\ welcomes' \in [Wallets -> Nat]
      /\ welcomes'[w] = IF verification[v].isNewUser THEN 1 ELSE welcomes[w]
      /\ \A x \in Wallets : x # w => welcomes'[x] = welcomes[x]
  <2>1. welcomes' = [welcomes EXCEPT ![w] = welcomes[w] + IF verification[v].isNewUser THEN 1 ELSE 0]
    BY <1>1 DEF AnswerSession, TypeOK
  <2>2. CASE verification[v].isNewUser
    BY <1>1, <2>1, <2>2 DEF TypeOK
  <2>3. CASE ~verification[v].isNewUser
    BY <1>1, <2>1, <2>3 DEF TypeOK
  <2> QED  BY <2>2, <2>3
<1>5. /\ now' = now /\ nonces' = nonces /\ issued' = issued /\ users' = users /\ roles' = roles
      /\ lock' = lock /\ posted' = posted /\ form' = form /\ onboardings' = onboardings
  BY DEF AnswerSession, rows
<1>6. \A d \in Devices :
        \/ device'[d] = device[d]
        \/ /\ WaitsFor(d, v)
           /\ device'[d] = [at |-> "idle", nonce |-> None, cookie |-> SessionToken]
  BY DEF AnswerSession
<1>7. TypeOK'
  <2>1. [at |-> "idle", nonce |-> None, cookie |-> SessionToken] \in Panels
    BY SignInConstants DEF SessionToken, TypeOK, Panels
  <2>2. device' \in [Devices -> Panels]
    BY <1>6, <2>1 DEF AnswerSession, TypeOK
  <2> QED  BY <1>2, <1>3, <1>4, <1>5, <2>2 DEF TypeOK
<1>8. NoncesHaveTheirDevice'
  <2>1. \A d \in Devices : device'[d].at # "idle" => device'[d] = device[d]
    BY <1>6
  <2> QED  BY <1>5, <2>1 DEF NoncesHaveTheirDevice
<1>9. SessionsAreOfUsers'
  <2>1. ASSUME NEW d \in Devices, WaitsFor(d, v)
        PROVE  WalletOf[d] \in users
    BY <1>1, <2>1 DEF WaitsFor, NoncesHaveTheirDevice
  <2> QED  BY <1>5, <1>6, <2>1 DEF SessionsAreOfUsers
<1>10. LoginsSpendNonces'
  <2>1. ASSUME NEW u \in Verifications, verification'[u].at = "committed"
        PROVE  /\ verification'[u] = verification[u] /\ NonceOf(u) # n /\ NonceOf(u) \in Nonces
    BY <1>1, <1>2, <2>1, MessageParts DEF LoginsSpendNonces
  <2>2. \A m \in Nonces : Spent(m)' = Spent(m)
    BY <1>5 DEF Spent, Unused
  <2>3. \A m \in Nonces : logins'[m] = 0 \/ (logins'[m] = 1 /\ Spent(m))
    BY <1>1, <1>3 DEF LoginsSpendNonces
  <2> QED
    BY <1>3, <1>5, <2>1, <2>2, <2>3 DEF LoginsSpendNonces, NonceOf, Wallet, MessageOf
<1>11. WelcomesAreFirst'
  <2>1. ASSUME NEW u \in Verifications, verification'[u].at = "committed"
        PROVE  /\ verification'[u] = verification[u] /\ Wallet(u) \in Wallets
               /\ verification[u].isNewUser /\ verification[v].isNewUser => Wallet(u) # w
    BY <1>1, <1>2, <2>1, MessageParts DEF WelcomesAreFirst
  <2>2. \A x \in Wallets : welcomes'[x] = 0 \/ (welcomes'[x] = 1 /\ x \in users)
    BY <1>1, <1>4 DEF WelcomesAreFirst
  <2> QED
    BY <1>4, <1>5, <2>1, <2>2 DEF WelcomesAreFirst, Wallet, MessageOf
<1>12. MessagesAreSent' /\ ReadsAreLocked' /\ FormsHaveRoles' /\ SpentWithItsLogin'
        /\ OnboardedOncePerRole'
  BY <1>2, <1>5
     DEF MessagesAreSent, ReadsAreLocked, FormsHaveRoles, SpentWithItsLogin,
         OnboardedOncePerRole, IsOpen, NonceOf, Unused, Wallet, MessageOf
<1> QED  BY <1>7, <1>8, <1>9, <1>10, <1>11, <1>12

LEMMA AnswerRefusalKeeps ==
  ASSUME SignInInv, NEW v \in Verifications, AnswerRefusal(v)
  PROVE  SignInInv'
<1> USE DEF SignInInv
<1>1. /\ verification' \in [Verifications -> Requests]
      /\ verification'[v].at = "idle" /\ ~verification'[v].isNewUser
      /\ \A u \in Verifications : u # v => verification'[u] = verification[u]
  BY DEF AnswerRefusal, IdleVerification, TypeOK, Requests
<1>2. /\ device' \in [Devices -> Panels]
      /\ \A d \in Devices :
           /\ device'[d] = device[d] \/ device'[d].at = "idle"
           /\ device'[d].cookie = device[d].cookie
  BY DEF AnswerRefusal, TypeOK, Panels
<1>3. /\ now' = now /\ nonces' = nonces /\ issued' = issued /\ users' = users /\ roles' = roles
      /\ lock' = lock /\ posted' = posted /\ form' = form
      /\ logins' = logins /\ welcomes' = welcomes /\ onboardings' = onboardings
  BY DEF AnswerRefusal, rows, counts
<1>4. TypeOK'
  BY <1>1, <1>2, <1>3 DEF TypeOK
<1>5. NoncesHaveTheirDevice' /\ SessionsAreOfUsers'
  BY <1>2, <1>3 DEF NoncesHaveTheirDevice, SessionsAreOfUsers
<1>6. MessagesAreSent' /\ ReadsAreLocked' /\ LoginsSpendNonces' /\ WelcomesAreFirst'
  BY <1>1, <1>3
     DEF MessagesAreSent, ReadsAreLocked, LoginsSpendNonces, WelcomesAreFirst, IsOpen,
         NonceOf, Spent, Unused, Wallet, MessageOf
<1>7. FormsHaveRoles' /\ SpentWithItsLogin' /\ OnboardedOncePerRole'
  BY <1>3 DEF FormsHaveRoles, SpentWithItsLogin, OnboardedOncePerRole
<1> QED  BY <1>4, <1>5, <1>6, <1>7

LEMMA OpenFormKeeps ==
  ASSUME SignInInv, NEW d \in Devices, NEW role \in
         OnboardingRoles, OpenForm(d, role)
  PROVE  SignInInv'
<1> USE DEF SignInInv
<1>1. TypeOK'
  BY DEF OpenForm, InOnboarding, TypeOK, Transactions, Forms
<1>2. FormsHaveRoles'
  BY DEF OpenForm, InOnboarding, TypeOK, FormsHaveRoles, Forms
<1>3. MessagesAreSent' /\ NoncesHaveTheirDevice' /\ ReadsAreLocked' /\
          LoginsSpendNonces' /\ WelcomesAreFirst' /\ SpentWithItsLogin' /\
          SessionsAreOfUsers' /\ OnboardedOncePerRole'
  BY DEF OpenForm, InOnboarding, MessagesAreSent, MessageOf,
       NoncesHaveTheirDevice, ReadsAreLocked, IsOpen, NonceOf, Unused, Wallet,
       LoginsSpendNonces, Spent, WelcomesAreFirst, SpentWithItsLogin,
       SessionsAreOfUsers, OnboardedOncePerRole
<1> QED  BY <1>1, <1>2, <1>3

LEMMA CheckOnboardingKeeps ==
  ASSUME SignInInv, NEW d \in Devices, CheckOnboarding(d)
  PROVE  SignInInv'
<1> USE DEF SignInInv
<1>1. TypeOK'
  BY DEF CheckOnboarding, InOnboarding, CloseForm, TypeOK,
       Transactions, Forms
<1>2. FormsHaveRoles'
  BY DEF CheckOnboarding, InOnboarding, CloseForm, TypeOK, FormsHaveRoles,
       Forms
<1>3. MessagesAreSent' /\ NoncesHaveTheirDevice' /\ ReadsAreLocked' /\
          LoginsSpendNonces' /\ WelcomesAreFirst' /\ SpentWithItsLogin' /\
          SessionsAreOfUsers' /\ OnboardedOncePerRole'
  BY DEF CheckOnboarding, InOnboarding, MessagesAreSent, MessageOf,
       NoncesHaveTheirDevice, ReadsAreLocked, IsOpen, NonceOf, Unused, Wallet,
       LoginsSpendNonces, Spent, WelcomesAreFirst, SpentWithItsLogin,
       SessionsAreOfUsers, OnboardedOncePerRole
<1> QED  BY <1>1, <1>2, <1>3

LEMMA UpdateProfileKeeps ==
  ASSUME SignInInv, NEW d \in Devices, UpdateProfile(d)
  PROVE  SignInInv'
<1> USE DEF SignInInv
<1>1. /\ WalletOf[d] \in Wallets
      /\ lock[WalletOf[d]] = None /\ lock' = [lock EXCEPT ![WalletOf[d]] = d]
      /\ form[d].at = "profile" /\ form' = [form EXCEPT ![d].at = "role"]
  BY SignInConstants DEF UpdateProfile, Free, Lock
<1>2. /\ now' = now /\ nonces' = nonces /\ issued' = issued /\ users' = users /\ roles' = roles
      /\ posted' = posted /\ verification' = verification /\ device' = device
      /\ logins' = logins /\ welcomes' = welcomes /\ onboardings' = onboardings
  BY DEF UpdateProfile, InOnboarding
<1>3. TypeOK'
  BY <1>1, <1>2 DEF TypeOK, Transactions, Forms
<1>4. ReadsAreLocked'
  <2>1. ASSUME NEW u \in Verifications, IsOpen(u)
        PROVE  /\ lock'[NonceOf(u)] = lock[NonceOf(u)]
               /\ lock[Wallet(u)] = u => lock'[Wallet(u)] = lock[Wallet(u)]
    BY <1>1, <2>1, MessageParts, SignInConstants DEF TypeOK, IsOpen
  <2> QED  BY <1>2, <2>1 DEF ReadsAreLocked, IsOpen, NonceOf, Unused, Wallet, MessageOf
<1>5. FormsHaveRoles'
  BY <1>1 DEF FormsHaveRoles, TypeOK, Forms
<1>6. /\ MessagesAreSent' /\ NoncesHaveTheirDevice' /\ LoginsSpendNonces' /\ WelcomesAreFirst'
      /\ SpentWithItsLogin' /\ SessionsAreOfUsers' /\ OnboardedOncePerRole'
  BY <1>2
     DEF MessagesAreSent, NoncesHaveTheirDevice, LoginsSpendNonces, WelcomesAreFirst,
         SpentWithItsLogin, SessionsAreOfUsers, OnboardedOncePerRole, NonceOf, Spent,
         Unused, Wallet, MessageOf
<1> QED  BY <1>3, <1>4, <1>5, <1>6

LEMMA CreateRoleKeeps ==
  ASSUME SignInInv, NEW d \in Devices, CreateRole(d)
  PROVE  SignInInv'
<1> USE DEF SignInInv
<1> DEFINE w == WalletOf[d]
           role == form[d].role
<1>1. w \in Wallets /\ role \in {"CLIENT", "FREELANCER"}
  BY SignInConstants DEF CreateRole, FormsHaveRoles
<1>2. /\ roles' = [roles EXCEPT ![w] = roles[w] \cup {role}]
      /\ onboardings' = [onboardings EXCEPT ![w] =
           onboardings[w] + IF role \notin roles[w] THEN 1 ELSE 0]
  BY <1>1 DEF CreateRole, TypeOK
<1>3. /\ lock' \in [Nonces \cup Wallets -> Transactions \cup {None}]
      /\ \A k \in Nonces \cup Wallets : lock[k] # d => lock'[k] = lock[k]
  BY DEF CreateRole, EndTransaction, TypeOK
<1>4. form' = [form EXCEPT ![d] = [at |-> "idle", role |-> None]]
  BY DEF CreateRole, CloseForm
<1>5. /\ now' = now /\ nonces' = nonces /\ issued' = issued /\ users' = users
      /\ posted' = posted /\ verification' = verification /\ device' = device
      /\ logins' = logins /\ welcomes' = welcomes
  BY DEF CreateRole, InOnboarding
<1>6. TypeOK'
  <2>1. roles' \in [Wallets -> SUBSET {"ADMIN", "CLIENT", "FREELANCER"}]
    BY <1>1, <1>2 DEF TypeOK
  <2>2. onboardings' \in [Wallets -> Nat]
    BY <1>1, <1>2 DEF TypeOK
  <2>3. form' \in [Devices -> Forms]
    BY <1>4 DEF TypeOK, Forms
  <2> QED  BY <1>3, <1>5, <2>1, <2>2, <2>3 DEF TypeOK
<1>7. ReadsAreLocked'
  <2>1. ASSUME NEW u \in Verifications, IsOpen(u)
        PROVE  /\ lock'[NonceOf(u)] = u
               /\ verification[u].at = "commit" => lock'[Wallet(u)] = u
    BY <1>3, <2>1, MessageParts, SignInConstants DEF ReadsAreLocked, IsOpen
  <2> QED  BY <1>5, <2>1 DEF ReadsAreLocked, IsOpen, NonceOf, Unused, Wallet, MessageOf
<1>8. OnboardedOncePerRole'
  <2>1. ASSUME NEW x \in Wallets
        PROVE  onboardings'[x] = Cardinality(roles'[x] \ {"ADMIN"})
    <3>1. onboardings[x] = Cardinality(roles[x] \ {"ADMIN"}) /\ onboardings[x] \in Nat
      BY DEF OnboardedOncePerRole, TypeOK
    <3>2. CASE x # w
      BY <1>1, <1>2, <3>1, <3>2 DEF TypeOK
    <3>3. CASE x = w /\ role \in roles[w]
      <4>1. roles'[x] = roles[x]
        BY <1>1, <1>2, <3>3 DEF TypeOK
      <4>2. onboardings'[x] = onboardings[x]
        BY <1>1, <1>2, <3>1, <3>3 DEF TypeOK
      <4> QED  BY <3>1, <4>1, <4>2
    <3>4. CASE x = w /\ role \notin roles[w]
      <4>1. roles'[x] \ {"ADMIN"} = (roles[x] \ {"ADMIN"}) \cup {role}
        BY <1>1, <1>2, <3>4 DEF TypeOK
      <4>2. IsFiniteSet(roles[x] \ {"ADMIN"})
        <5>1. roles[x] \ {"ADMIN"} \subseteq {"CLIENT", "FREELANCER"}
          BY DEF TypeOK
        <5>2. IsFiniteSet({"CLIENT"}) /\ {"CLIENT"} \cup {"FREELANCER"} = {"CLIENT", "FREELANCER"}
          BY FS_Singleton
        <5>3. IsFiniteSet({"CLIENT", "FREELANCER"})
          BY <5>2, FS_AddElement
        <5> QED  BY <5>1, <5>3, FS_Subset
      <4>3. Cardinality(roles'[x] \ {"ADMIN"}) = Cardinality(roles[x] \ {"ADMIN"}) + 1
        BY <3>4, <4>1, <4>2, FS_AddElement
      <4>4. onboardings'[x] = onboardings[x] + 1
        BY <1>1, <1>2, <3>4 DEF TypeOK
      <4> QED  BY <3>1, <4>3, <4>4
    <3> QED  BY <3>2, <3>3, <3>4
  <2> QED  BY <2>1 DEF OnboardedOncePerRole
<1>9. FormsHaveRoles'
  BY <1>4 DEF FormsHaveRoles, TypeOK
<1>10. /\ MessagesAreSent' /\ NoncesHaveTheirDevice' /\ LoginsSpendNonces' /\ WelcomesAreFirst'
       /\ SpentWithItsLogin' /\ SessionsAreOfUsers'
  BY <1>5
     DEF MessagesAreSent, NoncesHaveTheirDevice, LoginsSpendNonces, WelcomesAreFirst,
         SpentWithItsLogin, SessionsAreOfUsers, NonceOf, Spent, Unused, Wallet, MessageOf
<1> QED  BY <1>6, <1>7, <1>8, <1>9, <1>10

LEMMA TickKeeps ==
  ASSUME SignInInv, Tick
  PROVE  SignInInv'
<1> USE DEF SignInInv
<1>1. TypeOK'
  BY SignInConstants DEF Tick, rows, counts, TypeOK
<1>2. MessagesAreSent' /\ NoncesHaveTheirDevice' /\ ReadsAreLocked' /\
          LoginsSpendNonces' /\ WelcomesAreFirst' /\ FormsHaveRoles' /\
          SpentWithItsLogin' /\ SessionsAreOfUsers' /\ OnboardedOncePerRole'
  BY DEF Tick, rows, counts, MessagesAreSent, MessageOf,
       NoncesHaveTheirDevice, ReadsAreLocked, IsOpen, NonceOf, Unused, Wallet,
       LoginsSpendNonces, Spent, WelcomesAreFirst, FormsHaveRoles,
       SpentWithItsLogin, SessionsAreOfUsers, OnboardedOncePerRole
<1> QED  BY <1>1, <1>2

LEMMA FailKeeps ==
  ASSUME SignInInv, Fail
  PROVE  SignInInv'
<1> USE DEF SignInInv
<1>1. /\ now' = now /\ nonces' = nonces /\ issued' = issued /\ users' = users /\ roles' = roles
      /\ posted' = posted /\ device' = device
      /\ logins' = logins /\ welcomes' = welcomes /\ onboardings' = onboardings
  BY DEF Fail, rows, counts
<1>2. /\ verification' \in [Verifications -> Requests]
      /\ \A u \in Verifications :
           \/ verification'[u] = verification[u]
           \/ verification'[u].at = "idle" /\ ~verification'[u].isNewUser
  <2>1. IdleVerification \in Requests /\ IdleVerification.at = "idle" /\ ~IdleVerification.isNewUser
    BY DEF IdleVerification, Requests
  <2>2. CASE verification' = verification
    BY <2>2 DEF TypeOK
  <2>3. CASE \E v \in Verifications : verification' = [verification EXCEPT ![v] = IdleVerification]
    BY <2>1, <2>3 DEF TypeOK
  <2> QED  BY <2>2, <2>3 DEF Fail
<1>3. /\ form' \in [Devices -> Forms]
      /\ \A d \in Devices : form'[d] = form[d] \/ form'[d].at = "idle"
  BY DEF Fail, CloseForm, TypeOK, Forms
<1> DEFINE Kept ==
      /\ lock' \in [Nonces \cup Wallets -> Transactions \cup {None}]
      /\ \A u \in Verifications : verification'[u].at # "idle" =>
           \A k \in Nonces \cup Wallets : lock[k] = u => lock'[k] = u
<1>4. Kept
  <2>1. ASSUME NEW v \in Verifications, EndTransaction(v),
               verification' = [verification EXCEPT ![v] = IdleVerification]
        PROVE  Kept
    BY <2>1 DEF EndTransaction, IdleVerification, TypeOK
  <2>2. ASSUME NEW d \in Devices, EndTransaction(d)
        PROVE  Kept
    BY <2>2, SignInConstants DEF EndTransaction, TypeOK
  <2> QED  BY <2>1, <2>2 DEF Fail
<1>5. TypeOK'
  BY <1>1, <1>2, <1>3, <1>4 DEF TypeOK
<1>6. ReadsAreLocked'
  <2>1. ASSUME NEW u \in Verifications, IsOpen(u), verification'[u].at # "idle"
        PROVE  /\ lock'[NonceOf(u)] = u
               /\ verification[u].at = "commit" => lock'[Wallet(u)] = u
    BY <1>4, <2>1, MessageParts DEF ReadsAreLocked, IsOpen
  <2> QED  BY <1>1, <1>2, <2>1 DEF ReadsAreLocked, IsOpen, NonceOf, Unused, Wallet, MessageOf
<1>7. MessagesAreSent' /\ LoginsSpendNonces' /\ WelcomesAreFirst'
  BY <1>1, <1>2
     DEF MessagesAreSent, LoginsSpendNonces, WelcomesAreFirst, NonceOf, Spent, Unused,
         Wallet, MessageOf
<1>8. FormsHaveRoles'
  BY <1>3 DEF FormsHaveRoles
<1>9. NoncesHaveTheirDevice' /\ SpentWithItsLogin' /\ SessionsAreOfUsers' /\ OnboardedOncePerRole'
  BY <1>1 DEF NoncesHaveTheirDevice, SpentWithItsLogin, SessionsAreOfUsers, OnboardedOncePerRole
<1> QED  BY <1>5, <1>6, <1>7, <1>8, <1>9

-----------------------------------------------------------------------------
LEMMA SignInInitially == Init => SignInInv
<1> SUFFICES ASSUME Init PROVE SignInInv
  OBVIOUS
<1> USE DEF SignInInv
<1>1. TypeOK
  BY SignInConstants DEF Init, Requests, Panels, Forms, TypeOK, IdleVerification, Transactions, Messages
<1>2. /\ MessagesAreSent /\ NoncesHaveTheirDevice /\ ReadsAreLocked /\ LoginsSpendNonces
      /\ WelcomesAreFirst /\ FormsHaveRoles /\ SpentWithItsLogin /\ SessionsAreOfUsers
  BY DEF Init, IdleVerification, MessagesAreSent, NoncesHaveTheirDevice, ReadsAreLocked,
     LoginsSpendNonces, WelcomesAreFirst, FormsHaveRoles, SpentWithItsLogin,
     SessionsAreOfUsers, IsOpen, MessageOf, NonceOf, Spent, Unused, Wallet
<1>3. OnboardedOncePerRole
  BY FS_EmptySet DEF Init, OnboardedOncePerRole
<1> QED  BY <1>1, <1>2, <1>3

LEMMA SignInStep == SignInInv /\ [Next]_vars => SignInInv'
<1> SUFFICES ASSUME SignInInv, [Next]_vars PROVE SignInInv'
  OBVIOUS
<1>1. ASSUME NEW d \in Devices,
             \/ \E n \in Nonces : CreateSiweNonce(d, n)
             \/ PostMessage(d) \/ GiveUp(d) \/ Logout(d)
             \/ \E role \in OnboardingRoles : OpenForm(d, role)
             \/ OnboardingStep(d)
      PROVE  SignInInv'
  BY <1>1, CreateSiweNonceKeeps, PostMessageKeeps, GiveUpKeeps, LogoutKeeps,
     OpenFormKeeps, CheckOnboardingKeeps, UpdateProfileKeeps, CreateRoleKeeps
     DEF OnboardingStep
<1>2. ASSUME NEW v \in Verifications,
             \/ \E message \in posted : VerifySiweMessageAndBinding(v, message)
             \/ VerificationStep(v)
      PROVE  SignInInv'
  BY <1>2, VerifySiweMessageAndBindingKeeps, ConsumeNonceKeeps, FindUserKeeps,
     UpdateUserKeeps, CreateUserKeeps, CommitLoginKeeps, AnswerSessionKeeps,
     AnswerRefusalKeeps DEF VerificationStep
<1>3. CASE UNCHANGED vars
  BY <1>3 DEF vars, rows, counts, SignInInv, TypeOK, MessagesAreSent, NoncesHaveTheirDevice,
     ReadsAreLocked, LoginsSpendNonces, WelcomesAreFirst, FormsHaveRoles,
     SpentWithItsLogin, SessionsAreOfUsers, OnboardedOncePerRole, IsOpen, MessageOf,
     NonceOf, Spent, Unused, Wallet
<1> QED  BY <1>1, <1>2, <1>3, TickKeeps, FailKeeps DEF Next

(* The inductive invariant of sign-in: what a transaction has read of its   *)
(* nonce and of its wallet's user stays true under its locks.              *)
THEOREM SignInInvariant == Spec => []SignInInv
  BY SignInInitially, SignInStep, PTL DEF Spec

(* A nonce is good for one session however often its message is delivered, *)
(* a wallet is welcomed once although its first logins race, a nonce is     *)
(* spent only with its login, a session belongs to a user there is, and     *)
(* each onboarding gave a role that was not there.                          *)
THEOREM LoginsStaySound == Spec => []LoginsAreSound
<1>1. SignInInv => LoginsAreSound
  BY DEF SignInInv, TypeOK, LoginsSpendNonces, WelcomesAreFirst, LoginsAreSound,
         OneLoginPerNonce, WelcomedOnce
<1> QED  BY <1>1, SignInInvariant, PTL
=============================================================================
