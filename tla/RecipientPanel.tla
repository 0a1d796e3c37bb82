---------------------------- MODULE RecipientPanel ----------------------------
(***************************************************************************)
(* The freelancer's recipient panel of a disputed milestone: it shows the  *)
(* row event sync keeps of the leg, and sends three transactions: execute  *)
(* the arbitrators' pending recipient, choose one directly, relay a signed *)
(* choice.  The call that executes does not name the recipient: the        *)
(* contract takes the one pending when the transaction is mined, so the    *)
(* panel asks for what it shows only as long as what it shows is recent.   *)
(*                                                                         *)
(* The browser's clock is the block's.  The wallet's transactions may be   *)
(* mined in any order, which allows more than its nonces do.               *)
(***************************************************************************)
EXTENDS PayoutRecipients, Sequences

CONSTANTS
  Party, Stranger,   \* who may have the page open
  Candidates,        \* recipients anyone would name
  Lag,               \* how long a row, a page or a transaction may be behind
  MaxTime,           \* bound: the clock
  MaxEvents,         \* bound: events of the leg
  MaxClicks          \* bound: handlers started

RecipientPanelAssumption ==
  /\ Party \in Accounts /\ Stranger \in Accounts /\ Candidates \subseteq Accounts
  /\ 1 \in Projects /\ Lag \in Nat /\ MaxTime \in Nat /\ MaxEvents \in Nat /\ MaxClicks \in Nat

VARIABLES
  dispute,    \* "open"; "settled"; "closed": settled, and the project with it
  paused,
  events,     \* of the leg: the block's time, and the row they leave
  synced,     \* how many of them the stored row has
  loaded,     \* how many of them the page's row has
  wallet,     \* the account connected
  busy,       \* isBusy
  handlers    \* those that clicks have started

chainVars == <<now, recipientVars, dispute, paused, events>>
vars == <<chainVars, synced, loaded, wallet, busy, handlers>>

P == 1
I == 0
Leg == "freelancer"

NoRow == [pending |-> NoAddress, after |-> 0, active |-> NoAddress, party |-> NoAddress]
RowAfter(n) == IF n = 0 THEN NoRow ELSE events[n].row
Shown == RowAfter(loaded)

Init ==
  /\ now = 0 /\ RecipientsInit
  /\ dispute = "open" /\ paused = FALSE /\ events = <<>> /\ synced = 0 /\ loaded = 0
  /\ wallet \in {Party, Stranger} /\ busy = FALSE /\ handlers = <<>>

-----------------------------------------------------------------------------
(* The contract, and its events.                                            *)

Emit(row) == events' = Append(events, [at |-> now, row |-> row])

(* AlternativeRecipientSet as syncAlternativeRecipientState stores it.      *)
SetRow(recipient, after) ==
  CASE recipient = NoAddress -> NoRow
    [] recipient # NoAddress /\ after = 0 -> [NoRow EXCEPT !.party = recipient]
    [] OTHER -> [NoRow EXCEPT !.pending = recipient, !.after = after]

Propose(new) ==
  /\ dispute = "open" /\ ~paused /\ Len(events) < MaxEvents
  /\ ProposeAlternative(P, I, Leg, new)
  /\ Emit(SetRow(new, pendingAlternative'[P][I][Leg].executableAfter))
  /\ UNCHANGED <<now, consentVars, dispute, paused, synced, loaded, wallet, busy, handlers>>

Settle ==
  /\ dispute = "open" /\ dispute' \in {"settled", "closed"} /\ Len(events) < MaxEvents
  /\ ClearAlternatives(P, I) /\ Emit(NoRow)
  /\ UNCHANGED <<now, consentVars, paused, synced, loaded, wallet, busy, handlers>>

TogglePause ==
  /\ paused' = ~paused
  /\ UNCHANGED <<now, recipientVars, dispute, events, synced, loaded, wallet, busy, handlers>>

Sign(new) ==
  /\ Cardinality(signedConsents) < MaxSignedConsents
  /\ \E deadline \in {now, MaxTime} :
       SignConsent(Party, P, I, Leg, new, authorizationNonce[P][I][Leg], deadline)
  /\ UNCHANGED <<now, partyAuthorized, authorizationNonce, alternativeVars, dispute, paused,
                 events, synced, loaded, wallet, busy, handlers>>

(* What a transaction of the panel does, if the contract accepts it.        *)
Execute(h) ==
  /\ handlers[h].op = "execute" /\ dispute = "open" /\ wallet = Party
  /\ ExecuteAlternative(P, I, Leg)
  /\ Emit([RowAfter(Len(events)) EXCEPT !.pending = NoAddress, !.after = 0,
             !.active = pendingAlternative[P][I][Leg].recipient])
  /\ UNCHANGED consentVars

Choose(h) ==
  /\ handlers[h].op = "direct" /\ wallet = Party
  /\ AuthorizeRecipient(P, I, Leg, handlers[h].new)
  /\ Emit(SetRow(handlers[h].new, 0))
  /\ UNCHANGED <<authorizationNonce, signedConsents, alternativeVars>>

Relay(h) ==
  /\ handlers[h].op = "signed"
  /\ \E c \in signedConsents : c = handlers[h].consent /\ UseConsent(c)
  /\ Emit(SetRow(handlers[h].new, 0))
  /\ UNCHANGED <<signedConsents, alternativeVars>>

Accepted(h) == Execute(h) \/ Choose(h) \/ Relay(h)

Mine(h) ==
  /\ h \in DOMAIN handlers /\ handlers[h].tx = "sent" /\ Len(events) < MaxEvents
  /\ \/ Accepted(h) /\ handlers' = [handlers EXCEPT ![h].tx = "done"]
     \/ /\ ~ENABLED Accepted(h) /\ handlers' = [handlers EXCEPT ![h].tx = "reverted"]
        /\ UNCHANGED <<recipientVars, events>>
  /\ UNCHANGED <<now, dispute, paused, synced, loaded, wallet, busy>>

-----------------------------------------------------------------------------
(* The stored row and the page's copy of it.                                *)

Sync ==
  /\ synced < Len(events) /\ synced' = synced + 1
  /\ UNCHANGED <<chainVars, loaded, wallet, busy, handlers>>

Load ==
  /\ loaded # synced /\ loaded' = synced
  /\ UNCHANGED <<chainVars, synced, wallet, busy, handlers>>

InFlight == {h \in DOMAIN handlers : handlers[h].at # "over" \/ handlers[h].tx = "sent"}

(* Whatever still counts with n events has missed none for Lag.             *)
Recent(n) == n < Len(events) => now < events[n + 1].at + Lag

Tick ==
  /\ now < MaxTime
  /\ Recent(synced) /\ Recent(loaded) /\ \A h \in InFlight : Recent(handlers[h].saw)
  /\ now' = now + 1
  /\ UNCHANGED <<recipientVars, dispute, paused, events, synced, loaded, wallet, busy, handlers>>

-----------------------------------------------------------------------------
(* The buttons.                                                             *)

NoConsent == [nonce |-> 0]
Start(op, new, consent) ==
  /\ ~busy /\ Len(handlers) < MaxClicks
  /\ handlers' = Append(handlers,
       [op |-> op, at |-> "look", new |-> new, consent |-> consent, tx |-> "none",
        saw |-> loaded, shown |-> Shown.pending])
  /\ UNCHANGED <<chainVars, synced, loaded, wallet, busy>>

CanExecute == Shown.pending # NoAddress /\ now >= Shown.after

ClickExecute == wallet = Party /\ CanExecute /\ Start("execute", NoAddress, NoConsent)
ClickChoose(new) == wallet = Party /\ Start("direct", new, NoConsent)
ClickRelay(c) == c \in signedConsents /\ Start("signed", c.recipient, c)

-----------------------------------------------------------------------------
(* A handler.                                                               *)

At(h, place) == h \in DOMAIN handlers /\ handlers[h].at = place
Go(h, place) ==
  /\ handlers' = [handlers EXCEPT ![h].at = place]
  /\ busy' = (place = "sign" \/ (place # "over" /\ busy))

(* The early return passes through finally: the buttons come back even when *)
(* another handler is busy.                                                 *)
Look(h) ==
  /\ At(h, "look")
  /\ IF paused \/ (handlers[h].op = "execute" /\ dispute = "closed")
     THEN Go(h, "over") ELSE Go(h, "sign")
  /\ UNCHANGED <<chainVars, synced, loaded, wallet>>

Send(h) ==
  /\ At(h, "sign")
  /\ handlers' = [handlers EXCEPT ![h].at = "mining", ![h].tx = "sent"]
  /\ UNCHANGED <<chainVars, synced, loaded, wallet, busy>>

(* A read fails, the wallet refuses, no receipt comes in time.              *)
GiveUp_Unanswered(h) ==
  /\ At(h, "look") \/ At(h, "sign")
  /\ Go(h, "over") /\ UNCHANGED <<chainVars, synced, loaded, wallet>>
GiveUp(h) ==
  /\ At(h, "look") \/ At(h, "sign") \/ (At(h, "mining") /\ handlers[h].tx = "sent")
  /\ Go(h, "over") /\ UNCHANGED <<chainVars, synced, loaded, wallet>>

Receive(h) ==
  /\ At(h, "mining") /\ handlers[h].tx # "sent"
  /\ Go(h, "refetch") /\ UNCHANGED <<chainVars, synced, loaded, wallet>>

(* A refetch that fails is no error; success is reported all the same.      *)
Finish(h) ==
  /\ At(h, "refetch") /\ loaded' \in {loaded, synced}
  /\ Go(h, "over") /\ UNCHANGED <<chainVars, synced, wallet>>

Handle(h) == Look(h) \/ Send(h) \/ GiveUp(h) \/ Receive(h) \/ Finish(h)

Next ==
  \/ \E new \in Candidates \cup {NoAddress} : Propose(new)
  \/ \E new \in Candidates : Sign(new) \/ ClickChoose(new)
  \/ Settle \/ TogglePause \/ Sync \/ Load \/ Tick
  \/ ClickExecute \/ \E c \in signedConsents : ClickRelay(c)
  \/ \E h \in 1..MaxClicks : Mine(h) \/ Handle(h)

Spec == Init /\ [][Next]_vars

(* Reads end, the wallet's user answers, and a receipt is not waited for    *)
(* for ever; the chain may never take a transaction.                        *)
Fairness == \A h \in 1..MaxClicks : WF_vars(Handle(h))

FairSpec == Spec /\ Fairness

-----------------------------------------------------------------------------
(* "Execute pending recipient": the recipient the party's click makes       *)
(* active is the one the panel showed it, whatever the arbitrators proposed *)
(* since: a new proposal waits longer than anything may be behind.          *)
ExecutesWhatItShowed ==
  \A h \in DOMAIN handlers :
     handlers[h].op = "execute" /\ handlers[h].tx = "sent" /\ handlers'[h].tx = "done"
       => alternative'[P][I][Leg] = handlers[h].shown

(* The recipients are paid that were named by the party's own click or      *)
(* signature: what a stranger relays is at most what the party has signed,  *)
(* and at most once.                                                        *)
ChosenByParty ==
  /\ partyAuthorized[P][I][Leg] # NoAddress =>
       \E h \in DOMAIN handlers :
         /\ handlers[h].tx = "done" /\ handlers[h].new = partyAuthorized[P][I][Leg]
         /\ handlers[h].op = "signed" => handlers[h].consent \in signedConsents
  /\ \A h, k \in DOMAIN handlers :
       h # k /\ handlers[h].op = "signed" /\ handlers[h].tx = "done" /\ handlers[k].tx = "done"
         => handlers[h].consent # handlers[k].consent

(* The buttons come back, whatever the wallet and the chain do.             *)
ButtonsComeBack == busy ~> ~busy

(* "Alternative recipient executed successfully."                           *)
SuccessMeansExecuted ==
  \A h \in DOMAIN handlers :
    handlers[h].op = "execute" /\ At(h, "refetch") => handlers[h].tx = "done"

TypeOK ==
  /\ RecipientsTypeOK /\ dispute \in {"open", "settled", "closed"}
  /\ loaded \in 0..synced /\ synced \in 0..Len(events)
  /\ \A h \in DOMAIN handlers :
       /\ handlers[h].tx \in {"none", "sent", "done", "reverted"}
       /\ handlers[h].at \in {"mining", "refetch"} => handlers[h].tx # "none"
       /\ handlers[h].op # "signed" => wallet = Party
=============================================================================
