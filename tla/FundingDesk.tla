----------------------------- MODULE FundingDesk -----------------------------
(***************************************************************************)
(* The funding panel, open in a client's tabs: it reads the escrow and the *)
(* wallet, and a click looks at the escrow again, has the token approved   *)
(* if the allowance it knows is too small, deposits, reads the total and   *)
(* reports it.  The look comes before the panel is busy, so a second click *)
(* may start a second handler; all of them share the wallet, its allowance *)
(* to the registry and, in one tab, the panel's phase.                     *)
(*                                                                         *)
(* Amounts are in the token's smallest unit.  The reads of one snapshot    *)
(* are answered of one block; "operable" stands for a project that is      *)
(* Active while the registry is not paused.                                *)
(***************************************************************************)
EXTENDS Naturals, Sequences, FiniteSetsExt

CONSTANTS
  Projects,    \* escrows of this client in one token
  Tabs,
  ProjectOf,   \* [Tabs -> Projects]: the project a tab funds
  Amounts,     \* what may be typed
  Total,       \* of each escrow
  Balances,    \* what the wallet may hold at first
  Leftovers,   \* what earlier approvals may have left
  MaxClicks,   \* bound: handlers started
  MaxOthers    \* bound: changes made elsewhere

FundingAssumption ==
  /\ ProjectOf \in [Tabs -> Projects] /\ Amounts \subseteq Nat \ {0}
  /\ Total \in Nat \ {0} /\ Balances \subseteq Nat /\ Leftovers \subseteq Nat
  /\ MaxClicks \in Nat /\ MaxOthers \in Nat

VARIABLES
  chain,      \* funded and operable of each escrow; balance, allowance, listed
  others,     \* changes made elsewhere
  rows,       \* [project]: what the milestones are promoted to, the status
  view,       \* [tab]: onChain, what the panel has read
  field,      \* [tab]: the amount typed, 0 when there is none
  phase,      \* [tab]
  handlers,   \* those that clicks have started
  txs,        \* what the wallet has signed, in the order of its nonces
  mined       \* how many of them the chain has taken

panelVars == <<rows, view, field, phase, handlers>>
vars == <<chain, others, panelVars, txs, mined>>

NoView == [known |-> FALSE]
Snapshot(t) ==
  LET p == ProjectOf[t] IN
  [known |-> TRUE, funded |-> chain.funded[p], operable |-> chain.operable[p],
   balance |-> chain.balance, allowance |-> chain.allowance, listed |-> chain.listed]

Init ==
  /\ chain \in [funded : {[p \in Projects |-> 0]}, operable : {[p \in Projects |-> TRUE]},
                balance : Balances, allowance : Leftovers, listed : {TRUE}]
  /\ others = 0
  /\ rows = [p \in Projects |-> [promoted |-> 0, status |-> "AWAITING_ESCROW"]]
  /\ view = [t \in Tabs |-> NoView] /\ field = [t \in Tabs |-> 0]
  /\ phase = [t \in Tabs |-> "idle"] /\ handlers = <<>> /\ txs = <<>> /\ mined = 0

-----------------------------------------------------------------------------
(* The registry and the token.                                              *)

CanFund_Beyond(p, amount) ==
  chain.operable[p] /\ amount <= chain.allowance /\ amount <= chain.balance
CanFund(p, amount) ==
  /\ chain.operable[p] /\ chain.funded[p] + amount <= Total
  /\ amount <= chain.allowance /\ amount <= chain.balance

AfterFund(p, amount) ==
  [chain EXCEPT !.funded[p] = @ + amount, !.balance = @ - amount, !.allowance = @ - amount]

(* A wallet's transactions are mined in the order of their nonces.          *)
Mine ==
  LET tx == txs[mined + 1] IN
  /\ mined < Len(txs) /\ mined' = mined + 1
  /\ CASE tx.is = "approve" ->
            /\ chain' = [chain EXCEPT !.allowance = tx.amount]
            /\ txs' = [txs EXCEPT ![mined + 1].done = TRUE]
       [] tx.is = "fund" /\ CanFund(tx.project, tx.amount) ->
            /\ chain' = AfterFund(tx.project, tx.amount)
            /\ txs' = [txs EXCEPT ![mined + 1].done = TRUE]
       [] OTHER -> UNCHANGED <<chain, txs>>
  /\ UNCHANGED <<others, panelVars>>

OthersAct ==
  /\ others < MaxOthers /\ others' = others + 1
  /\ \/ \E p \in Projects : chain' = [chain EXCEPT !.operable[p] = ~@]
     \/ chain' = [chain EXCEPT !.listed = ~@]
     \/ chain.balance > 0 /\ chain' = [chain EXCEPT !.balance = @ - 1]
  /\ UNCHANGED <<panelVars, txs, mined>>

-----------------------------------------------------------------------------
(* The panel.                                                               *)

(* refreshOnChainState: what cannot be read is unknown.                     *)
Read(t) == \E seen \in {Snapshot(t), NoView} : view' = [view EXCEPT ![t] = seen]

Refresh(t) ==
  /\ Read(t) /\ view' # view
  /\ UNCHANGED <<chain, others, rows, field, phase, handlers, txs, mined>>

Type(t) ==
  /\ phase[t] # "busy"
  /\ \E a \in Amounts \ {field[t]} : field' = [field EXCEPT ![t] = a]
  /\ UNCHANGED <<chain, others, rows, view, phase, handlers, txs, mined>>

MayFund(t) ==
  LET seen == view[t] IN
  /\ seen.known /\ phase[t] # "busy" /\ field[t] > 0
  /\ seen.funded + field[t] <= Total /\ field[t] <= seen.balance
  /\ seen.listed /\ seen.operable

(* The amount and the allowance are those of the click.                     *)
Click(t) ==
  /\ Len(handlers) < MaxClicks /\ MayFund(t)
  /\ handlers' = Append(handlers,
       [at |-> "preflight", tab |-> t, amount |-> field[t], tx |-> 0, total |-> 0,
        enough |-> view[t].allowance >= field[t]])
  /\ UNCHANGED <<chain, others, rows, view, field, phase, txs, mined>>

-----------------------------------------------------------------------------
(* A handler, ensureAllowanceAndFund.                                       *)

At(h, place) == h \in DOMAIN handlers /\ handlers[h].at = place
Go(h, place, now) ==
  /\ handlers' = [handlers EXCEPT ![h].at = place]
  /\ phase' = [phase EXCEPT ![handlers[h].tab] = now]

Fail(h) == Go(h, "over", "failure") /\ UNCHANGED <<chain, others, rows, view, field, txs, mined>>

Preflight(h) ==
  LET t == handlers[h].tab IN
  /\ At(h, "preflight")
  /\ IF chain.operable[ProjectOf[t]] /\ chain.listed
     THEN Go(h, IF handlers[h].enough THEN "fund" ELSE "approve", "busy") /\ UNCHANGED view
     ELSE Go(h, "over", phase[t]) /\ Read(t)
  /\ UNCHANGED <<chain, others, rows, field, txs, mined>>

ApprovedAmount_All(h) == Total + 1
ApprovedAmount(h) == handlers[h].amount

Sign(h, what, amount) ==
  /\ At(h, what)
  /\ txs' = Append(txs, [is |-> what, project |-> ProjectOf[handlers[h].tab],
                         amount |-> amount, done |-> FALSE])
  /\ handlers' = [handlers EXCEPT ![h].at = IF what = "approve" THEN "approving" ELSE "funding",
                                  ![h].tx = Len(txs) + 1]
  /\ UNCHANGED <<chain, others, rows, view, field, phase, mined>>
SignApproval(h) == Sign(h, "approve", ApprovedAmount(h))
SignFunding(h) == Sign(h, "fund", handlers[h].amount)

RefuseToSign(h) == (At(h, "approve") \/ At(h, "fund")) /\ Fail(h)

(* A receipt is a receipt, whatever its status.                             *)
Receive(h) ==
  /\ At(h, "approving") \/ At(h, "funding")
  /\ handlers[h].tx <= mined
  /\ Go(h, IF At(h, "approving") THEN "fund" ELSE "total", "busy")
  /\ UNCHANGED <<chain, others, rows, view, field, txs, mined>>

GiveUp_Never(h) == FALSE /\ UNCHANGED vars
GiveUp(h) == (At(h, "approving") \/ At(h, "funding")) /\ handlers[h].tx > mined /\ Fail(h)

TotalRead_Reckoned(h) ==
  LET t == handlers[h].tab IN
  IF view[t].known THEN view[t].funded + handlers[h].amount ELSE chain.funded[ProjectOf[t]]
TotalRead(h) == chain.funded[ProjectOf[handlers[h].tab]]

ReadTotal(h) ==
  /\ At(h, "total")
  /\ handlers' = [handlers EXCEPT ![h].at = "report", ![h].total = TotalRead(h)]
  /\ UNCHANGED <<chain, others, rows, view, field, phase, txs, mined>>

(* reconcileProjectFunding: milestones are only promoted, the status is     *)
(* what this report says.                                                   *)
Reported_Replaces(row, total) ==
  [promoted |-> total, status |-> IF total >= Total THEN "ACTIVE" ELSE "AWAITING_ESCROW"]
Reported(row, total) ==
  [promoted |-> Max({row.promoted, total}),
   status |-> IF total >= Total THEN "ACTIVE" ELSE "AWAITING_ESCROW"]

Report(h) ==
  LET t == handlers[h].tab IN
  /\ At(h, "report")
  /\ rows' = [rows EXCEPT ![ProjectOf[t]] = Reported(@, handlers[h].total)]
  /\ \/ Go(h, "refresh", "success") /\ field' = [field EXCEPT ![t] = 0]
     \/ Go(h, "over", "failure") /\ UNCHANGED field   \* the answer is lost
  /\ UNCHANGED <<chain, others, view, txs, mined>>

(* A read, the report or its session fails.                                 *)
LoseStep(h) == (At(h, "preflight") \/ At(h, "total") \/ At(h, "report")) /\ Fail(h)

Finish(h) ==
  /\ At(h, "refresh") /\ Read(handlers[h].tab)
  /\ handlers' = [handlers EXCEPT ![h].at = "over"]
  /\ UNCHANGED <<chain, others, rows, field, phase, txs, mined>>

Handle(h) ==
  \/ Preflight(h) \/ SignApproval(h) \/ SignFunding(h) \/ RefuseToSign(h) \/ Receive(h)
  \/ GiveUp(h) \/ ReadTotal(h) \/ Report(h) \/ LoseStep(h) \/ Finish(h)

Next ==
  \/ Mine \/ OthersAct
  \/ \E t \in Tabs : Refresh(t) \/ Type(t) \/ Click(t)
  \/ \E h \in 1..MaxClicks : Handle(h)

Spec == Init /\ [][Next]_vars

(* A handler goes on: its user answers the wallet, its reads end, and it    *)
(* gives up waiting for a receipt; the chain may never take a transaction.  *)
Fairness == \A h \in 1..MaxClicks : WF_vars(Handle(h))

FairSpec == Spec /\ Fairness

-----------------------------------------------------------------------------
Deposits(p) == {k \in 1..mined : txs[k].is = "fund" /\ txs[k].project = p /\ txs[k].done}

(* "Amount exceeds remaining project funding.": two tabs and two handlers,  *)
(* each of which has checked what remained, do not fill an escrow beyond    *)
(* its total, and what it holds are the deposits.                           *)
NeverOverfunded ==
  \A p \in Projects :
    /\ chain.funded[p] <= Total
    /\ chain.funded[p] = MapThenSumSet(LAMBDA k : txs[k].amount, Deposits(p))

(* "Approve token spending": what the registry may still take is never more *)
(* than somebody asked to deposit, here or before.                          *)
AllowanceIsAsked ==
  \/ chain.allowance \in 0..Max(Leftovers \cup {0})
  \/ \E h \in DOMAIN handlers : chain.allowance <= handlers[h].amount

(* No milestone is promoted to FUNDED, and no project to ACTIVE, by what    *)
(* the escrow does not hold, be its deposit reverted or its report late.    *)
ReportedIsDeposited ==
  \A p \in Projects :
    /\ rows[p].promoted <= chain.funded[p]
    /\ rows[p].status = "ACTIVE" => chain.funded[p] = Total

(* A late report of a smaller total takes no milestone back.                *)
PromotedStays ==
  \A p \in Projects : rows'[p].promoted >= rows[p].promoted

(* "Processing...": the button comes back.                                  *)
ButtonComesBack == \A t \in Tabs : (phase[t] = "busy") ~> (phase[t] # "busy")

(* "Funding confirmed on-chain and synced in app state."                    *)
SuccessMeansDeposited ==
  \A h \in DOMAIN handlers : handlers[h].at = "refresh" => txs[handlers[h].tx].done

(* "-> ACTIVE (escrow funded per policy)": a project that is full and       *)
(* active does not go back to awaiting its escrow.                          *)
FullStaysActive ==
  \A p \in Projects : rows[p].status = "ACTIVE" => rows'[p].status = "ACTIVE"

(* "Approve token spending once": no approval is asked for that the         *)
(* allowance covers already.                                                *)
ApprovedOnce ==
  \A h \in DOMAIN handlers : At(h, "approve") => chain.allowance < handlers[h].amount

TypeOK ==
  /\ chain.allowance \in Nat /\ chain.balance \in Nat
  /\ \A t \in Tabs : /\ field[t] \in Amounts \cup {0}
                     /\ phase[t] \in {"idle", "busy", "success", "failure"}
  /\ \A h \in DOMAIN handlers : handlers[h].amount \in Amounts /\ handlers[h].tx \in 0..Len(txs)
  /\ mined \in 0..Len(txs)
  /\ \A k \in DOMAIN txs : txs[k].done => k <= mined
=============================================================================
