--------------------------- MODULE GovernanceDesk ---------------------------
(***************************************************************************)
(* One administrator's browser with the panels that govern the registry:   *)
(* roles and threshold, the token allowlist, the pause.  Each panel sends  *)
(* one transaction at a time, waits for its receipt, reads the state anew  *)
(* and says what it has done; its fields stay editable meanwhile.  Other   *)
(* administrators act on the same contract.                                *)
(*                                                                         *)
(* The contract's roles are those of ArbitratorMultisig.  The row of the   *)
(* governed token and the sync notice are in TokenGovernance, the answers  *)
(* to hasRole that arrive late in ContractWatch.                           *)
(***************************************************************************)
EXTENDS ArbitratorMultisig, Sequences

CONSTANTS
  Me,          \* the browser's wallet
  Tokens,
  Thresholds,  \* what may be typed
  Panels,      \* those the browser has open: roles, token, pause
  Checked,     \* accounts whose roles are checked
  Elsewhere,   \* kinds of calls other administrators make
  MaxTxs,      \* bound: transactions sent
  MaxEdits     \* bound: fields changed

DeskAssumption == 
  Me \in Accounts /\ Thresholds \subseteq Nat /\ Panels \subseteq {"roles", "token", "pause"}

VARIABLES
  paused, reviewed, allowed,   \* the rest of the contract
  form,     \* role, account, token, threshold and confirmation in the fields
  desk,     \* [panel]: where its handler is, the call, what it says
  txs,      \* transactions sent
  seen,     \* the wallet's roles and the pause, as the browser read them last
  check,    \* the hasRole check: what is read so far, what is shown
  counts    \* fields changed; confirmations typed, renouncements reported

contractVars == <<multisigVars, paused, reviewed, allowed>>
pageVars == <<form, desk, txs, seen, check, counts>>
vars == <<contractVars, pageVars>>

Nothing == [is |-> "nothing"]
Idle == [at |-> "idle", call |-> Nothing, tx |-> 0, says |-> "nothing", of |-> Nothing]
Unchecked == [at |-> "idle", of |-> {}, got |-> [r \in {} |-> FALSE]]

Init ==
  /\ MultisigInit
  /\ paused = FALSE /\ reviewed = {} /\ allowed = {}
  /\ form \in [role : {ARBITRATOR_ROLE}, account : Accounts, token : Tokens,
               threshold : Thresholds, typed : {"nothing"}]
  /\ desk = [p \in Panels |-> Idle] /\ txs = <<>>
  /\ seen = [admin |-> FALSE, pauser |-> FALSE, paused |-> FALSE]
  /\ check = [reading |-> Unchecked, shown |-> Unchecked]
  /\ counts = [edits |-> 0, typed |-> 0, renounced |-> 0]

-----------------------------------------------------------------------------
(* The contract.                                                            *)

Permitted(caller, call) ==
  CASE call.is = "grant"     -> /\ HasRole(DEFAULT_ADMIN_ROLE, caller)
                                /\ SeparatedIn([members EXCEPT ![call.role] = @ \cup {call.account}],
                                               call.account)
    [] call.is = "renounce"  -> TRUE
    [] call.is = "threshold" -> /\ HasRole(DEFAULT_ADMIN_ROLE, caller)
                                /\ call.threshold \in 1..arbitratorCount
    [] call.is = "allow"     -> HasRole(DEFAULT_ADMIN_ROLE, caller) /\ call.token \in reviewed
    [] call.is = "pause"     -> HasRole(PAUSER_ROLE, caller) /\ ~paused
    [] call.is = "unpause"   -> HasRole(PAUSER_ROLE, caller) /\ paused
    [] OTHER                 -> HasRole(DEFAULT_ADMIN_ROLE, caller)

Execute(caller, call) ==
  \/ /\ \/ call.is = "grant" /\ GrantRole(caller, call.role, call.account)
        \/ call.is = "revoke" /\ RevokeRole(caller, call.role, call.account)
        \/ call.is = "renounce" /\ RenounceRole(caller, call.role)
        \/ call.is = "threshold" /\ SetArbitratorThreshold(caller, call.threshold)
     /\ UNCHANGED <<paused, reviewed, allowed>>
  \/ /\ call.is \in {"pause", "unpause"} /\ paused' = (call.is = "pause")
     /\ UNCHANGED <<multisigVars, reviewed, allowed>>
  \/ /\ call.is = "attest" /\ reviewed' = reviewed \cup {call.token}
     /\ UNCHANGED <<multisigVars, paused, allowed>>
  \/ /\ call.is = "allow" /\ allowed' = allowed \cup {call.token}
     /\ UNCHANGED <<multisigVars, paused, reviewed>>
  \/ /\ call.is = "disallow" /\ allowed' = allowed \ {call.token}
     /\ UNCHANGED <<multisigVars, paused, reviewed>>

RoleCalls ==
  {[is |-> what, role |-> ra[1], account |-> ra[2]] : what \in {"grant", "revoke"}, ra \in RoleChanges}
Calls(account) ==
  RoleCalls
  \cup {[is |-> "renounce", role |-> ra[1], account |-> ra[2]] :
          ra \in {x \in RoleChanges : x[2] = account}}
  \cup {[is |-> "threshold", threshold |-> n] : n \in Thresholds}
  \cup {[is |-> what, token |-> t] : what \in {"attest", "allow", "disallow"}, t \in Tokens}
  \cup {[is |-> what] : what \in {"pause", "unpause"}}

OthersAct ==
  /\ \E a \in Accounts \ {Me} : \E call \in Calls(a) :
       call.is \in Elsewhere /\ Permitted(a, call) /\ Execute(a, call)
  /\ UNCHANGED pageVars

-----------------------------------------------------------------------------
(* The fields.                                                              *)

Change(new) ==
  /\ counts.edits < MaxEdits /\ form' = new
  /\ UNCHANGED <<contractVars, desk, txs, seen, check>>

SelectRole ==
  /\ \E r \in Roles \ {form.role} : Change([form EXCEPT !.role = r])
  /\ counts' = [counts EXCEPT !.edits = @ + 1]
TypeAccount ==
  /\ \E a \in Accounts \ {form.account} : Change([form EXCEPT !.account = a])
  /\ counts' = [counts EXCEPT !.edits = @ + 1]
TypeToken ==
  /\ \E t \in Tokens \ {form.token} : Change([form EXCEPT !.token = t])
  /\ counts' = [counts EXCEPT !.edits = @ + 1]

(* What is typed is typed over the selected role.                           *)
TypeConfirmation ==
  /\ form.typed # form.role
  /\ Change([form EXCEPT !.typed = form.role])
  /\ counts' = [counts EXCEPT !.edits = @ + 1, !.typed = @ + 1]

(* useContractRoles and useContractPaused.                                  *)
ReadRoles ==
  /\ seen' = [admin |-> HasRole(DEFAULT_ADMIN_ROLE, Me), pauser |-> HasRole(PAUSER_ROLE, Me),
              paused |-> paused]
  /\ seen' # seen
  /\ UNCHANGED <<contractVars, form, desk, txs, check, counts>>

-----------------------------------------------------------------------------
(* The handlers.                                                            *)

CallOf(p) ==
  CASE p = "roles" ->
         {[is |-> what, role |-> form.role, account |-> form.account] :
            what \in IF seen.admin THEN {"grant", "revoke"} ELSE {}}
         \cup (IF seen.admin THEN {[is |-> "threshold", threshold |-> form.threshold]} ELSE {})
         \cup (IF form.typed # "nothing"
               THEN {[is |-> "renounce", role |-> form.role, account |-> Me]} ELSE {})
    [] p = "token" ->
         {[is |-> what, token |-> form.token] :
            what \in IF seen.admin THEN {"attest", "allow", "disallow"} ELSE {}}
    [] p = "pause" ->
         IF ~seen.pauser THEN {} ELSE {[is |-> IF seen.paused THEN "unpause" ELSE "pause"]}

(* A wallet on another chain is asked to switch; if it will not, the click  *)
(* ends there and nothing is said.                                          *)
Click(p) ==
  /\ desk[p].at = "idle" /\ Len(txs) < MaxTxs
  /\ \E call \in CallOf(p) :
       desk' = [desk EXCEPT ![p] = [Idle EXCEPT !.at = "sign", !.call = call]]
  /\ UNCHANGED <<contractVars, form, txs, seen, check, counts>>
RefuseSwitch(p) ==
  /\ desk[p].at = "idle" /\ CallOf(p) # {} /\ desk[p] # Idle
  /\ desk' = [desk EXCEPT ![p] = Idle]
  /\ UNCHANGED <<contractVars, form, txs, seen, check, counts>>

Say_FieldsNow(p, message) ==
  desk' = [desk EXCEPT ![p] =
    [Idle EXCEPT !.says = message, !.tx = desk[p].tx,
       !.of = CASE desk[p].call.is = "grant" -> [desk[p].call EXCEPT !.role = form.role]
                [] desk[p].call.is = "allow" -> [desk[p].call EXCEPT !.token = form.token]
                [] OTHER                     -> desk[p].call]]
Say(p, message) ==
  desk' = [desk EXCEPT ![p] = [Idle EXCEPT !.says = message, !.of = desk[p].call, !.tx = desk[p].tx]]

Sign(p) ==
  /\ desk[p].at = "sign"
  /\ txs' = Append(txs, [call |-> desk[p].call, is |-> "sent"])
  /\ desk' = [desk EXCEPT ![p].at = "wait", ![p].tx = Len(txs) + 1]
  /\ UNCHANGED <<contractVars, form, seen, check, counts>>
RefuseToSign(p) ==
  /\ desk[p].at = "sign" /\ Say(p, "failed")
  /\ UNCHANGED <<contractVars, form, txs, seen, check, counts>>

Mine(k) ==
  /\ txs[k].is = "sent"
  /\ IF Permitted(Me, txs[k].call)
     THEN Execute(Me, txs[k].call) /\ txs' = [txs EXCEPT ![k].is = "done"]
     ELSE UNCHANGED contractVars /\ txs' = [txs EXCEPT ![k].is = "reverted"]
  /\ UNCHANGED <<form, desk, seen, check, counts>>

AfterReceipt_KeepsConfirmation(p) ==
  /\ UNCHANGED form
  /\ counts' = IF desk[p].call.is = "renounce" THEN [counts EXCEPT !.renounced = @ + 1] ELSE counts
(* The confirmation is cleared before the state is read again.              *)
AfterReceipt(p) ==
  IF desk[p].call.is = "renounce"
  THEN /\ form' = [form EXCEPT !.typed = "nothing"]
       /\ counts' = [counts EXCEPT !.renounced = @ + 1]
  ELSE UNCHANGED <<form, counts>>

Receive(p) ==
  /\ desk[p].at = "wait" /\ txs[desk[p].tx].is # "sent"
  /\ desk' = [desk EXCEPT ![p].at = "refresh"]
  /\ AfterReceipt(p)
  /\ UNCHANGED <<contractVars, txs, seen, check>>

GiveUp_Never(p) == FALSE /\ UNCHANGED vars
GiveUp(p) ==
  /\ desk[p].at = "wait" /\ txs[desk[p].tx].is = "sent" /\ Say(p, "failed")
  /\ UNCHANGED <<contractVars, form, txs, seen, check, counts>>

Refreshed(p) ==
  /\ desk[p].at = "refresh" /\ Say(p, "done")
  /\ UNCHANGED <<contractVars, form, txs, seen, check, counts>>

(* The reads of the roles panel swallow their failures; those of the others *)
(* end up where a failed transaction does.                                  *)
SwallowsReads_None(p) == FALSE
SwallowsReads(p) == p = "roles"
RefreshFails(p) ==
  /\ desk[p].at = "refresh" /\ ~SwallowsReads(p) /\ Say(p, "failed")
  /\ UNCHANGED <<contractVars, form, txs, seen, check, counts>>

-----------------------------------------------------------------------------
(* hasRole: four reads of the account, each of the latest block.            *)

StartCheck ==
  /\ check.reading.at = "idle" /\ form.account \in Checked
  /\ check' = [check EXCEPT !.reading = [Unchecked EXCEPT !.at = "reading", !.of = {form.account}]]
  /\ UNCHANGED <<contractVars, form, desk, txs, seen, counts>>
ReadOne(r) ==
  /\ check.reading.at = "reading" /\ r \notin DOMAIN check.reading.got
  /\ LET got == check.reading.got IN
     check' = [check EXCEPT !.reading.got =
                 [x \in DOMAIN got \cup {r} |->
                    IF x = r THEN \E a \in check.reading.of : HasRole(r, a) ELSE got[x]]]
  /\ UNCHANGED <<contractVars, form, desk, txs, seen, counts>>
ShowCheck ==
  /\ DOMAIN check.reading.got = Roles
  /\ check' = [reading |-> Unchecked, shown |-> check.reading]
  /\ UNCHANGED <<contractVars, form, desk, txs, seen, counts>>

PanelStep ==
  \/ SelectRole \/ TypeAccount \/ TypeToken \/ TypeConfirmation \/ ReadRoles
  \/ \E p \in Panels :
       \/ Click(p) \/ RefuseSwitch(p) \/ Sign(p) \/ RefuseToSign(p)
       \/ Receive(p) \/ GiveUp(p) \/ Refreshed(p) \/ RefreshFails(p)
CheckStep == StartCheck \/ ShowCheck \/ \E r \in Roles : ReadOne(r)

Next == OthersAct \/ PanelStep \/ CheckStep \/ \E k \in DOMAIN txs : Mine(k)

Spec == Init /\ [][Next]_vars

(* Reads end and waiting for a receipt is given up, of a chain that may     *)
(* never take the transaction; the administrator answers the wallet.        *)
Fairness ==
  \A p \in Panels : WF_vars(RefuseToSign(p)) /\ WF_vars(Receive(p) \/ GiveUp(p))
                    /\ WF_vars(Refreshed(p))

FairSpec == Spec /\ Fairness

-----------------------------------------------------------------------------
(* "Granted ... to ...": what a panel says it has done, or could not do, is *)
(* what the transaction it sent asked for, whatever is in the fields now.   *)
SaysWhatWasSent ==
  \A p \in Panels : desk[p].says = "done" =>
    desk[p].tx # 0 /\ txs[desk[p].tx].call = desk[p].of

(* Every renouncement reported took a confirmation of its own: the phrase   *)
(* is cleared even if the reads that follow the receipt fail.               *)
RenounceSpendsConfirmation == counts.renounced <= counts.typed

(* What has happened is not denied: a panel that has the receipt of a call  *)
(* that was done does not say that it failed.                               *)
NotDenied(p) ==
  desk[p].at = "refresh" /\ desk'[p].at = "idle" /\ txs[desk[p].tx].is = "done"
  => desk'[p].says = "done"

(* So the roles panel, which shows unknown for what it cannot read.         *)
RolesNotDenied == NotDenied("roles")

(* The panels come back, whatever becomes of their transactions.            *)
PanelsComeBack == \A p \in Panels : (desk[p].at # "idle") ~> (desk[p].at = "idle")

(* "Allowlist update failed.": and so the token panel.                      *)
TokenNotDenied == NotDenied("token")

(* "Granted ...", "Contract paused.": the call has been done.               *)
SaidIsDone ==
  \A p \in Panels : desk[p].says = "done" => txs[desk[p].tx].is = "done"

(* The separation the panel warns of is broken on the chain.                *)
SeparationWarning ==
  LET got == check.shown.got IN
  /\ DOMAIN got = Roles
  /\ got[ARBITRATOR_ROLE] /\ (got[DEFAULT_ADMIN_ROLE] \/ got[PAUSER_ROLE])
WarningIsTrue == SeparationWarning => \E a \in Accounts : ~SeparatedIn(members, a)

(* "Type RENOUNCE to confirm before renouncing selected role": the role is  *)
(* the one that was selected when it was typed.                             *)
ConfirmedForSelected ==
  \A p \in Panels : desk[p].at = "sign" /\ desk[p].call.is = "renounce" =>
    form.typed = desk[p].call.role

TypeOK ==
  /\ DOMAIN desk = Panels
  /\ \A p \in Panels :
       /\ desk[p].at \in {"idle", "sign", "wait", "refresh"}
       /\ desk[p].says \in {"nothing", "done", "failed"} /\ desk[p].tx \in 0..Len(txs)
  /\ \A k \in DOMAIN txs : txs[k].is \in {"sent", "done", "reverted"}
  /\ form.role \in Roles /\ form.typed \in Roles \cup {"nothing"}
  /\ paused \in BOOLEAN /\ allowed \cup reviewed \subseteq Tokens
  /\ \A a \in Accounts : SeparatedIn(members, a)
=============================================================================
