---------------------------- MODULE DisputeCard ----------------------------
(***************************************************************************)
(* The buttons of one dispute card of the admin page.  Its handlers        *)
(* (resolve, set an alternative recipient, and propose, execute or cancel  *)
(* the emergency resolution) are asynchronous and share one `phase`, which *)
(* disables the buttons: resolving and recipients by signing, pending (and *)
(* syncing), the emergency ones by emergency_signing and _pending.  The    *)
(* contract is its dispute and the proposal for what is typed, which the   *)
(* card polls every second and is taken to know.                           *)
(***************************************************************************)
EXTENDS Naturals, FiniteSets

CONSTANTS
  Controls,          \* the handlers whose controls the wallet's accounts see: an
                     \* arbitrator's, an admin's, or both, the wallet switching
  MaxClicks          \* bound: handlers ever started

Emergency == {"propose", "execute", "cancel"}
DisputeCardAssumption ==
  Controls \subseteq {"resolve", "alternative"} \cup Emergency /\ MaxClicks \in Nat

VARIABLES
  open,              \* the dispute is open, on the chain and in its row
  proposal,          \* the typed emergency resolution: none, waiting, ready
  phase,
  flights,           \* handlers under way: their number, what, how far
  clicks

vars == <<open, proposal, phase, flights, clicks>>
chainVars == <<open, proposal>>

Init ==
  /\ open = TRUE /\ proposal = "none" /\ phase = "idle"
  /\ flights = {} /\ clicks = 0

Waiting == {"signing", "pending", "syncing"}
EmergencyWaiting == {"emergency_signing", "emergency_pending"}
PhaseFor(what, stage) ==
  IF what \in Emergency THEN (IF stage = "signing" THEN "emergency_signing" ELSE "emergency_pending")
  ELSE stage

(* The button is there and not disabled. *)
MayClick(what) ==
  /\ open
  /\ CASE what = "resolve"     -> phase \notin Waiting
       [] what = "alternative" -> phase \notin {"signing", "pending"}
       [] what = "propose"     -> proposal = "none" /\ phase \notin EmergencyWaiting
       [] what = "execute"     -> proposal = "ready" /\ phase \notin EmergencyWaiting
       [] what = "cancel"      -> proposal = "waiting" /\ phase \notin EmergencyWaiting

(* setAlternativeRecipient asks for the signature at once; the others first *)
(* read the chain, and change the phase only then.                          *)
Click(what) ==
  LET stage == IF what = "alternative" THEN "signing" ELSE "checking" IN
  /\ what \in Controls /\ MayClick(what)
  /\ clicks < MaxClicks /\ clicks' = clicks + 1
  /\ flights' = flights \cup {[id |-> clicks, what |-> what, stage |-> stage]}
  /\ phase' = IF stage = "signing" THEN "signing" ELSE phase
  /\ UNCHANGED chainVars

Move(f, stage) ==
  /\ flights' = (flights \ {f}) \cup {[f EXCEPT !.stage = stage]}
  /\ phase' = PhaseFor(f.what, stage)
  /\ UNCHANGED clicks

Leave(f, nextPhase) ==
  flights' = flights \ {f} /\ phase' = nextPhase /\ UNCHANGED clicks

(* The reads are inside the try: one that fails ends in "failure".  On what *)
(* they say submitResolution throws, the emergency handlers only return.    *)
Check(f) ==
  /\ f.stage = "checking" /\ UNCHANGED chainVars
  /\ \/ open /\ Move(f, "signing")
     \/ Leave(f, "failure")
     \/ f.what \in Emergency /\ Leave(f, phase)

Sign(f) ==
  /\ f.stage = "signing" /\ UNCHANGED chainVars
  /\ Move(f, "pending") \/ Leave(f, "failure")

(* What the contract does with the transaction, reverting included: the     *)
(* receipt's status is not looked at.  A vote may or may not decide.        *)
Effect(what) ==
  \/ UNCHANGED chainVars
  \/ what \in {"resolve", "execute"} /\ open /\ (what = "execute" => proposal = "ready")
       /\ open' = FALSE /\ proposal' = "none"
  \/ what = "propose" /\ open /\ proposal = "none" /\ proposal' = "waiting" /\ UNCHANGED open
  \/ what = "cancel" /\ proposal # "none" /\ proposal' = "none" /\ UNCHANGED open

(* Mutant: a transaction that comes too late is waited for for ever. *)
Mined_OpenOnly(f) ==
  /\ f.stage = "pending" /\ open /\ Effect(f.what)
  /\ IF f.what = "resolve" THEN Move(f, "syncing") ELSE Leave(f, phase)

(* Mined: submitResolution goes on to store, the others are done and leave  *)
(* the phase as it is; or the receipt is not to be had.                     *)
Mined(f) ==
  /\ f.stage = "pending" /\ Effect(f.what)
  /\ \/ IF f.what = "resolve" THEN Move(f, "syncing") ELSE Leave(f, phase)
     \/ Leave(f, "failure")

(* Mutant: a failed request leaves the card waiting. *)
Store_FailsSilently(f) ==
  /\ f.stage = "syncing" /\ UNCHANGED chainVars
  /\ Leave(f, "success") \/ Leave(f, phase)

Store(f) ==
  /\ f.stage = "syncing" /\ UNCHANGED chainVars
  /\ Leave(f, "success") \/ Leave(f, "failure")

(* The timelock runs out. *)
Mature ==
  proposal = "waiting" /\ proposal' = "ready" /\ UNCHANGED <<open, phase, flights, clicks>>

Advance == \E f \in flights : Check(f) \/ Sign(f) \/ Mined(f) \/ Store(f)
Next == (\E what \in Controls : Click(what)) \/ Advance \/ Mature
Spec == Init /\ [][Next]_vars

(* The wallet, the chain and the service answer. *)
Fairness == WF_vars(Advance)

LiveSpec == Spec /\ Fairness

-----------------------------------------------------------------------------

(* A card whose button reads "Waiting signature...", "Waiting               *)
(* confirmation..." or "Persisting..." has a handler under way that will    *)
(* say how it ended, however the clicks overlap.                            *)
WaitingMeansInFlight ==
  phase \in Waiting => \E f \in flights : f.what \notin Emergency /\ f.stage # "checking"

(* The resolve button comes back: no order of clicks, refusals, reverts and *)
(* failed requests leaves the card waiting for ever.                        *)
ButtonComesBack == (phase \in Waiting) ~> (phase \notin Waiting)

(* When the card says "Ready to execute" and nothing is under way, its      *)
(* Execute button is not disabled.                                          *)
ReadyIsExecutable == open /\ proposal = "ready" /\ flights = {} => MayClick("execute")
=============================================================================
