----------------------------- MODULE CursorState -----------------------------
(***************************************************************************)
(* The JSON event sync merges into its checkpoint beside the rows: what it *)
(* says of recipients and of emergency decisions, as live runs write it.   *)
(*                                                                         *)
(* A rewind writes it anew from the stored events.  Their numbers have     *)
(* become strings, which asBigInt reads as 0: every entry is then filed    *)
(* under project 0, milestone 0, with no time.  EventSync has that loss,   *)
(* as StoredKey.                                                           *)
(***************************************************************************)
EXTENDS RegistryMirror

VARIABLE cursor    \* cursorState of the checkpoint, as live runs merge it

cursorVars == <<cursor>>

NoEntry == [pending |-> NoAddress, after |-> 0, executed |-> NoAddress, party |-> NoAddress]
NoState ==
  [recipients |-> [p \in Projects |-> [i \in MilestoneIndexes |-> [l \in Legs |-> NoEntry]]],
   emergency |-> [p \in Projects |-> [i \in MilestoneIndexes |->
                    [status |-> "none", readyAt |-> 0]]]]

CursorInit == MirrorInit /\ cursor = NoState

-----------------------------------------------------------------------------
(* reduceProjectionState of an event, merged into a state.                  *)

SetEntry_AllPending(new, after) ==
  [pending |-> new, after |-> after, executed |-> NoAddress, party |-> NoAddress]
SetEntry(new, after) ==
  IF after = 0 THEN [NoEntry EXCEPT !.party = new]
  ELSE [NoEntry EXCEPT !.pending = new, !.after = after]

(* What the patch of an execution does not name stays, by the deep merge.   *)
ExecutedEntry_Nothing(entry, new) == entry
ExecutedEntry(entry, new) == [entry EXCEPT !.executed = new]

ForLeg(state, p, i, l, entry) == [state EXCEPT !.recipients[p][i][l] = entry]
ForDispute_KeepsProposed(state, p, i, status, readyAt) ==
  IF state.emergency[p][i].status = "proposed" THEN state
  ELSE [state EXCEPT !.emergency[p][i] = [status |-> status, readyAt |-> readyAt]]
ForDispute(state, p, i, status, readyAt) ==
  [state EXCEPT !.emergency[p][i] = [status |-> status, readyAt |-> readyAt]]

-----------------------------------------------------------------------------
(* The registry's transactions, with what their events leave of the state.  *)

(* applyEventProjection returns an empty patch for the end of a dispute, by *)
(* a decision, by timeout or by the admin; ...                              *)
ReducedResolution(c, p, i) == MirroredResolution(c, p, i) /\ UNCHANGED cursorVars

(* ... and for ProjectCancelled and ProjectEmergencyCancelled.              *)
ReducedCancellation(c, p) == MirroredCancellation(c, p) /\ UNCHANGED cursorVars

ReducedProposal(c, p, i, r) ==
  /\ MirroredProposal(c, p, i, r)
  /\ cursor' = IF ShownProposal(p, i)' = "proposed"
               THEN ForDispute(cursor, p, i, "proposed", now + EMERGENCY_RESOLUTION_DELAY)
               ELSE ForDispute(cursor, p, i, "cancelled", 0)

ReducedAlternative(c, p, i, leg, new) ==
  /\ MirroredAlternative(c, p, i, leg, new)
  /\ IF QuorumWith(c, AlternativeSubject(p, i, leg, new))
     THEN cursor' = ForLeg(cursor, p, i, leg, SetEntry(new,
            IF new = NoAddress THEN 0 ELSE now + ALTERNATIVE_RECIPIENT_DELAY))
     ELSE UNCHANGED cursorVars

ReducedExecution(c, p, i, leg) ==
  /\ MirroredExecution(c, p, i, leg)
  /\ cursor' = ForLeg(cursor, p, i, leg, ExecutedEntry(cursor.recipients[p][i][leg],
                  pendingAlternative[p][i][leg].recipient))

ReducedConsent(c, p, i, leg, new) ==
  /\ MirroredConsent(c, p, i, leg, new)
  /\ cursor' = ForLeg(cursor, p, i, leg, SetEntry(new, 0))

CursorNext ==
  \/ Unmirrored /\ UNCHANGED cursorVars
  \/ \E c \in Accounts, p \in Projects :
       \/ ReducedCancellation(c, p)
       \/ \E i \in MilestoneIndexes :
            \/ ReducedResolution(c, p, i)
            \/ \E r \in Resolutions : ReducedProposal(c, p, i, r)
            \/ \E leg \in Legs : ReducedExecution(c, p, i, leg)
       \/ \E choice \in RecipientChoices :
            /\ choice[1] # ProjectWide
            /\ \/ ReducedAlternative(c, p, choice[1], choice[2], choice[3])
               \/ ReducedConsent(c, p, choice[1], choice[2], choice[3])

CursorSpec == CursorInit /\ [][CursorNext]_<<vars, mirrorVars, cursorVars>>

-----------------------------------------------------------------------------
(* "party-authorized recipients ... should not be treated as delayed        *)
(* pending alternatives": during a dispute, what the state calls pending    *)
(* the arbitrators proposed, and it is still pending or has been executed.  *)
PendingWasProposed ==
  \A p \in Projects, i \in MilestoneIndexes, l \in Legs :
    LET entry == cursor.recipients[p][i][l] IN
    dispute[p][i].active /\ entry.pending # NoAddress =>
      \/ pendingAlternative[p][i][l] =
           [recipient |-> entry.pending, executableAfter |-> entry.after]
      \/ alternative[p][i][l] = entry.pending /\ entry.executed = entry.pending

(* What the state calls executed is what the row calls active, the          *)
(* cancellations aside, which the state does not hear of.                   *)
ExecutedIsActive ==
  \A p \in Projects, i \in MilestoneIndexes, l \in Legs :
    dispute[p][i].active =>
      cursor.recipients[p][i][l].executed = recipientRow[p][i][l].active

(* An emergency decision the state calls proposed is one the admin could    *)
(* still execute from the time named.                                       *)
ProposedIsLive ==
  \A p \in Projects, i \in MilestoneIndexes :
    dispute[p][i].active /\ cursor.emergency[p][i].status = "proposed" =>
      cursor.emergency[p][i].readyAt \in {e[2] : e \in LiveProposals(p, i)}

(* "Contract clears alternative recipient legs on dispute resolution": the  *)
(* state has no recipient pending once the dispute is resolved.             *)
CursorIsCleared ==
  \A p \in Projects, i \in MilestoneIndexes, l \in Legs :
    cursor.recipients[p][i][l].pending # NoAddress =>
      dispute[p][i].active \/ project[p].status = "Cancelled"
=============================================================================
