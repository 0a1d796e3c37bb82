---------------------------- MODULE PanelSessions ----------------------------
(***************************************************************************)
(* What the pages offer to do with the registry: the conditions under      *)
(* which a panel lets its button call the contract.  Each panel repeats in *)
(* TypeScript what the contract will check, from reads of the chain and,   *)
(* where noted, from a row.  Rows are taken to be current here (how they   *)
(* come to be is MilestoneWorkflow's subject) and the browser's clock to   *)
(* be the time of the block.                                               *)
(*                                                                         *)
(* And open pages beside the registry.  The client's cancel panel reads    *)
(* the project once, when it is mounted, and keeps that snapshot while its *)
(* clock runs on; its confirmation dialog asks nothing again.  The admin's *)
(* emergency panel checks whatever it read last, of whatever project that  *)
(* was.  The registry refuses what it must, so these sessions cannot harm  *)
(* it: the question is whether they say what happens.                      *)
(***************************************************************************)
EXTENDS EscrowRegistry

NoSnapshot == [status |-> "None"]

(* What a panel reads of a project: the status, the milestones and their    *)
(* disputes.  Its requests are taken to be answered of one block.           *)
Snapshot(p) ==
  [status |-> project[p].status,
   at |-> [i \in Milestones(p) |->
     [status |-> milestone[p][i].status, entered |-> milestone[p][i].reviewEnteredAt,
      disputed |-> dispute[p][i].active, raised |-> dispute[p][i].raisedAt]]]

MilestonesIn(s) == DOMAIN s.at
With(s, status) == {i \in MilestonesIn(s) : s.at[i].status = status}
Disputed(s) == {i \in MilestonesIn(s) : s.at[i].disputed}
IsStale(since) == now >= since + CANCEL_TIMEOUT

-----------------------------------------------------------------------------
(* CancelProjectPanel, for the client.                                     *)

(* Mutant: a submission is stale once the timeout is over, not when it ends. *)
SubmittedBlocks_Late(s) ==
  \E i \in With(s, "Submitted") :
    s.at[i].entered = 0 \/ now <= s.at[i].entered + CANCEL_TIMEOUT

SubmittedBlocks(s) ==
  \E i \in With(s, "Submitted") : s.at[i].entered = 0 \/ ~IsStale(s.at[i].entered)

(* Disputes that block: all but stale ones of undelivered work. *)
DisputeBlockers(s) ==
  {i \in Disputed(s) : s.at[i].status = "Pending" => ~IsStale(s.at[i].raised)}

CancelEligible(s) ==
  /\ s.status \notin {"Completed", "Cancelled"}
  /\ With(s, "Approved") = {}
  /\ ~SubmittedBlocks(s)
  /\ DisputeBlockers(s) = {}

(* Mutant: disputed milestones are left out of the list. *)
PendingRefunds_Undisputed(s) == With(s, "Pending") \ Disputed(s)

(* What the panel says a cancellation does. *)
PendingRefunds(s) == With(s, "Pending")
StaleReleases(s) ==
  {i \in With(s, "Submitted") \ Disputed(s) :
     s.at[i].entered # 0 /\ IsStale(s.at[i].entered)}

-----------------------------------------------------------------------------
(* EmergencyAdminCancelPanel, for an admin.                                *)

(* Mutant: the panel forgets approved milestones. *)
AdminCancelAllowed_Approved(s) ==
  s.status = "Active" /\ Disputed(s) = {} /\ With(s, "Submitted") = {}

(* evaluateEmergencyAdminCancelPreflight gives no reasons. *)
AdminCancelAllowed(s) ==
  s.status = "Active" /\ Disputed(s) = {} /\ With(s, "Submitted") \cup With(s, "Approved") = {}

-----------------------------------------------------------------------------
(* ResolveStaleDisputeByTimeoutPanel, AlternativeRecipientPanel and         *)
(* DisputeEvidenceAppendPanel, for the parties.                             *)

(* Mutant: the panel counts from the cancel timeout. *)
TimeoutOffered_WrongTimeout(p, i, created) ==
  /\ ~paused /\ dispute[p][i].active
  /\ milestone[p][i].status = "Pending"
  /\ now >= created + CANCEL_TIMEOUT

(* created is the row's: the dispute was raised then, or before. *)
TimeoutOffered(p, i, created) ==
  /\ ~paused /\ dispute[p][i].active
  /\ milestone[p][i].status = "Pending"
  /\ now >= created + DISPUTE_TIMEOUT

(* Mutant: the panel does not wait for the delay. *)
ExecuteRecipientOffered_AtOnce(caller, p, i, leg) ==
  /\ ~paused /\ project[p].status \in {"Active", "Disputed"}
  /\ PartyOf(p, leg) = caller
  /\ pendingAlternative[p][i][leg].recipient # NoAddress

ExecuteRecipientOffered(caller, p, i, leg) ==
  /\ ~paused /\ project[p].status \in {"Active", "Disputed"}
  /\ PartyOf(p, leg) = caller
  /\ pendingAlternative[p][i][leg].recipient # NoAddress
  /\ now >= pendingAlternative[p][i][leg].executableAfter

EvidenceOffered(caller, p, i) ==
  ~paused /\ IsParty(p, caller) /\ dispute[p][i].active

-----------------------------------------------------------------------------
(* The dispute card of the admin page, for arbitrators and admins.         *)

(* validateResolution *)
ResolutionValid(r, amount) ==
  CASE r.kind = "ReleaseToFreelancer" -> r.freelancerAmount = amount /\ r.clientAmount = 0
    [] r.kind = "RefundToClient" -> r.clientAmount = amount /\ r.freelancerAmount = 0
    [] OTHER -> /\ r.freelancerAmount > 0 /\ r.clientAmount > 0
                /\ r.freelancerAmount + r.clientAmount = amount

(* canResolveStaleDispute, the open dispute's row being there *)
MayBeResolved(p, i) ==
  project[p].status \in {"Active", "Disputed"} /\ ~Settled(p, i)

(* Mutant: the pause is not asked for. *)
ResolutionOffered_Paused(caller, p, i, r) ==
  /\ dispute[p][i].active
  /\ ResolutionValid(r, Amount(p, i)) /\ MayBeResolved(p, i)
  /\ HasRole(ARBITRATOR_ROLE, caller)

(* submitResolution reaches the contract. *)
ResolutionOffered(caller, p, i, r) ==
  /\ dispute[p][i].active
  /\ ResolutionValid(r, Amount(p, i)) /\ MayBeResolved(p, i)
  /\ HasRole(ARBITRATOR_ROLE, caller) /\ ~paused

(* getEmergencyResolutionReadyAt of what is typed: when it matures, if it   *)
(* is proposed.                                                             *)
ReadyTimes(p, i, r) ==
  {e[2] : e \in {x \in emergencyReadyAt : x[1] = EmergencyAction(p, i, r)}}

EmergencyControls(caller, p, i) ==
  dispute[p][i].active /\ HasRole(DEFAULT_ADMIN_ROLE, caller)

ProposeOffered(caller, p, i, r) ==
  /\ EmergencyControls(caller, p, i) /\ ~paused
  /\ ReadyTimes(p, i, r) = {}
  /\ ResolutionValid(r, Amount(p, i))

(* Mutant: the countdown is not waited for. *)
ExecuteOffered_AtOnce(caller, p, i, r) ==
  /\ EmergencyControls(caller, p, i) /\ ~paused
  /\ ReadyTimes(p, i, r) # {}

ExecuteOffered(caller, p, i, r) ==
  /\ EmergencyControls(caller, p, i) /\ ~paused
  /\ \E readyAt \in ReadyTimes(p, i, r) : readyAt <= now

(* Only until the proposal matures, though the contract has no such limit. *)
CancelOffered(caller, p, i, r) ==
  /\ EmergencyControls(caller, p, i) /\ ~paused
  /\ \E readyAt \in ReadyTimes(p, i, r) : now < readyAt

-----------------------------------------------------------------------------
(* Sessions.                                                                *)

CONSTANT Panels             \* bound: which panels are open, "cancel" or "admin"

VARIABLES
  cancelPanel,        \* [project]: the client's snapshot, and whether the dialog is open
  adminPanel          \* typed: the project id, preflight: what was read last,
                      \* refused: the error shown, sending: a transaction is signed

panelVars == <<cancelPanel, adminPanel>>
sessionVars == <<vars, panelVars>>

NoPanel == [shown |-> NoSnapshot, confirming |-> FALSE]
ClientOf(p) == project[p].client

SessionInit ==
  /\ Init
  /\ cancelPanel = [p \in Projects |-> NoPanel]
  /\ adminPanel = [typed |-> 1, preflight |-> NoSnapshot, refused |-> FALSE,
                   sending |-> FALSE]

-----------------------------------------------------------------------------
(* The client's panel.                                                     *)

MountCancelPanel(p) ==
  /\ "cancel" \in Panels /\ Exists(p) /\ ~paused
  /\ cancelPanel' = [cancelPanel EXCEPT ![p] = [shown |-> Snapshot(p), confirming |-> FALSE]]
  /\ UNCHANGED <<vars, adminPanel>>

OpenDialog(p) ==
  /\ cancelPanel[p].shown # NoSnapshot /\ CancelEligible(cancelPanel[p].shown)
  /\ ~cancelPanel[p].confirming
  /\ cancelPanel' = [cancelPanel EXCEPT ![p].confirming = TRUE]
  /\ UNCHANGED <<vars, adminPanel>>

(* Refused by the contract, the dialog stays; done, it closes, and the      *)
(* snapshot stays.                                                          *)
ConfirmCancel(p) ==
  /\ cancelPanel[p].confirming
  /\ CancelProject(ClientOf(p), p)
  /\ cancelPanel' = [cancelPanel EXCEPT ![p].confirming = FALSE]
  /\ UNCHANGED adminPanel

-----------------------------------------------------------------------------
(* The admin's panel.                                                      *)

TypeProject(p) ==
  /\ "admin" \in Panels /\ ~adminPanel.sending /\ adminPanel.typed # p
  /\ adminPanel' = [adminPanel EXCEPT !.typed = p]
  /\ UNCHANGED <<vars, cancelPanel>>

(* An unknown project makes the read fail, and so may the node. *)
Preflights == {NoSnapshot} \cup {Snapshot(p) : p \in {adminPanel.typed} \cap 1..projectCount}

RunPreflight ==
  /\ "admin" \in Panels /\ ~adminPanel.sending
  /\ \E s \in Preflights : s # adminPanel.preflight /\
       adminPanel' = [adminPanel EXCEPT !.preflight = s, !.refused = FALSE]
  /\ UNCHANGED <<vars, cancelPanel>>

(* Reads again, then checks what had been read before. *)
ExecuteAdminCancel ==
  /\ "admin" \in Panels /\ ~adminPanel.sending
  /\ \E s \in Preflights :
       LET decision == adminPanel.preflight # NoSnapshot /\ ~AdminCancelAllowed(adminPanel.preflight)
       IN adminPanel' = [adminPanel EXCEPT !.preflight = s, !.refused = decision,
                                           !.sending = ~decision]
  /\ UNCHANGED <<vars, cancelPanel>>

(* The transaction goes through, or the contract refuses it. *)
SendAdminCancel(caller) ==
  /\ adminPanel.sending
  /\ adminPanel' = [adminPanel EXCEPT !.sending = FALSE]
  /\ UNCHANGED cancelPanel
  /\ \/ EmergencyAdminCancel(caller, adminPanel.typed)
     \/ UNCHANGED vars

-----------------------------------------------------------------------------

PanelStep ==
  \/ \E p \in Projects : MountCancelPanel(p) \/ OpenDialog(p) \/ ConfirmCancel(p) \/ TypeProject(p)
  \/ RunPreflight \/ ExecuteAdminCancel
  \/ \E a \in Accounts : SendAdminCancel(a)

SessionNext == (Next /\ UNCHANGED panelVars) \/ PanelStep
SessionSpec == SessionInit /\ [][SessionNext]_sessionVars

-----------------------------------------------------------------------------
(* Properties of what is offered, from a fresh snapshot.                   *)

(* While the registry is not paused the cancel panel lets the client cancel *)
(* exactly when cancelProject would: the conditions of eligible are the     *)
(* contract's loop, at the same second.                                     *)
CancelOfferMatches ==
  \A p \in 1..projectCount : ~paused =>
    (CancelEligible(Snapshot(p)) <=> ENABLED CancelProject(ClientOf(p), p))

(* A cancellation refunds and releases the milestones the panel lists, as   *)
(* read just before it.                                                     *)
CancelDoesAsListed ==
  \A p \in 1..projectCount :
    project[p].status # "Cancelled" /\ project'[p].status = "Cancelled"
      /\ CancelProject(ClientOf(p), p) =>
    \A i \in Milestones(p) : milestone'[p][i].status =
      IF i \in PendingRefunds(Snapshot(p)) THEN "Refunded"
      ELSE IF i \in StaleReleases(Snapshot(p)) THEN "Released"
      ELSE milestone[p][i].status

(* The admin panel's preflight has no blockers exactly when the contract    *)
(* would cancel, paused or not.                                             *)
AdminPreflightMatches ==
  \A p \in 1..projectCount, a \in Accounts : HasRole(DEFAULT_ADMIN_ROLE, a) =>
    (AdminCancelAllowed(Snapshot(p)) <=> ENABLED EmergencyAdminCancel(a, p))

(* The timeout panel is ready only when the contract would resolve, however *)
(* late the dispute's row was created, and ready at once for a row that was *)
(* created with the dispute.                                                *)
TimeoutOfferMatches ==
  \A p \in 1..projectCount : \A i \in Milestones(p) :
    (\E created \in dispute[p][i].raisedAt..now : TimeoutOffered(p, i, created))
      <=> ENABLED ResolveStaleDisputeByTimeout(ClientOf(p), p, i)

(* A recipient may be executed and evidence appended from the panels        *)
(* exactly when the contract would, while it is not paused: the recipient   *)
(* panel does not look at the dispute, which ends only with the proposal.   *)
PartyOffersMatch ==
  \A p \in 1..projectCount, leg \in Legs : \A i \in Milestones(p) : ~paused =>
    LET caller == PartyOf(p, leg) IN
    /\ ExecuteRecipientOffered(caller, p, i, leg)
         <=> ENABLED ExecuteAlternativeRecipient(caller, p, i, leg)
    /\ EvidenceOffered(caller, p, i) <=> ENABLED AppendDisputeEvidence(caller, p, i)

(* Reasons of the contract that the dispute card does not look at. *)
Unchecked(caller, p, i, r) ==
  /\ QuorumWith(caller, ResolveSubject(p, i, r))
  /\ ~KindAllowed(p, i, r) \/ ~NoBlockingChange(p, i, r)

(* What the dispute card lets an arbitrator submit the contract accepts, as *)
(* a vote or as the decision, unless it is the deciding vote for something  *)
(* that only the contract checks: a kind the milestone's state forbids, or  *)
(* a recipient change under way.                                            *)
ResolutionOfferMatches ==
  \A p \in 1..projectCount, a \in Accounts, r \in Resolutions : \A i \in Milestones(p) :
    ResolutionOffered(a, p, i, r) =>
      \/ ENABLED VoteOnDispute(a, p, i, r) \/ ENABLED ResolveDispute(a, p, i, r)
      \/ Unchecked(a, p, i, r)

(* The same for the admin's timelocked way: a proposal is refused only for  *)
(* its kind, and neither execution nor cancellation is ever refused.        *)
EmergencyOffersWork ==
  \A p \in 1..projectCount, a \in Accounts, r \in Resolutions : \A i \in Milestones(p) :
    /\ ProposeOffered(a, p, i, r) =>
         ENABLED ProposeEmergencyResolveDispute(a, p, i, r) \/ ~KindAllowed(p, i, r)
    /\ ExecuteOffered(a, p, i, r) => ENABLED EmergencyResolveDispute(a, p, i, r)
    /\ CancelOffered(a, p, i, r) => ENABLED CancelEmergencyResolveDispute(a, p, i, r)

(* Emergency settlement "is timelock-gated and can run while paused": the   *)
(* card offers what the contract would execute, paused or not.              *)
EmergencyRunsWhilePaused ==
  \A p \in 1..projectCount, a \in Accounts, r \in Resolutions : \A i \in Milestones(p) :
    ENABLED EmergencyResolveDispute(a, p, i, r) => ExecuteOffered(a, p, i, r)

-----------------------------------------------------------------------------
(* Properties of the sessions.                                             *)

(* A dialog, however long it has been open, is not refused if the project is *)
(* still as the snapshot says: time only ever adds to what may be cancelled. *)
ConfirmationsWork ==
  \A p \in 1..projectCount :
    cancelPanel[p].confirming /\ cancelPanel[p].shown = Snapshot(p) /\ ~paused =>
      ENABLED CancelProject(ClientOf(p), p)

(* A milestone the client's open panel lists under "Pending milestones      *)
(* refunded to client" is not paid out by the cancellation it confirms.     *)
RefundedAsShown ==
  [][\A p \in Projects :
       cancelPanel[p].confirming /\ ~cancelPanel'[p].confirming /\ project'[p] # project[p] =>
         \A i \in PendingRefunds(cancelPanel[p].shown) :
           milestone[p][i].status # "Released" => milestone'[p][i].status # "Released"]_sessionVars

(* The panel says "Preflight failed. Resolve blockers" only of a project    *)
(* whose preflight, as just run and shown, has blockers.                    *)
RefusedMeansBlocked ==
  adminPanel.refused => adminPanel.preflight = NoSnapshot \/ ~AdminCancelAllowed(adminPanel.preflight)
=============================================================================
