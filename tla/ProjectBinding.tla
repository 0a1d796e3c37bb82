--------------------------- MODULE ProjectBinding ---------------------------
(***************************************************************************)
(* How the row of a project finds its escrow.  A client creates the row,   *)
(* directly or through an application on the marketplace; the funding page *)
(* then creates the escrow on the chain, reads its id from the receipt and *)
(* asks the service to bind it to the row.  Event sync sees the escrow     *)
(* too, and imports a row of its own when none is bound to it.             *)
(*                                                                         *)
(* Everything happens on behalf of one registered client; a stranger only  *)
(* creates escrows without the app.  Deposits are full.                    *)
(***************************************************************************)
EXTENDS Naturals, Sequences, FiniteSets

CONSTANTS
  Tabs,            \* browser tabs of the client
  TypedIds,        \* on-chain ids somebody fills in on a creation form, 0 for none
  OutsideClients,  \* who creates escrows without the app: of {"user", "stranger"}
  MayLeave,        \* whether a tab may be closed, or a request fail, half way
  MaxRows,         \* rows the client creates, at most
  MaxEscrows       \* escrows on the chain, at most

BindingAssumption ==
  /\ TypedIds \subseteq Nat /\ 0 \in TypedIds
  /\ OutsideClients \subseteq {"user", "stranger"}
  /\ MayLeave \in BOOLEAN /\ MaxRows \in Nat /\ MaxEscrows \in Nat

VARIABLES
  rows,       \* projects, by order of creation; bound is the on-chain id or 0
  escrows,    \* on-chain id -> its client, whether it is funded, and the row it was made for
  events,     \* what the registry has emitted
  applied,    \* how many of them event sync has applied
  tab         \* [tab]: what its handler does next, and with what

bindingVars == <<rows, escrows, events, applied, tab>>
chainVars == <<escrows, events>>

Closed == [at |-> "closed"]
Ids == DOMAIN escrows
RowsOf(id) == {r \in DOMAIN rows : rows[r].bound = id}
Created == {r \in DOMAIN rows : rows[r].origin # "imported"}

Init ==
  /\ rows = <<>> /\ escrows = <<>> /\ events = <<>> /\ applied = 0
  /\ tab = [t \in Tabs |-> Closed]

-----------------------------------------------------------------------------
(* Creating a project, and taking a freelancer for it.                     *)

Create(row) ==
  /\ Cardinality(Created) < MaxRows
  /\ rows' = Append(rows, row)
  /\ UNCHANGED <<chainVars, applied, tab>>

CreateProjectForClient(typed) ==
  Create([origin |-> "direct", status |-> "AWAITING_ESCROW", public |-> FALSE,
          freelancer |-> TRUE, bound |-> typed])

CreateMarketplaceProjectForClient(typed) ==
  Create([origin |-> "marketplace", status |-> "OPEN", public |-> TRUE,
          freelancer |-> FALSE, bound |-> typed])

IsListed(r) == rows[r].status = "OPEN" /\ rows[r].public /\ ~rows[r].freelancer

AcceptProjectApplication(r) ==
  /\ IsListed(r)
  /\ rows' = [rows EXCEPT ![r].freelancer = TRUE, ![r].status = "AWAITING_ESCROW"]
  /\ UNCHANGED <<chainVars, applied, tab>>

-----------------------------------------------------------------------------
(* The funding page: create the escrow, bind it, deposit.                   *)

Go(t, record) == tab' = [tab EXCEPT ![t] = record]
OnTab(t, record) == Go(t, record) /\ UNCHANGED <<rows, chainVars, applied>>

CanCreateOnChainEscrow(r) ==
  /\ rows[r].origin # "imported"     \* an imported row has no milestones
  /\ rows[r].bound = 0 /\ rows[r].status = "AWAITING_ESCROW" /\ rows[r].freelancer

OpenCreatePanel(t, r) ==
  /\ tab[t] = Closed /\ CanCreateOnChainEscrow(r)
  /\ OnTab(t, [at |-> "create", row |-> r])

NewEscrow(client, row) ==
  /\ Len(escrows) < MaxEscrows
  /\ escrows' = Append(escrows, [client |-> client, row |-> row, funded |-> FALSE])
  /\ events' = Append(events, [name |-> "ProjectCreated", id |-> Len(escrows) + 1])

(* The receipt's ProjectCreated event names the id.                         *)
SignCreateProject(t) ==
  /\ tab[t].at = "create"
  /\ NewEscrow("user", tab[t].row)
  /\ Go(t, [at |-> "confirm", row |-> tab[t].row, id |-> Len(escrows) + 1])
  /\ UNCHANGED <<rows, applied>>

(* confirmOnChainProjectBinding is one transaction, READ COMMITTED: the     *)
(* checks ...                                                               *)
ReadBinding(t) ==
  LET row == rows[tab[t].row] IN
  /\ tab[t].at = "confirm"
  /\ IF row.bound = 0 /\ row.status = "AWAITING_ESCROW" /\ row.freelancer
     THEN OnTab(t, [tab[t] EXCEPT !.at = "bind"]) ELSE OnTab(t, Closed)

(* ... and the write.                                                       *)
WriteBinding(t) ==
  /\ tab[t].at = "bind"
  /\ rows' = [rows EXCEPT ![tab[t].row].bound = tab[t].id]
  /\ Go(t, Closed)
  /\ UNCHANGED <<chainVars, applied>>

OpenFundingPanel(t, r) ==
  /\ tab[t] = Closed
  /\ rows[r].bound \in Ids
  /\ OnTab(t, [at |-> "fund", row |-> r, id |-> rows[r].bound])

CanFund(id) == escrows[id].client = "user" /\ ~escrows[id].funded
FundProject(t) ==
  LET id == tab[t].id IN
  /\ tab[t].at = "fund"
  /\ IF CanFund(id)
     THEN /\ escrows' = [escrows EXCEPT ![id].funded = TRUE]
          /\ events' = Append(events, [name |-> "ProjectFunded", id |-> id])
          /\ Go(t, [tab[t] EXCEPT !.at = "report"])
     ELSE Go(t, Closed) /\ UNCHANGED chainVars
  /\ UNCHANGED <<rows, applied>>

(* reconcileProjectFunding writes the row it is given.                      *)
ReportFunding(t) ==
  /\ tab[t].at = "report"
  /\ rows' = [rows EXCEPT ![tab[t].row].status = "ACTIVE"]
  /\ Go(t, Closed)
  /\ UNCHANGED <<chainVars, applied>>

Leave(t) == MayLeave /\ tab[t] # Closed /\ OnTab(t, Closed)

TabStep(t) ==
  \/ SignCreateProject(t) \/ ReadBinding(t) \/ WriteBinding(t)
  \/ FundProject(t) \/ ReportFunding(t)

-----------------------------------------------------------------------------
(* Everybody else, and event sync.                                         *)

CreateOutside ==
  /\ \E client \in OutsideClients : NewEscrow(client, 0)
  /\ UNCHANGED <<rows, applied, tab>>

Imported(id) ==
  [origin |-> "imported", status |-> "AWAITING_ESCROW", public |-> FALSE,
   freelancer |-> TRUE, bound |-> id]

(* Mutant: only rows that are there already are synced.                     *)
SyncProjectCreated_NoImport(id) ==
  IF RowsOf(id) # {}
  THEN \E r \in RowsOf(id) : rows' = [rows EXCEPT ![r].public = FALSE]
  ELSE UNCHANGED rows

(* findFirst without an order: any row that is bound to the escrow.  The    *)
(* status is kept, an AWAITING_ESCROW row awaits it still.                  *)
SyncProjectCreated(id) ==
  IF RowsOf(id) # {}
  THEN \E r \in RowsOf(id) : rows' = [rows EXCEPT ![r].public = FALSE]
  ELSE IF escrows[id].client = "user" THEN rows' = Append(rows, Imported(id))
  ELSE UNCHANGED rows

(* Mutant: the row is looked up by its position.                            *)
SyncProjectFunded_ByRowNumber(id) ==
  IF id \in DOMAIN rows THEN rows' = [rows EXCEPT ![id].status = "ACTIVE"]
  ELSE UNCHANGED rows

SyncProjectFunded(id) ==
  IF RowsOf(id) # {}
  THEN \E r \in RowsOf(id) : rows' = [rows EXCEPT ![r].status = "ACTIVE"]
  ELSE UNCHANGED rows

SyncEvent ==
  /\ applied < Len(events)
  /\ LET event == events[applied + 1] IN
       IF event.name = "ProjectCreated" THEN SyncProjectCreated(event.id)
       ELSE SyncProjectFunded(event.id)
  /\ applied' = applied + 1
  /\ UNCHANGED <<chainVars, tab>>

-----------------------------------------------------------------------------
Next ==
  \/ \E typed \in TypedIds :
       CreateProjectForClient(typed) \/ CreateMarketplaceProjectForClient(typed)
  \/ \E r \in DOMAIN rows : AcceptProjectApplication(r)
  \/ \E t \in Tabs :
       \/ \E r \in DOMAIN rows : OpenCreatePanel(t, r) \/ OpenFundingPanel(t, r)
       \/ TabStep(t) \/ Leave(t)
  \/ CreateOutside \/ SyncEvent

Spec == Init /\ [][Next]_bindingVars

-----------------------------------------------------------------------------
(* A row is bound to an escrow there is.                                    *)
TypeOK ==
  /\ \A r \in DOMAIN rows :
       /\ rows[r].origin \in {"direct", "marketplace", "imported"}
       /\ rows[r].status \in {"OPEN", "AWAITING_ESCROW", "ACTIVE"}
       /\ rows[r].public \in BOOLEAN /\ rows[r].freelancer \in BOOLEAN
       /\ rows[r].bound \in 0..Len(escrows)
  /\ \A id \in Ids : escrows[id].row \in 0..Len(rows)
  /\ applied \in 0..Len(events)

(* A row is bound to an escrow made from its own milestones, however many   *)
(* tabs create escrows at the same time: ids are read from receipts.        *)
BoundToItsOwn ==
  \A r \in Created : rows[r].bound # 0 => escrows[rows[r].bound].row = r

(* A row that says its escrow is funded is bound to one that is.            *)
ActiveMeansFunded ==
  \A r \in DOMAIN rows :
    rows[r].status = "ACTIVE" => rows[r].bound \in Ids /\ escrows[rows[r].bound].funded

AtRest == applied = Len(events) /\ \A t \in Tabs : tab[t] = Closed

(* Every escrow of the client is shown to the client, also one whose tab    *)
(* was closed before it was bound: event sync imports it.                   *)
EscrowsAreShown ==
  AtRest => \A id \in Ids : escrows[id].client = "user" => RowsOf(id) # {}

(* No two rows stand for the same escrow.                                   *)
BoundOnce == \A id \in Ids : Cardinality(RowsOf(id)) <= 1

(* The row a funded escrow was made for says so once everything is through. *)
FundedRowIsActive ==
  AtRest => \A r \in Created :
    (rows[r].bound \in Ids /\ escrows[rows[r].bound].funded) => rows[r].status = "ACTIVE"

(* A project that looks for a freelancer can be found by one.               *)
OpenMeansListed == \A r \in DOMAIN rows : rows[r].status = "OPEN" => IsListed(r)
=============================================================================
