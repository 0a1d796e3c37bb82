----------------------------- MODULE ProjectLists -----------------------------
(***************************************************************************)
(* The two lists of projects: the marketplace, read page by page while its *)
(* projects are posted, touched and taken, and a user's own projects,      *)
(* sorted in memory after the database has cut the list.                   *)
(*                                                                         *)
(* The clock stands for createdAt and updatedAt, no two of which are equal.*)
(* What a query text filters is left out.                                  *)
(***************************************************************************)
EXTENDS Integers, SequencesExt

CONSTANTS
  Projects,    \* ids that projects are given
  Amounts,     \* totals of projects
  Take,        \* rows of a page
  SortKeys,    \* what a walk over the marketplace may be sorted by
  MayTake,     \* whether projects are taken by a freelancer meanwhile
  MaxClock     \* bound: changes of the rows

ListsAssumption ==
  /\ Amounts \subseteq Nat \ {0} /\ Take \in Nat \ {0} /\ MaxClock \in Nat
  /\ SortKeys \subseteq {"createdAt", "updatedAt"} /\ MayTake \in BOOLEAN

VARIABLES
  rows,     \* the projects posted; mine is the user's part in each
  clock,
  walk      \* a reader of the marketplace

vars == <<rows, clock, walk>>

Posted == DOMAIN rows
Open == {p \in Posted : rows[p].open}
NoWalk == [on |-> FALSE]

Init == rows = <<>> /\ clock = 0 /\ walk = NoWalk

-----------------------------------------------------------------------------
(* The rows.                                                                *)

At(change) == clock < MaxClock /\ clock' = clock + 1 /\ change

Post(p, amount, mine, due) ==
  /\ p \notin Posted
  /\ At(rows' = [q \in Posted \cup {p} |-> IF q \in Posted THEN rows[q] ELSE
       [createdAt |-> clock, updatedAt |-> clock, open |-> TRUE, amount |-> amount,
        mine |-> mine, due |-> due, paid |-> FALSE]])
  /\ UNCHANGED walk

Touch(p) ==
  /\ p \in Posted /\ At(rows' = [rows EXCEPT ![p].updatedAt = clock]) /\ UNCHANGED walk

(* An application is accepted; a reader who was counting on the project no  *)
(* longer does.                                                             *)
TakeOn(p) ==
  /\ MayTake /\ p \in Open
  /\ At(rows' = [rows EXCEPT ![p].updatedAt = clock, ![p].open = FALSE])
  /\ walk' = IF walk.on THEN [walk EXCEPT !.owed = @ \ {p}] ELSE walk

(* The first milestone is paid: the earlier of the project's two deadlines. *)
Pay(p) ==
  /\ p \in Posted \ Open /\ ~rows[p].paid
  /\ At(rows' = [rows EXCEPT ![p].updatedAt = clock, ![p].paid = TRUE]) /\ UNCHANGED walk

-----------------------------------------------------------------------------
(* listPublicMarketplaceProjects: the cursor is an offset.                  *)

Sorted(S, Key(_), order) ==
  SetToSortSeq(S, LAMBDA p, q : IF order = "asc" THEN Key(p) < Key(q) ELSE Key(p) > Key(q))
ByDate_Updated(S, key, order) == Sorted(S, LAMBDA p : rows[p].updatedAt, order)
ByDate(S, key, order) ==
  Sorted(S, LAMBDA p : IF key = "createdAt" THEN rows[p].createdAt ELSE rows[p].updatedAt, order)

StartWalk(key, order) ==
  /\ ~walk.on /\ Open # {}
  /\ walk' = [on |-> TRUE, key |-> key, order |-> order, skip |-> 0, more |-> TRUE,
              owed |-> Open, seen |-> {}]
  /\ UNCHANGED <<rows, clock>>

Page(skip, key, order) ==
  LET all == ByDate(Open, key, order) IN SubSeq(all, skip + 1, Min({skip + Take, Len(all)}))

NextPage ==
  /\ walk.on /\ walk.more
  /\ walk' = [walk EXCEPT !.seen = @ \cup ToSet(Page(walk.skip, walk.key, walk.order)),
                          !.more = Cardinality(Open) > walk.skip + Take,
                          !.skip = @ + Take]
  /\ UNCHANGED <<rows, clock>>

Leave == walk.on /\ ~walk.more /\ walk' = NoWalk /\ UNCHANGED <<rows, clock>>

Next ==
  \/ \E p \in Projects, amount \in Amounts, mine \in {"client", "freelancer", "none"},
        due \in 1..2 : Post(p, amount, mine, due)
  \/ \E p \in Projects : Touch(p) \/ TakeOn(p) \/ Pay(p)
  \/ \E key \in SortKeys, order \in {"asc", "desc"} : StartWalk(key, order)
  \/ NextPage \/ Leave

Spec == Init /\ [][Next]_vars

-----------------------------------------------------------------------------
(* listProjectsForUser: the rows are cut by date, then sorted.              *)

Mine_AsClient(part) == {p \in Posted : rows[p].mine \in {"client", part}}
Mine(part) ==
  {p \in Posted : rows[p].mine \in (IF part = "any" THEN {"client", "freelancer"} ELSE {part})}

Cut(S, key, order) == LET all == ByDate(S, key, order) IN SubSeq(all, 1, Min({Take, Len(all)}))

(* computeNextDueAt: the earliest deadline of any milestone.                *)
NextDue(p) == rows[p].due

Before_Ascending(key, order, p, q) == rows[p].amount < rows[q].amount
Before(key, order, p, q) ==
  LET x == IF key = "deadline" THEN NextDue(p) ELSE rows[p].amount
      y == IF key = "deadline" THEN NextDue(q) ELSE rows[q].amount
  IN IF order = "asc" THEN x < y ELSE x > y

(* hasMore is false, whatever was cut.                                      *)
MyProjects(part, key, order) ==
  IF key \in {"createdAt", "updatedAt"} THEN Cut(Mine(part), key, order)
  ELSE SortSeq(Cut(Mine(part), "updatedAt", "desc"), LAMBDA p, q : Before(key, order, p, q))

-----------------------------------------------------------------------------
Parts == {"client", "freelancer", "any"}
Orders == {"asc", "desc"}

(* "default cursor lists return { items, nextCursor, hasMore }": a reader   *)
(* who follows the cursor to its end has seen every project that was open   *)
(* when the reading began and still is.                                     *)
NothingMissed == walk.on /\ ~walk.more => walk.owed \subseteq walk.seen

(* "Highest amount", "Lowest amount": no project of the user's comes before *)
(* the first one shown.                                                     *)
HighestFirst ==
  \A part \in Parts, order \in Orders :
    Mine(part) # {} =>
      LET first == Head(MyProjects(part, "amountWei", order)) IN
      \A p \in Mine(part) :
        IF order = "asc" THEN rows[first].amount <= rows[p].amount
        ELSE rows[first].amount >= rows[p].amount

(* hasMore being false, the list is all of the user's projects.             *)
NoneHidden ==
  \A part \in Parts, key \in {"createdAt", "updatedAt", "deadline", "amountWei"},
     order \in Orders :
    ToSet(MyProjects(part, key, order)) =
      {p \in Posted : rows[p].mine # "none" /\ part \in {rows[p].mine, "any"}}

(* "Next deadline": the deadline of the earliest milestone yet to be paid.       *)
LastDue == 3
NextDueIsAhead == \A p \in Posted : NextDue(p) = IF rows[p].paid THEN LastDue ELSE rows[p].due

TypeOK ==
  /\ clock \in 0..MaxClock /\ Posted \subseteq Projects
  /\ \A p \in Posted : rows[p].createdAt <= rows[p].updatedAt /\ rows[p].updatedAt < clock
  /\ \A p, q \in Posted : p # q => rows[p].updatedAt # rows[q].updatedAt
  /\ walk.on => walk.seen \cup walk.owed \subseteq Posted
=============================================================================
