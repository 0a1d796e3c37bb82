---------------------------- MODULE Notifications ----------------------------
(***************************************************************************)
(* Who is told of what happens to a project, and the bell that shows it.   *)
(* A service tells the parties after its own transaction, most of them     *)
(* without waiting for it; the rows of one happening are written by one    *)
(* statement.  The bell is a cached list that is fetched again after each  *)
(* of its own requests, in a browser whose session may change accounts     *)
(* from another window.                                                    *)
(***************************************************************************)
EXTENDS Naturals, Sequences, FiniteSets, SequencesExt

CONSTANTS
  Client, Freelancer, Applicants,  \* the parties; Applicants were not chosen
  Others,         \* further users
  Admins,         \* users that may hold the ADMIN role
  Past,           \* what has happened to the project before
  Limit,          \* notifications the bell shows
  Calls,          \* slots for mark-read requests: the buttons stay enabled
  MaxHappenings, MaxClicks, MaxSwitches  \* bounds

Users == {Client, Freelancer} \cup Applicants \cup Others

NotificationsAssumption ==
  Admins \subseteq Users /\ Limit \in Nat \ {0} /\ Client # Freelancer

VARIABLES
  happened,  \* what has happened, and what the service still has to tell of it
  inbox,     \* the rows: for whom, in what capacity, of what, read
  admins,    \* users that hold the ADMIN role
  session,   \* the account of the browser's cookie, and its past changes
  bell,      \* what the bell shows: rows, unread count, whose, as of which row
  fetch,     \* the fetch under way
  posts,     \* [Calls]: mark-read requests under way
  clicks

told == <<happened, inbox, admins>>
browser == <<session, bell, fetch, posts, clicks>>
vars == <<told, browser>>

None == [at |-> "idle"]

Init ==
  /\ happened = [events |-> Past, jobs |-> {}] /\ inbox = <<>>
  /\ admins \in SUBSET Admins
  /\ session \in [user : {Client, Freelancer}, switches : {0}]
  /\ bell = [shown |-> {}, unread |-> 0, user |-> session.user, upto |-> 0, broken |-> FALSE]
  /\ fetch = None /\ posts = [c \in Calls |-> None] /\ clicks = 0

-----------------------------------------------------------------------------
(* The services.                                                            *)

(* What must have happened first.                                           *)
Before(event) ==
  CASE event = "created"   -> {}
    [] event = "received"  -> {"created"}
    [] event = "accepted"  -> {"received"}
    [] event = "declined"  -> {"received"}
    [] event = "funded"    -> {"created"}
    [] event = "submitted" -> {"funded"}
    [] event = "approved"  -> {"submitted"}
    [] event = "released"  -> {"approved"}
    [] event = "disputed"  -> {"funded"}
    [] event = "resolved"  -> {"disputed"}

Events == {"created", "received", "accepted", "declined", "funded", "submitted",
           "approved", "released", "disputed", "resolved"}

(* Either party may open a dispute.                                         *)
Happen ==
  /\ Cardinality(happened.events \ Past) < MaxHappenings
  /\ \E event \in Events \ happened.events, by \in {Client, Freelancer} :
       /\ Before(event) \subseteq happened.events
       /\ event = "disputed" \/ by = Client
       /\ happened' = [events |-> happened.events \cup {event},
                       jobs |-> happened.jobs \cup {[event |-> event, by |-> by,
                                 at |-> IF event = "disputed" THEN "roles" ELSE "write",
                                 admins |-> {}]}]
  /\ UNCHANGED <<inbox, admins, browser>>

Concerned(event) ==
  CASE event = "received" -> {Client}
    [] event = "accepted" -> {Freelancer}
    [] event = "declined" -> Applicants
    [] OTHER              -> {Client, Freelancer}

(* The rows of one happening.  An administrator who is a party is told as   *)
(* both.                                                                    *)
NoticesOf(job) ==
  {[user |-> u, as |-> IF job.event = "disputed" /\ u = job.by THEN "opener" ELSE "party"] :
     u \in Concerned(job.event)}
  \cup {[user |-> u, as |-> "admin"] : u \in job.admins}

ReadAdmins(job) ==
  /\ job.at = "roles"
  /\ happened' = [happened EXCEPT !.jobs = (@ \ {job}) \cup
                    {[job EXCEPT !.at = "write", !.admins = admins]}]
  /\ UNCHANGED <<inbox, admins, browser>>

Rows(job, notices) ==
  LET seq == SetToSeq(notices) IN
  [k \in DOMAIN seq |-> [to |-> seq[k], of |-> job.event, read |-> FALSE]]

CreateNotifications_OneByOne(job) ==
  /\ job.at = "write"
  /\ LET left == {n \in NoticesOf(job) : \A k \in DOMAIN inbox :
                    ~(inbox[k].of = job.event /\ inbox[k].to = n)} IN
     IF left = {} THEN happened' = [happened EXCEPT !.jobs = @ \ {job}] /\ UNCHANGED inbox
     ELSE \E n \in left : inbox' = inbox \o Rows(job, {n}) /\ UNCHANGED happened
  /\ UNCHANGED <<admins, browser>>
CreateNotifications(job) ==
  /\ job.at = "write"
  /\ inbox' = inbox \o Rows(job, NoticesOf(job))
  /\ happened' = [happened EXCEPT !.jobs = @ \ {job}]
  /\ UNCHANGED <<admins, browser>>

(* The process stops, or the statement fails and its failure is dropped.    *)
LoseNotice(job) ==
  /\ happened' = [happened EXCEPT !.jobs = @ \ {job}]
  /\ UNCHANGED <<inbox, admins, browser>>

(* The role mirror follows the contract (RoleMirror).                       *)
ChangeRoles ==
  /\ \E u \in Admins : admins' = IF u \in admins THEN admins \ {u} ELSE admins \cup {u}
  /\ Cardinality(happened.jobs) > 0
  /\ UNCHANGED <<happened, inbox, browser>>

-----------------------------------------------------------------------------
(* The list.                                                                *)

Of(user) == {k \in DOMAIN inbox : inbox[k].to.user = user}
Unread(user) == {k \in Of(user) : ~inbox[k].read}

Newest(rows) == {k \in rows : Cardinality({j \in rows : j > k}) < Limit}

Fetch == fetch' = [at |-> "sent", user |-> session.user]

(* A stale list is fetched when the page is looked at again.                *)
Refetch ==
  /\ fetch.at = "idle"
  /\ bell.upto # Len(inbox) \/ bell.user # session.user \/ bell.broken
  /\ Fetch
  /\ UNCHANGED <<told, session, bell, posts, clicks>>

(* The rows, then the count: each statement sees what is committed by then. *)
ListRows ==
  /\ fetch.at = "sent"
  /\ fetch' = [at |-> "listed", user |-> fetch.user,
               shown |-> {[row |-> k, read |-> inbox[k].read] : k \in Newest(Of(fetch.user))}]
  /\ UNCHANGED <<told, session, bell, posts, clicks>>

CountShown_FromItems(shown, user) == Cardinality({item \in shown : ~item.read})
CountShown(shown, user) == Cardinality(Unread(user))

CountRows ==
  /\ fetch.at = "listed"
  /\ fetch' = [at |-> "answer", user |-> fetch.user, shown |-> fetch.shown,
               unread |-> CountShown(fetch.shown, fetch.user), upto |-> Len(inbox)]
  /\ UNCHANGED <<told, session, bell, posts, clicks>>

ShowList ==
  /\ fetch.at = "answer" /\ fetch' = None
  /\ bell' = [shown |-> fetch.shown, unread |-> fetch.unread, user |-> fetch.user,
              upto |-> fetch.upto, broken |-> FALSE]
  /\ UNCHANGED <<told, session, posts, clicks>>

(* The fetch and its one retry fail: the bell shows what it showed.         *)
LoseList ==
  /\ fetch.at # "idle" /\ ~bell.broken /\ fetch' = None
  /\ bell' = [bell EXCEPT !.broken = TRUE]
  /\ UNCHANGED <<told, session, posts, clicks>>

-----------------------------------------------------------------------------
(* Marking as read.                                                         *)

Send(c, request) ==
  /\ posts[c].at = "idle" /\ clicks < MaxClicks /\ clicks' = clicks + 1
  /\ posts' = [posts EXCEPT ![c] = request]
  /\ UNCHANGED <<told, session, bell, fetch>>

(* The button is there beside every item shown unread.                      *)
MarkRead(c) == \E item \in bell.shown :
  /\ ~item.read
  /\ Send(c, [at |-> "find", row |-> item.row, user |-> session.user])
MarkAllRead(c) == Send(c, [at |-> "all", user |-> session.user])

MayFind_Anyones(user, k) == TRUE
MayFind(user, k) == inbox[k].to.user = user

(* One's own row, or 404.                                                   *)
FindRow(c) ==
  /\ posts[c].at = "find"
  /\ posts' = [posts EXCEPT ![c] =
       IF MayFind(@.user, @.row)
       THEN [at |-> "update", row |-> @.row, user |-> @.user, was |-> inbox[@.row].read]
       ELSE [at |-> "answer"]]
  /\ UNCHANGED <<told, session, bell, fetch, clicks>>

(* readAt: the time the row was found with, if any.                         *)
ReadAfter_Toggled(was) == ~was
ReadAfter(was) == TRUE

UpdateRow(c) ==
  /\ posts[c].at = "update"
  /\ inbox' = [inbox EXCEPT ![posts[c].row].read = ReadAfter(posts[c].was)]
  /\ posts' = [posts EXCEPT ![c] = [at |-> "answer"]]
  /\ UNCHANGED <<happened, admins, session, bell, fetch, clicks>>

UpdateAll(c) ==
  /\ posts[c].at = "all"
  /\ inbox' = [k \in DOMAIN inbox |->
                 IF k \in Unread(posts[c].user) THEN [inbox[k] EXCEPT !.read = TRUE] ELSE inbox[k]]
  /\ posts' = [posts EXCEPT ![c] = [at |-> "answer"]]
  /\ UNCHANGED <<happened, admins, session, bell, fetch, clicks>>

(* Whatever the status, the list is fetched anew; a fetch that is out is    *)
(* given up for it.                                                         *)
Invalidate_Joins == IF fetch.at = "idle" THEN Fetch ELSE UNCHANGED fetch
Invalidate == Fetch

HearMarked(c) ==
  /\ posts[c].at = "answer" /\ posts' = [posts EXCEPT ![c] = None]
  /\ Invalidate
  /\ UNCHANGED <<told, session, bell, clicks>>

(* The request breaks: nothing is fetched.                                  *)
LoseMarked(c) ==
  /\ posts[c].at \in {"find", "all", "answer"} /\ posts' = [posts EXCEPT ![c] = None]
  /\ bell' = [bell EXCEPT !.broken = TRUE]
  /\ UNCHANGED <<told, session, fetch, clicks>>

(* Another account signs in from another window.                            *)
SwitchAccount ==
  /\ session.switches < MaxSwitches
  /\ \E u \in {Client, Freelancer} \ {session.user} :
       session' = [user |-> u, switches |-> session.switches + 1]
  /\ UNCHANGED <<told, bell, fetch, posts, clicks>>

ServiceStep ==
  \/ Happen \/ ChangeRoles
  \/ \E job \in happened.jobs : ReadAdmins(job) \/ CreateNotifications(job) \/ LoseNotice(job)
ListStep == Refetch \/ ListRows \/ CountRows \/ ShowList \/ LoseList
MarkStep == \E c \in Calls :
  MarkRead(c) \/ MarkAllRead(c) \/ FindRow(c) \/ UpdateRow(c) \/ UpdateAll(c)
  \/ HearMarked(c) \/ LoseMarked(c)

Next == ServiceStep \/ ListStep \/ MarkStep \/ SwitchAccount

Spec == Init /\ [][Next]_vars

(* The server runs on; nobody has to look at the page again.                *)
Fairness ==
  /\ WF_vars(ListRows) /\ WF_vars(CountRows) /\ WF_vars(ShowList)
  /\ \A c \in Calls : WF_vars(UpdateRow(c)) /\ WF_vars(HearMarked(c))

FairSpec == Spec /\ Fairness

-----------------------------------------------------------------------------
(* All who are concerned by a happening are told, or nobody is, even when   *)
(* the process stops in between, and nobody is told twice as a party.       *)
ToldTogether ==
  \A event \in happened.events :
    LET notices == {k \in DOMAIN inbox : inbox[k].of = event /\ inbox[k].to.as # "admin"} IN
    notices # {} => /\ {inbox[k].to.user : k \in notices} = Concerned(event)
                    /\ Cardinality(notices) = Cardinality(Concerned(event))

(* A notification that was read stays read, however clicks, a second click  *)
(* and "Mark all read" overlap.                                             *)
ReadStaysRead == \A k \in DOMAIN inbox : inbox[k].read => inbox'[k].read

(* Only a request of the account it is addressed to makes a row read: the   *)
(* bell may still show the rows of the account that was signed in before.   *)
ReadByOwner ==
  \A k \in DOMAIN inbox : ~inbox[k].read /\ inbox'[k].read =>
     \E c \in Calls : posts[c].at \in {"update", "all"} /\ posts[c].user = inbox[k].to.user

(* The badge hides nothing: it counts at least the rows that were there     *)
(* when it was counted and are still unread, shown in the list or not.      *)
BadgeHidesNothing ==
  bell.unread >= Cardinality({k \in Unread(bell.user) : k <= bell.upto})

(* What was marked read is eventually shown so, however the answer and a    *)
(* fetch that was already out overtake each other; a page that lost an      *)
(* answer, or changed accounts, waits to be looked at again.                *)
MarkedIsShown ==
  \A k \in 1..MaxHappenings * 2 :
    (\E c \in Calls : posts[c].at = "update" /\ posts[c].row = k)
    ~> ([row |-> k, read |-> FALSE] \notin bell.shown \/ bell.broken \/ session.switches > 0)

TypeOK ==
  /\ happened.events \subseteq Events
  /\ \A k \in DOMAIN inbox : inbox[k].to.user \in Users /\ inbox[k].of \in happened.events
  /\ admins \subseteq Admins /\ session.user \in {Client, Freelancer}
  /\ \A item \in bell.shown : item.row \in Of(bell.user) /\ item.row <= bell.upto
  /\ bell.upto <= Len(inbox) /\ clicks <= MaxClicks
  /\ fetch.at \in {"idle", "sent", "listed", "answer"}
  /\ \A c \in Calls : posts[c].at \in {"idle", "find", "update", "all", "answer"}
=============================================================================
