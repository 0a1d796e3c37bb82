---------------------------- MODULE Applications ----------------------------
(***************************************************************************)
(* Marketplace applications: freelancers apply to a public project and     *)
(* withdraw, its client accepts one application and declines others        *)
(* (project-application-service.ts), and the parties are notified.         *)
(*                                                                         *)
(* Each request awaits the database between the actions below.  Outside    *)
(* acceptProjectApplication every statement commits by itself.  Accepting  *)
(* is one interactive transaction of PostgreSQL at READ COMMITTED: its     *)
(* statements read what is committed at that moment, its writes lock their *)
(* rows and become visible when it commits.                                *)
(***************************************************************************)
EXTENDS FiniteSets

CONSTANTS
  Freelancers,           \* users with the FREELANCER role
  Client,                \* the project's owner
  ClientRequests,        \* requests the client may have in progress at once
  FreelancerRequests,    \* and the freelancers
  MayFail,               \* whether requests time out, crash or are cut off
  None                   \* SQL null

Requests == ClientRequests \cup FreelancerRequests

ApplicationsAssumption ==
  /\ Client \notin Freelancers /\ None \notin Freelancers \cup Requests
  /\ ClientRequests \cap FreelancerRequests = {}
  /\ MayFail \in BOOLEAN

VARIABLES
  project,       \* the project's row: status and freelancerUserId
  application,   \* [freelancer]: status of their project_applications row
  locked,        \* [freelancer]: the transaction that has written that row
  request,       \* [request]: where it stands and what it has read
  notices        \* rows of notifications

vars == <<project, application, locked, request, notices>>

IdleRequest == [at |-> "idle", of |-> None, others |-> {}, declined |-> {}]

Init ==
  /\ project = [status |-> "OPEN", freelancer |-> None]
  /\ application = [f \in Freelancers |-> None]
  /\ locked = [f \in Freelancers |-> None]
  /\ request = [r \in Requests |-> IdleRequest]
  /\ notices = {}

Notice(to, event, of) == [to |-> to, event |-> event, of |-> of]
At(r, place) == request[r].at = place
Move(r, place) == request' = [request EXCEPT ![r].at = place]
Answer(r) == request' = [request EXCEPT ![r] = IdleRequest]
Unlocked(f) == locked[f] = None

-----------------------------------------------------------------------------
(* Mutant: a project that has its freelancer still takes applications. *)
IsPublicMarketplaceListing_Always == TRUE

(* The project is public throughout. *)
IsPublicMarketplaceListing == project.status = "OPEN" /\ project.freelancer = None

Pending(f) == application[f] = "PENDING"

Start(r, f, place) ==
  request' = [request EXCEPT ![r] = [IdleRequest EXCEPT !.at = place, !.of = f]]

(* applyToProject: the listing is read, then the row is created under the   *)
(* key (projectId, freelancerUserId), then the client is told.              *)
ApplyToProject(r, f) ==
  /\ At(r, "idle") /\ IsPublicMarketplaceListing
  /\ Start(r, f, "create")
  /\ UNCHANGED <<project, application, locked, notices>>

CreateApplication(r) ==
  LET f == request[r].of IN
  /\ At(r, "create")
  /\ IF application[f] = None
     THEN /\ application' = [application EXCEPT ![f] = "PENDING"]
          /\ Move(r, "received")
     ELSE /\ Answer(r)        \* P2002: APPLICATION_ALREADY_EXISTS
          /\ UNCHANGED application
  /\ UNCHANGED <<project, locked, notices>>

NotifyReceived(r) ==
  /\ At(r, "received")
  /\ notices' = notices
       \cup {Notice(Client, "PROJECT_APPLICATION_RECEIVED", request[r].of)}
  /\ Answer(r)
  /\ UNCHANGED <<project, application, locked>>

(* withdrawProjectApplication: the status is read, then written by id. *)
WithdrawProjectApplication(r, f) ==
  /\ At(r, "idle") /\ Pending(f)
  /\ Start(r, f, "withdraw")
  /\ UNCHANGED <<project, application, locked, notices>>

WriteWithdrawn(r) ==
  LET f == request[r].of IN
  /\ At(r, "withdraw") /\ Unlocked(f)
  /\ application' = [application EXCEPT ![f] = "WITHDRAWN"]
  /\ Answer(r)
  /\ UNCHANGED <<project, locked, notices>>

-----------------------------------------------------------------------------
(* declineProjectApplication: the same, and the freelancer is told. *)
DeclineProjectApplication(r, f) ==
  /\ At(r, "idle") /\ Pending(f)
  /\ Start(r, f, "decline")
  /\ UNCHANGED <<project, application, locked, notices>>

WriteDeclined(r) ==
  LET f == request[r].of IN
  /\ At(r, "decline") /\ Unlocked(f)
  /\ application' = [application EXCEPT ![f] = "DECLINED"]
  /\ request' = [request EXCEPT ![r].at = "declined", ![r].others = {f}]
  /\ UNCHANGED <<project, locked, notices>>

NotifyDeclined(r) ==
  /\ At(r, "declined")
  /\ notices' = notices
       \cup {Notice(f, "PROJECT_APPLICATION_DECLINED", f) : f \in request[r].others}
  /\ Answer(r)
  /\ UNCHANGED <<project, application, locked>>

(* acceptProjectApplication: the project is read and must be listed, *)
AcceptProjectApplication(r, f) ==
  /\ At(r, "idle") /\ IsPublicMarketplaceListing
  /\ Start(r, f, "read")
  /\ UNCHANGED <<project, application, locked, notices>>

(* the application is read and must be pending, *)
ReadApplication(r) ==
  /\ At(r, "read")
  /\ IF Pending(request[r].of) THEN Move(r, "accept") ELSE Answer(r)
  /\ UNCHANGED <<project, application, locked, notices>>

(* it is written by id, *)
WriteAccepted(r) ==
  LET f == request[r].of IN
  /\ At(r, "accept") /\ Unlocked(f)
  /\ locked' = [locked EXCEPT ![f] = r]
  /\ Move(r, "others")
  /\ UNCHANGED <<project, application, notices>>

OtherPending(r) == {g \in Freelancers \ {request[r].of} : Pending(g)}

(* those to tell of the other applications are read, *)
FindOthers(r) ==
  /\ At(r, "others")
  /\ request' = [request EXCEPT ![r].at = "decline_others",
                                ![r].others = OtherPending(r)]
  /\ UNCHANGED <<project, application, locked, notices>>

(* the other pending applications are declined, *)
DeclineOthers(r) ==
  /\ At(r, "decline_others") /\ \A g \in OtherPending(r) : Unlocked(g)
  /\ locked' = [g \in Freelancers |-> IF g \in OtherPending(r) THEN r ELSE locked[g]]
  /\ request' = [request EXCEPT ![r].at = "assign", ![r].declined = OtherPending(r)]
  /\ UNCHANGED <<project, application, notices>>

ReleaseLocks(r) ==
  locked' = [f \in Freelancers |-> IF locked[f] = r THEN None ELSE locked[f]]

(* and the project gets its freelancer; the transaction commits. *)
CommitAccept(r) ==
  LET f == request[r].of IN
  /\ At(r, "assign")
  /\ application' = [g \in Freelancers |->
       CASE g = f -> "ACCEPTED"
         [] g \in request[r].declined -> "DECLINED"
         [] OTHER -> application[g]]
  /\ project' = [status |-> "AWAITING_ESCROW", freelancer |-> f]
  /\ ReleaseLocks(r)
  /\ Move(r, "accepted")
  /\ UNCHANGED notices

(* Mutant: the notifications are sent from within the transaction. *)
NotifyAccepted_BeforeCommit(r) ==
  /\ At(r, "accepted") \/ At(r, "assign")
  /\ notices' = notices
       \cup {Notice(request[r].of, "PROJECT_APPLICATION_ACCEPTED", request[r].of)}
  /\ IF At(r, "assign") THEN UNCHANGED request ELSE Move(r, "declined")
  /\ UNCHANGED <<project, application, locked>>

(* The notifications follow, the accepted one first. *)
NotifyAccepted(r) ==
  /\ At(r, "accepted")
  /\ notices' = notices
       \cup {Notice(request[r].of, "PROJECT_APPLICATION_ACCEPTED", request[r].of)}
  /\ Move(r, "declined")
  /\ UNCHANGED <<project, application, locked>>

(* A request ends early: its transaction times out or is the victim of a   *)
(* deadlock, a notification fails, the process stops.                      *)
Fail(r) ==
  /\ MayFail /\ ~At(r, "idle")
  /\ ReleaseLocks(r)
  /\ Answer(r)
  /\ UNCHANGED <<project, application, notices>>

-----------------------------------------------------------------------------
FreelancerStep(r) ==
  \/ \E f \in Freelancers : ApplyToProject(r, f) \/ WithdrawProjectApplication(r, f)
  \/ CreateApplication(r) \/ NotifyReceived(r) \/ WriteWithdrawn(r)

ClientStep(r) ==
  \/ \E f \in Freelancers : AcceptProjectApplication(r, f) \/ DeclineProjectApplication(r, f)
  \/ ReadApplication(r) \/ WriteAccepted(r) \/ FindOthers(r) \/ DeclineOthers(r)
  \/ CommitAccept(r) \/ NotifyAccepted(r)
  \/ WriteDeclined(r) \/ NotifyDeclined(r)

Next ==
  \/ \E r \in FreelancerRequests : FreelancerStep(r)
  \/ \E r \in ClientRequests : ClientStep(r)
  \/ \E r \in Requests : Fail(r)

Spec == Init /\ [][Next]_vars

-----------------------------------------------------------------------------
Statuses == {"PENDING", "ACCEPTED", "DECLINED", "WITHDRAWN"}
Places == {"idle", "create", "received", "withdraw", "decline", "declined", "read",
           "accept", "others", "decline_others", "assign", "accepted"}

(* Type invariant of marketplace applications. *)
TypeOK ==
  /\ project \in [status : {"OPEN", "AWAITING_ESCROW"}, freelancer : Freelancers \cup {None}]
  /\ application \in [Freelancers -> Statuses \cup {None}]
  /\ locked \in [Freelancers -> ClientRequests \cup {None}]
  /\ request \in [Requests -> [at : Places, of : Freelancers \cup {None},
                               others : SUBSET Freelancers, declined : SUBSET Freelancers]]
  /\ notices \subseteq [to : Freelancers \cup {Client},
       event : {"PROJECT_APPLICATION_RECEIVED", "PROJECT_APPLICATION_ACCEPTED",
                "PROJECT_APPLICATION_DECLINED"}, of : Freelancers]

(* "Freelancers can apply until you accept one": only the application of    *)
(* the project's freelancer is ever accepted, so whoever else applied is    *)
(* free to look elsewhere.                                                  *)
OneAccepted == \A f \in Freelancers : application[f] = "ACCEPTED" => project.freelancer = f

(* Nobody is told of an acceptance that did not happen or does not stand:   *)
(* the notice reaches the project's freelancer and no one else, although    *)
(* the transaction may abort at any of its statements.                      *)
AcceptanceNoticesAreTrue ==
  \A n \in notices :
    n.event = "PROJECT_APPLICATION_ACCEPTED" => project.freelancer = n.to

(* "Only pending applications can be" accepted, declined or withdrawn. *)
OnlyPendingIsDecided ==
  [][\A f \in Freelancers :
       application'[f] # application[f] => application[f] \in {None, "PENDING"}]_vars

(* "One in-app notification per declined freelancer": once the requests     *)
(* have been answered, every declined freelancer has been told.             *)
DeclinedAreTold ==
  (\A r \in Requests : At(r, "idle")) =>
    \A f \in Freelancers : application[f] = "DECLINED" =>
      Notice(f, "PROJECT_APPLICATION_DECLINED", f) \in notices
=============================================================================
