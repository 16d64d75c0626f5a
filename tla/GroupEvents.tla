---------------------------- MODULE GroupEvents ----------------------------
(***************************************************************************)
(* Group events and their applications (backend/internal/groupevent/       *)
(* service.go), working on the trips of TripMembers: an event may be       *)
(* linked to a trip, and its approved applicants become trip members.      *)
(*                                                                         *)
(* An operation reads the event or the application outside its             *)
(* transaction (Read), asks the trip service inside it (Begin) and commits *)
(* (Commit).  Statements of other requests fall between the three; the     *)
(* writes of one transaction become visible together.  An error before the *)
(* commit, the database's or a refused check, rolls everything back        *)
(* (Abandon).                                                              *)
(*                                                                         *)
(* The host of an event is its creator and never changes, and every event  *)
(* is open: no operation writes either column again.                       *)
(***************************************************************************)
EXTENDS TripMembers, Integers

CONSTANTS Events,         \* event ids, each used once
          GroupRequests,  \* overlapping requests to the event service
          NoTrip,         \* linked_trip_id NULL
          OtherStatuses,  \* strings the code knows nothing of
          MaxApps         \* bound on applications ever inserted

ASSUME NoTripIsNoTrip == NoTrip \notin Trips
ASSUME MaxAppsIsCount == MaxApps \in Nat

VARIABLES
    event,     \* group_events: host, approval_required, linked_trip_id
    retired,   \* ids of deleted events
    apps,      \* group_event_applications
    nextApp,   \* the next application's place in created_at order
    greq       \* what each running request has read so far

groupVars == <<event, retired, apps, nextApp, greq>>
allVars == <<tripVars, groupVars>>

(* A host may set any string, since no handler calls Valid().              *)
Statuses == {"pending", "approved", "rejected"} \union OtherStatuses
NoApp == 0

EventRow == [host : Users \union {Nobody}, approval : BOOLEAN,
             link : Trips \union {NoTrip}]
NoEvent == [host |-> Nobody, approval |-> FALSE, link |-> NoTrip]

AppRow == [id : 1..MaxApps, event : Events, user : Users, status : Statuses]

(* host and link are the event's as loaded, user and status those of the   *)
(* application (status: to be written), evict and admit the member rows    *)
(* the transaction deletes from link and inserts into newLink.             *)
GroupRequest ==
    [op : {"apply", "cancel", "process", "delete", "relink"},
     phase : {"read", "begun"}, event : Events, host : Users,
     app : 0..MaxApps, user : Users, status : Statuses,
     link : Trips \union {NoTrip}, newLink : Trips \union {NoTrip},
     evict : SUBSET Users, admit : SUBSET Users]

GroupTypeOK ==
    /\ event \in [Events -> EventRow]
    /\ retired \in SUBSET Events
    /\ apps \in SUBSET AppRow
    /\ nextApp \in 1..(MaxApps + 1)
    /\ greq \in [GroupRequests -> GroupRequest \union {Idle}]

GroupInit ==
    /\ TripInit
    /\ event = [e \in Events |-> NoEvent]
    /\ retired = {}
    /\ apps = {}
    /\ nextApp = 1
    /\ greq = [g \in GroupRequests |-> Idle]

-----------------------------------------------------------------------------
EventExists(e) == event[e].host # Nobody
Linked(e) == event[e].link # NoTrip
Approved(e) == {x.user : x \in {y \in apps : y.event = e /\ y.status = "approved"}}

(* The status of the user's newest application, as GetEventByID reports it.*)
MyStatus(e, u) ==
    LET mine == {x \in apps : x.event = e /\ x.user = u}
    IN  {x.status : x \in {y \in mine : \A z \in mine : z.id <= y.id}}

(* A link is a foreign key. *)
LinkHolds(t) == t \in {NoTrip} \union {u \in Trips : Exists(u)}

CreateEvent(e, u, approval, link) ==
    /\ ~EventExists(e) /\ e \notin retired
    /\ LinkHolds(link)
    /\ event' = [event EXCEPT ![e] = [host |-> u, approval |-> approval, link |-> link]]
    /\ UNCHANGED <<tripVars, retired, apps, nextApp, greq>>

(* UpdateEvent writes the link it is sent and touches no member row.  Its  *)
(* check only asks for the host, which cannot change before the write.     *)
UpdateEvent(e, approval, link) ==
    /\ EventExists(e)
    /\ LinkHolds(link)
    /\ event' = [event EXCEPT ![e].approval = approval, ![e].link = link]
    /\ UNCHANGED <<tripVars, retired, apps, nextApp, greq>>

-----------------------------------------------------------------------------
(* The reads outside the transaction. *)

ReadEvent(g, op, e, app, user, status, newLink) ==
    /\ greq[g] = Idle
    /\ EventExists(e)
    /\ greq' = [greq EXCEPT ![g] =
          [op |-> op, phase |-> "read", event |-> e, host |-> event[e].host,
           app |-> app, user |-> user, status |-> status,
           link |-> event[e].link, newLink |-> newLink,
           evict |-> {}, admit |-> {}]]
    /\ UNCHANGED <<tripVars, event, retired, apps, nextApp>>

(* An event that needs no approval approves at once; and with the status   *)
(* of the event copied instead.                                            *)
EventStatus(e) == "open"
FirstStatus(e) == IF event[e].approval THEN "pending" ELSE "approved"

(* Refused to a user whose newest application is pending or approved. *)
ApplyRead(g, e, u) ==
    /\ MyStatus(e, u) \intersect {"pending", "approved"} = {}
    /\ ReadEvent(g, "apply", e, NoApp, u,
                 FirstStatus(e), event[e].link)

CancelRead(g, x) ==
    ReadEvent(g, "cancel", x.event, x.id, x.user, x.status, NoTrip)

(* Nothing restricts the status a host may set. *)
ProcessRead(g, x, status) ==
    ReadEvent(g, "process", x.event, x.id, x.user, status, event[x.event].link)

DeleteEventRead(g, e) ==
    ReadEvent(g, "delete", e, NoApp, event[e].host, "pending", NoTrip)

(* The host must be on the trip the event is to be linked to (GetTrip). *)
RelinkRead(g, e, newLink) ==
    /\ ReadEvent(g, "relink", e, NoApp, event[e].host, "pending", newLink)
    /\ newLink \in {NoTrip} \union {t \in Trips : RequireMember(t, event[e].host)}

-----------------------------------------------------------------------------
(* Inside the transaction: the checks of the trip service, on the trip as  *)
(* it is now, and the list of approved applicants.                         *)

InTransaction == {h \in GroupRequests : greq[h] # Idle /\ greq[h].phase = "begun"}

(* The first statement of a cancellation or a decision locks the row of    *)
(* the application, so that another one on it waits.                       *)
RowFree(app) == app \notin {greq[h].app : h \in InTransaction} \ {NoApp}

Begun(q, evict, admit) ==
    [q EXCEPT !.phase = "begun", !.evict = evict, !.admit = admit]

Begin(g, op, begun) ==
    /\ greq[g].op = op /\ greq[g].phase = "read"
    /\ RowFree(greq[g].app)
    /\ greq' = [greq EXCEPT ![g] = begun]
    /\ UNCHANGED <<tripVars, event, retired, apps>>

(* The new row refers to the event, and its created_at is the beginning of *)
(* the transaction.                                                        *)
ApplyBegin(g) ==
    LET q == greq[g]
        joining == IF q.status = "approved" /\ q.link # NoTrip THEN {q.user} ELSE {}
    IN
    /\ nextApp <= MaxApps
    /\ Begin(g, "apply", [Begun(q, {}, joining) EXCEPT !.app = nextApp])
    /\ EventExists(q.event)
    /\ \A u \in joining : RequireOwner(q.link, q.host)
    /\ nextApp' = nextApp + 1

(* The status decides as it was read; the link is read again.  The host is *)
(* the one who removes, so a host leaves like any member.                  *)
CancelBegin(g) ==
    LET q == greq[g]
        now == event[q.event].link
        leaving == IF q.status = "approved" /\ now # NoTrip THEN {q.user} ELSE {}
    IN
    /\ Begin(g, "cancel", [Begun(q, leaving, {}) EXCEPT !.link = now])
    /\ \A u \in leaving : MayRemove(now, q.host, u)
    /\ UNCHANGED nextApp

(* Any decision is accepted in any status of the application.  Only the    *)
(* two that the switch names touch the member rows.                        *)
ProcessBegin(g) ==
    LET q == greq[g]
        joining == IF q.link # NoTrip /\ q.status = "approved" THEN {q.user} ELSE {}
        leaving == IF q.link # NoTrip /\ q.status = "rejected" THEN {q.user} ELSE {}
    IN
    /\ Begin(g, "process", Begun(q, leaving, joining))
    /\ \A u \in joining : RequireOwner(q.link, q.host)
    /\ \A u \in leaving : MayRemove(q.link, q.host, u)
    /\ UNCHANGED nextApp

(* Whose trip membership ends with the event: every approved applicant;    *)
(* and, wrongly, none of them.                                             *)
KeepLeftovers(e) == {}
Dismissed(e) == Approved(e)

DeleteEventBegin(g) ==
    LET q == greq[g]
        leaving == IF q.link # NoTrip THEN Dismissed(q.event) ELSE {}
    IN
    /\ Begin(g, "delete", Begun(q, leaving, {}))
    /\ \A u \in leaving : RequireOwner(q.link, q.host)
    /\ UNCHANGED nextApp

(* Members move only from an old link: a first link admits nobody.  And    *)
(* with a change from one trip to another not thought of.                  *)
MovingOff(q) ==
    IF q.link # NoTrip /\ q.newLink = NoTrip THEN Approved(q.event) ELSE {}
Moving(q) == IF q.link \notin {NoTrip, q.newLink} THEN Approved(q.event) ELSE {}

RelinkBegin(g) ==
    LET q == greq[g]
        moving == Moving(q)
        joining == IF q.newLink = NoTrip THEN {} ELSE moving
    IN
    /\ Begin(g, "relink", Begun(q, moving, joining))
    /\ \A u \in moving : RequireOwner(q.link, q.host)
    /\ \A u \in joining : RequireOwner(q.newLink, q.host)
    /\ UNCHANGED nextApp

-----------------------------------------------------------------------------
(* The writes of the transaction become visible.  A foreign key that no    *)
(* longer holds leaves only Abandon.                                       *)

AfterEviction(q) ==
    IF q.evict = {} THEN role
    ELSE [role EXCEPT ![q.link] = WithoutMembers(@, q.evict)]

(* Evictions first, then admissions; and with the admissions forgotten. *)
MembersOnlyEvicted(q) == AfterEviction(q)
MembersAfter(q) ==
    IF q.admit = {} THEN AfterEviction(q)
    ELSE [AfterEviction(q) EXCEPT ![q.newLink] = WithMembers(@, q.admit)]

Commit(g, op) ==
    /\ greq[g].op = op /\ greq[g].phase = "begun"
    /\ \A u \in greq[g].admit : ForeignKeyHolds(greq[g].newLink)
    /\ role' = MembersAfter(greq[g])
    /\ greq' = [greq EXCEPT ![g] = Idle]
    /\ UNCHANGED <<owner, req, everOwner, raced, nextApp>>

ApplyCommit(g) ==
    LET q == greq[g] IN
    /\ Commit(g, "apply")
    /\ apps' = apps \union {[id |-> q.app, event |-> q.event, user |-> q.user,
                             status |-> q.status]}
    /\ UNCHANGED <<event, retired>>

CancelCommit(g) ==
    /\ Commit(g, "cancel")
    /\ apps' = {x \in apps : x.id # greq[g].app}
    /\ UNCHANGED <<event, retired>>

(* Updating the row of a cancelled application is no error. *)
ProcessCommit(g) ==
    LET q == greq[g] IN
    /\ Commit(g, "process")
    /\ apps' = {IF x.id = q.app THEN [x EXCEPT !.status = q.status] ELSE x : x \in apps}
    /\ UNCHANGED <<event, retired>>

(* Applications go with their event (ON DELETE CASCADE); and without.      *)
KeepOrphans(e) == apps
AppsWithout(e) == {x \in apps : x.event # e}

(* The last statement of the transaction waits for those that hold a row   *)
(* of an application.                                                      *)
DeleteEventCommit(g) ==
    LET e == greq[g].event IN
    /\ Commit(g, "delete")
    /\ {h \in InTransaction : greq[h].event = e /\ greq[h].app # NoApp} = {}
    /\ event' = [event EXCEPT ![e] = NoEvent]
    /\ retired' = retired \union {e}
    /\ apps' = AppsWithout(e)

RelinkCommit(g) ==
    LET q == greq[g] IN
    /\ Commit(g, "relink")
    /\ EventExists(q.event) => LinkHolds(q.newLink)
    /\ event' = IF EventExists(q.event)
                  THEN [event EXCEPT ![q.event].link = q.newLink]
                  ELSE event
    /\ UNCHANGED <<apps, retired>>

Abandon(g) ==
    /\ greq[g] # Idle
    /\ greq' = [greq EXCEPT ![g] = Idle]
    /\ UNCHANGED <<tripVars, event, retired, apps, nextApp>>

-----------------------------------------------------------------------------
(* Deleting trips clears the links to them (ON DELETE SET NULL).           *)
Unlinked(row, gone) == IF row.link \in gone THEN [row EXCEPT !.link = NoTrip] ELSE row

DeleteLinkedTrip ==
    /\ TripDeletion
    /\ event' = [e \in Events |-> Unlinked(event[e], {t \in Trips : owner'[t] = Nobody})]
    /\ UNCHANGED <<retired, apps, nextApp, greq>>

GroupNext ==
    \/ TripStep /\ UNCHANGED groupVars
    \/ DeleteLinkedTrip
    \/ \E e \in Events, link \in Trips \union {NoTrip}, approval \in BOOLEAN :
          \/ \E u \in Users : CreateEvent(e, u, approval, link)
          \/ UpdateEvent(e, approval, link)
    \/ \E g \in GroupRequests :
          \/ \E e \in Events :
                \/ \E u \in Users : ApplyRead(g, e, u)
                \/ DeleteEventRead(g, e)
                \/ \E newLink \in Trips \union {NoTrip} : RelinkRead(g, e, newLink)
          \/ \E x \in apps :
                \/ CancelRead(g, x)
                \/ \E status \in Statuses : ProcessRead(g, x, status)
          \/ ApplyBegin(g) \/ ApplyCommit(g)
          \/ CancelBegin(g) \/ CancelCommit(g)
          \/ ProcessBegin(g) \/ ProcessCommit(g)
          \/ DeleteEventBegin(g) \/ DeleteEventCommit(g)
          \/ RelinkBegin(g) \/ RelinkCommit(g)
          \/ Abandon(g)

GroupSpec == GroupInit /\ [][GroupNext]_allVars

-----------------------------------------------------------------------------
(* What the trip service promises alone holds under the requests of the    *)
(* event service too, which admit and remove members inside a transaction  *)
(* of their own: no members without a trip, no edit rights without having  *)
(* owned it.                                                               *)
TripsStaySound == NoMembersWithoutTrip /\ EditorsHaveOwned

(* What events and applications refer to is there, however deletions of    *)
(* trips and of events race with links and applications.                   *)
ReferencesExist ==
    /\ \A e \in Events : LinkHolds(event[e].link)
    /\ \A x \in apps : EventExists(x.event)

(* Everybody who comes to a trip was let in, and everybody put out of it   *)
(* was put out, by someone who has owned it, whether he acted on the trip  *)
(* or as the host of an event.  Otherwise one founds a trip or leaves it,  *)
(* or the trip is deleted.                                                 *)
OwnersDecide ==
    [][\A t \in Trips, u \in Users :
          LET done == {req[r].actor : r \in {r \in Requests : req[r] # Idle /\ req'[r] = Idle}}
              hosts == {greq[g].host : g \in {g \in GroupRequests :
                           greq[g] # Idle /\ greq'[g] = Idle
                           /\ t \in {greq[g].link, greq[g].newLink}}}
          IN
          /\ ~IsMember(t, u) /\ IsMember(t, u)' =>
                owner'[t] = u \/ (done \union hosts) \intersect everOwner[t] # {}
          /\ IsMember(t, u) /\ ~IsMember(t, u)' /\ Exists(t)' =>
                u \in done \union hosts \/ (done \union hosts) \intersect everOwner[t] # {}
      ]_allVars

(* What the transaction of a running request is going to write is decided, *)
(* and stays justified until it commits.                                   *)
WritesJustified ==
    \A g \in GroupRequests :
        LET q == greq[g] IN
        /\ q.op \in {"apply", "process"} => q.newLink = q.link
        /\ q.op = "apply" /\ q.phase = "begun" => EventExists(q.event) /\ q.app # NoApp
        /\ q # Idle /\ q.admit # {} => q.newLink \in Trips /\ q.host \in everOwner[q.newLink]
        /\ q # Idle /\ q.evict # {} =>
               /\ q.link \in Trips
               /\ \A u \in q.evict : u = q.host \/ q.host \in everOwner[q.link]

(* The inductive strengthening of the invariants above.                    *)
GroupInv ==
    /\ TripCore
    /\ GroupTypeOK
    /\ ReferencesExist
    /\ WritesJustified

-----------------------------------------------------------------------------
(* How many requests are under way, of either service, from the first read *)
(* to the end: one, or two that overlap.                                   *)
Running == {<<"trip", r>> : r \in {r \in Requests : req[r] # Idle}}
             \union {<<"event", g>> : g \in {g \in GroupRequests : greq[g] # Idle}}

OneAtATime ==
    Running # {} => Running' \subseteq Running /\ <<req, greq>>' # <<req, greq>>

SerialSpec == GroupInit /\ [][GroupNext /\ OneAtATime]_allVars

AtMostTwo == Cardinality(Running) <= 2

PairSpec == GroupInit /\ [][GroupNext /\ AtMostTwo']_allVars

(* Whoever becomes approved for a linked event is on its trip at the same  *)
(* moment (docs/security/PERMISSIONS.md, the flow of shared trips).        *)
ApprovalAdmits ==
    [][\A e \in Events, u \in Users :
          Linked(e) /\ u \in Approved(e)' \ Approved(e) => role'[event[e].link][u] # NoRole
      ]_allVars

(* Whoever's approval ends because he cancels, is rejected or the event is *)
(* deleted, is off its trip at the same moment - unless another            *)
(* application of his is still approved.  (ProcessApplication lets a host  *)
(* set any other status too, "pending" say: that ends the approval and     *)
(* leaves the member row, so those are not spoken of.)                     *)
LosingApprovalRevokes ==
    [][\A x \in apps :
          /\ Linked(x.event) /\ x.status = "approved"
          /\ \A y \in apps' : y.id = x.id => y.status = "rejected"
          /\ x.user \notin Approved(x.event)'
          => role'[event[x.event].link][x.user] = NoRole
      ]_allVars

(* UpdateTripLink takes everybody approved off the old trip and, when      *)
(* there is a new one, on to that one.                                     *)
RelinkMovesEverybody ==
    [][\A e \in Events, u \in Users :
          LET old == event[e].link
              new == event'[e].link
          IN  /\ greq' # greq /\ EventExists(e)'
              /\ old \notin {NoTrip, new} /\ u \in Approved(e)
              => role'[old][u] = NoRole /\ (new # NoTrip => role'[new][u] # NoRole)
      ]_allVars

(* An application is told by its id, and the ids are in the order of       *)
(* nextApp.                                                                *)
AppsNumbered ==
    /\ \A x \in apps : x.id < nextApp
    /\ \A x, y \in apps : x.id = y.id => x = y

(* Alone, a request finds the event and the application as it read them,   *)
(* and has decided on what is in the tables.                               *)
ReadingFresh ==
    \A g \in {g \in GroupRequests : greq[g] # Idle} :
        LET q == greq[g] IN
        /\ EventExists(q.event) /\ q.link = event[q.event].link
        /\ q.op \in {"cancel", "process"} =>
               \E x \in apps : /\ x.id = q.app /\ x.event = q.event /\ x.user = q.user
                               /\ q.op = "cancel" => x.status = q.status
        /\ q.op = "apply" /\ q.phase = "begun" =>
               q.app < nextApp /\ \A x \in apps : x.id # q.app

WritesComplete ==
    \A g \in {g \in GroupRequests : greq[g] # Idle /\ greq[g].phase = "begun"} :
        LET q == greq[g]
            decides == q.op \in {"apply", "process"} /\ q.link # NoTrip
        IN
        /\ q.admit = IF decides /\ q.status = "approved" THEN {q.user}
                     ELSE IF q.op = "relink" /\ q.newLink # NoTrip THEN Moving(q) ELSE {}
        /\ q.evict =
               CASE q.op = "process" /\ q.link # NoTrip /\ q.status = "rejected" -> {q.user}
                 [] q.op = "cancel" /\ q.link # NoTrip /\ q.status = "approved" -> {q.user}
                 [] q.op = "delete" /\ q.link # NoTrip -> Approved(q.event)
                 [] q.op = "relink" -> Moving(q)
                 [] OTHER -> {}

SerialInv ==
    /\ GroupInv
    /\ \A a, b \in Running : a = b
    /\ AppsNumbered
    /\ ReadingFresh
    /\ WritesComplete

=============================================================================
