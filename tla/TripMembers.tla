---------------------------- MODULE TripMembers ----------------------------
(***************************************************************************)
(* Ownership and membership of trips: the rows of "trips" (user_id) and    *)
(* "trip_members" (role_code) under the operations of backend/internal/    *)
(* trip/service.go.                                                        *)
(*                                                                         *)
(* Every operation but CreateTrip loads the trip first, decides on what it *)
(* read, and writes later, in a statement or a transaction of its own.     *)
(* The database runs at READ COMMITTED, so requests of other users commit  *)
(* in between: an operation is a Check step that keeps what was read in    *)
(* req, and a Write step that trusts it.  A check that fails answers with  *)
(* an error and changes nothing, so it is no step at all.                  *)
(*                                                                         *)
(* The transaction of TransferOwnership is one step: its first statement   *)
(* locks the row of the trip and the others touch one member row each, so  *)
(* a statement of another request that commits in between could as well    *)
(* have committed before it.                                               *)
(***************************************************************************)
EXTENDS FiniteSets

CONSTANTS Users,     \* accounts
          Trips,     \* trip ids; an id is never handed out twice
          Requests,  \* requests the server works on at the same time
          Nobody     \* the owner of a trip that has no row

ASSUME NobodyIsNoUser == Nobody \notin Users

VARIABLES
    owner,      \* trips.user_id
    role,       \* trip_members.role_code, NoRole where there is no row
    req,        \* what each running request has read so far
    everOwner,  \* history: who has owned the trip
    raced       \* history: trips written to on a reading gone stale

tripVars == <<owner, role, req, everOwner, raced>>

Roles == {"leader", "guide", "member"}
NoRole == "none"

(* Roles a stepping-down owner may ask for.                                *)
StepDownRoles == {"guide", "member"}

Idle == [op |-> "idle"]

(* seen is the owner in the row the request loaded, memberSeen whether a   *)
(* transfer found its target among the members.                            *)
Pending == [op : {"add", "remove", "delete", "transfer?", "transfer"},
            trip : Trips, actor : Users, target : Users, seen : Users,
            newRole : StepDownRoles, memberSeen : BOOLEAN]

TripTypeOK ==
    /\ owner \in [Trips -> Users \union {Nobody}]
    /\ role \in [Trips -> [Users -> Roles \union {NoRole}]]
    /\ req \in [Requests -> Pending \union {Idle}]
    /\ everOwner \in [Trips -> SUBSET Users]
    /\ raced \in SUBSET Trips

TripInit ==
    /\ owner = [t \in Trips |-> Nobody]
    /\ role = [t \in Trips |-> [u \in Users |-> NoRole]]
    /\ req = [r \in Requests |-> Idle]
    /\ everOwner = [t \in Trips |-> {}]
    /\ raced = {}

-----------------------------------------------------------------------------
(* The member rows of one trip, as functions from users to roles. *)

Exists(t) == owner[t] # Nobody
IsMember(t, u) == role[t][u] # NoRole

(* INSERT ... ON CONFLICT DO NOTHING, one user or many: role_code defaults *)
(* to 'member', and an existing row keeps its role.                        *)
WithMembers(rows, S) ==
    [u \in Users |-> IF u \in S /\ rows[u] = NoRole THEN "member" ELSE rows[u]]

(* DELETE of the rows of S. *)
WithoutMembers(rows, S) == [u \in Users |-> IF u \in S THEN NoRole ELSE rows[u]]

(* UPDATE ... SET role_code: without a row there is nothing to update. *)
WithRole(rows, u, newRole) ==
    IF rows[u] = NoRole THEN rows ELSE [rows EXCEPT ![u] = newRole]

(* The two role updates of a transfer; and with the second one forgotten.  *)
HandOverHalf(rows, from, to, newRole) == WithRole(rows, to, "leader")
HandOver(rows, from, to, newRole) ==
    WithRole(WithRole(rows, to, "leader"), from, newRole)

(* A member row refers to its trip; and without the foreign key. *)
NoForeignKey(t) == TRUE
ForeignKeyHolds(t) == Exists(t)

(* Access checks on the trip as loaded; and with any member in the place   *)
(* of the owner, or anybody.                                               *)
RequireTrip(t, u) == Exists(t)
RequireAnyMember(t, u) == Exists(t) /\ IsMember(t, u)
RequireOwner(t, u) == Exists(t) /\ owner[t] = u
RequireMember(t, u) == Exists(t) /\ (owner[t] = u \/ IsMember(t, u))

(* GetRole answers "" without an error for a user who has no row, so the   *)
(* fallback for an owner outside the member table is never taken.          *)
RequireRole(t, u, allowed) == Exists(t) /\ role[t][u] \in allowed

(* A member may leave; only the owner removes others; nobody removes the   *)
(* owner.  And without the last rule.                                      *)
MayRemoveAnybody(t, actor, target) ==
    Exists(t) /\ (actor = target \/ RequireOwner(t, actor))
MayRemove(t, actor, target) ==
    /\ Exists(t)
    /\ actor # target => RequireOwner(t, actor)
    /\ owner[t] # target

(* UpdateTrip and the itinerary operations ask for leader or guide. *)
MayEdit(t, u) == RequireRole(t, u, {"leader", "guide"})

-----------------------------------------------------------------------------
(* The trip and its owner's member row are one transaction. *)
CreateTrip(t, u) ==
    /\ everOwner[t] = {}
    /\ owner' = [owner EXCEPT ![t] = u]
    /\ role' = [role EXCEPT ![t][u] = "leader"]
    /\ everOwner' = [everOwner EXCEPT ![t] = {u}]
    /\ UNCHANGED <<req, raced>>

(* Keep the reading of request r in req. *)
Load(r, op, t, actor, target, newRole) ==
    /\ req[r] = Idle
    /\ req' = [req EXCEPT ![r] =
                  [op |-> op, trip |-> t, actor |-> actor, target |-> target,
                   seen |-> owner[t], newRole |-> newRole,
                   memberSeen |-> FALSE]]
    /\ UNCHANGED <<owner, role, everOwner, raced>>

(* AddMember and InviteMemberByEmail ask for the owner. *)
AddMemberCheck(r, t, actor, target) ==
    /\ RequireOwner(t, actor)
    /\ Load(r, "add", t, actor, target, "member")

RemoveMemberCheck(r, t, actor, target) ==
    /\ MayRemove(t, actor, target)
    /\ Load(r, "remove", t, actor, target, "member")

DeleteTripCheck(r, t, actor) ==
    /\ RequireOwner(t, actor)
    /\ Load(r, "delete", t, actor, actor, "member")

TransferCheckOwner(r, t, actor, target, newRole) ==
    /\ RequireOwner(t, actor)
    /\ target # actor
    /\ Load(r, "transfer?", t, actor, target, newRole)

(* The target's membership is a second query. *)
TransferCheckMember(r) ==
    /\ req[r].op = "transfer?"
    /\ IsMember(req[r].trip, req[r].target)
    /\ req' = [req EXCEPT ![r].op = "transfer", ![r].memberSeen = TRUE]
    /\ UNCHANGED <<owner, role, everOwner, raced>>

-----------------------------------------------------------------------------
(* What the check of request r relied on is no longer so. *)
Stale(r) ==
    \/ owner[req[r].trip] # req[r].seen
    \/ /\ req[r].op = "transfer"
       /\ IsMember(req[r].trip, req[r].target) # req[r].memberSeen

Finish(r) ==
    /\ req' = [req EXCEPT ![r] = Idle]
    /\ raced' = IF Stale(r) THEN raced \union {req[r].trip} ELSE raced

(* The insert violates the foreign key when the trip is gone. *)
AddMemberWrite(r) ==
    LET t == req[r].trip IN
    /\ req[r].op = "add"
    /\ role' = IF ForeignKeyHolds(t)
                 THEN [role EXCEPT ![t] = WithMembers(@, {req[r].target})]
                 ELSE role
    /\ Finish(r)
    /\ UNCHANGED <<owner, everOwner>>

RemoveMemberWrite(r) ==
    /\ req[r].op = "remove"
    /\ role' = [role EXCEPT ![req[r].trip] = WithoutMembers(@, {req[r].target})]
    /\ Finish(r)
    /\ UNCHANGED <<owner, everOwner>>

(* Member rows go with the trip (ON DELETE CASCADE). *)
DeleteTripWrite(r) ==
    LET t == req[r].trip IN
    /\ req[r].op = "delete"
    /\ owner' = [owner EXCEPT ![t] = Nobody]
    /\ role' = [role EXCEPT ![t] = WithoutMembers(@, Users)]
    /\ Finish(r)
    /\ UNCHANGED everOwner

(* UpdateOwner does not look at the owner it replaces.  When the trip is   *)
(* gone, loading it at the end fails and the transaction rolls back.       *)
TransferWrite(r) ==
    LET t == req[r].trip
        q == req[r]
    IN
    /\ q.op = "transfer"
    /\ IF Exists(t)
         THEN /\ owner' = [owner EXCEPT ![t] = q.target]
              /\ role' = [role EXCEPT ![t] =
                            HandOver(@, q.actor, q.target, q.newRole)]
              /\ everOwner' = [everOwner EXCEPT ![t] = @ \union {q.target}]
         ELSE UNCHANGED <<owner, role, everOwner>>
    /\ Finish(r)

(* The request times out, its client goes away, the database refuses, or   *)
(* a later check fails: nothing was written.                               *)
GiveUp(r) ==
    /\ req[r] # Idle
    /\ req' = [req EXCEPT ![r] = Idle]
    /\ UNCHANGED <<owner, role, everOwner, raced>>

-----------------------------------------------------------------------------
TripStep ==
    \/ \E t \in Trips, u \in Users : CreateTrip(t, u)
    \/ \E r \in Requests, t \in Trips, actor, target \in Users :
          \/ AddMemberCheck(r, t, actor, target)
          \/ RemoveMemberCheck(r, t, actor, target)
          \/ \E newRole \in StepDownRoles :
                TransferCheckOwner(r, t, actor, target, newRole)
    \/ \E r \in Requests, t \in Trips, actor \in Users :
          DeleteTripCheck(r, t, actor)
    \/ \E r \in Requests :
          \/ TransferCheckMember(r)
          \/ AddMemberWrite(r)
          \/ RemoveMemberWrite(r)
          \/ TransferWrite(r)
          \/ GiveUp(r)

TripDeletion == \E r \in Requests : DeleteTripWrite(r)

TripNext == TripStep \/ TripDeletion

TripSpec == TripInit /\ [][TripNext]_tripVars

-----------------------------------------------------------------------------
(* A deleted trip keeps no members, however an invitation raced the        *)
(* deletion (DeleteTrip against AddMember).                                *)
NoMembersWithoutTrip ==
    \A t \in Trips, u \in Users : IsMember(t, u) => Exists(t)

(* Edit rights come from having owned the trip: leader is given at         *)
(* creation and by a transfer, guide only to an owner who steps down,      *)
(* whatever requests overlap.  An invited member never gets them.          *)
EditorsHaveOwned ==
    \A t \in Trips, u \in Users : MayEdit(t, u) => u \in everOwner[t]

(* As long as no write relied on a stale reading, the owner is the one     *)
(* leader of the trip: every sequence of completed operations keeps        *)
(* trips.user_id and trip_members.role_code in agreement.                  *)
OwnerLeads ==
    \A t \in Trips \ raced :
        Exists(t) => \A u \in Users : role[t][u] = "leader" <=> u = owner[t]

(* What a running request has established, and stays so until it writes.   *)
RequestsJustified ==
    \A r \in Requests :
        LET q == req[r] IN
        /\ q.op \in {"add", "delete", "transfer?", "transfer"} =>
               q.seen = q.actor /\ q.actor \in everOwner[q.trip]
        /\ q.op = "remove" =>
               q.seen # q.target /\ (q.actor # q.target => q.actor \in everOwner[q.trip])
        /\ q.op \in {"transfer?", "transfer"} => q.actor # q.target
        /\ q.op = "transfer" => q.memberSeen

OwnersRecorded == \A t \in Trips : Exists(t) => owner[t] \in everOwner[t]

(* What requests of other services to the same trips leave alone, and the  *)
(* inductive strengthening of the invariants above.                        *)
TripCore ==
    /\ TripTypeOK
    /\ NoMembersWithoutTrip
    /\ EditorsHaveOwned
    /\ RequestsJustified
    /\ OwnersRecorded

TripInv == TripCore /\ OwnerLeads

(* Each trip, as TripOwnership sees it. *)
Promise(t) == INSTANCE TripOwnership WITH
    owner <- owner[t],
    crew <- {u \in Users : IsMember(t, u)},
    guides <- {u \in Users : role[t][u] = "guide"}

(* The checks and writes of service.go amount to the atomic operations of  *)
(* TripOwnership, on every trip and as long as no request wrote to it on a *)
(* stale reading, however requests to the same trip overlap otherwise: in  *)
(* particular the owner is never put off the trip, and a transfer goes to  *)
(* a member and keeps the former owner on.                                 *)
KeepsPromise ==
    /\ \A t \in Trips : Promise(t)!Init
    /\ [][\A t \in Trips \ raced' :
             Promise(t)!Next \/ UNCHANGED Promise(t)!vars]_tripVars
=============================================================================
