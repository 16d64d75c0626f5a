------------------------- MODULE GroupEventsProofs -------------------------
(***************************************************************************)
(* TripMembers and GroupEvents for every set of users, trips, events and   *)
(* overlapping requests.  First the trip service by itself: its type       *)
(* invariant, the safety invariants from the inductive invariant TripInv,  *)
(* and trip by trip the refinement of TripOwnership.  Then both services   *)
(* together: GroupInv, which no overlap of their requests breaks, and      *)
(* SerialInv, which holds as long as one request is served at a time.      *)
(***************************************************************************)
EXTENDS GroupEvents, TLAPS

(* A record in req is a running request or the idle one, and the two are   *)
(* told apart by op.                                                       *)
LEMMA RunningIsPending ==
    ASSUME TripTypeOK, NEW r \in Requests, req[r] # Idle
    PROVE  /\ req[r] \in Pending
           /\ req[r].trip \in Trips
           /\ req[r].actor \in Users
           /\ req[r].target \in Users
           /\ req[r].seen \in Users
           /\ req[r].newRole \in StepDownRoles
BY DEF TripTypeOK, Pending

(* Every write of the member table yields rows of the right type.          *)
LEMMA RowsTyped ==
    ASSUME NEW rows \in [Users -> Roles \union {NoRole}],
           NEW S \in SUBSET Users, NEW from \in Users, NEW to \in Users,
           NEW newRole \in StepDownRoles
    PROVE  /\ WithMembers(rows, S) \in [Users -> Roles \union {NoRole}]
           /\ WithoutMembers(rows, S) \in [Users -> Roles \union {NoRole}]
           /\ HandOver(rows, from, to, newRole) \in [Users -> Roles \union {NoRole}]
BY DEF WithMembers, WithoutMembers, HandOver, WithRole, Roles, StepDownRoles

(* One step per action that changes more than nothing.                     *)
LEMMA TypeStep == TripTypeOK /\ [TripNext]_tripVars => TripTypeOK'
<1> SUFFICES ASSUME TripTypeOK, [TripNext]_tripVars PROVE TripTypeOK'
    OBVIOUS
<1>1. ASSUME NEW t \in Trips, NEW u \in Users, CreateTrip(t, u)
      PROVE  TripTypeOK'
    BY <1>1 DEF CreateTrip, TripTypeOK, Roles
<1>2. ASSUME NEW r \in Requests, NEW t \in Trips, NEW actor \in Users,
             NEW target \in Users, NEW newRole \in StepDownRoles,
             NEW op \in {"add", "remove", "delete", "transfer?", "transfer"},
             Exists(t), Load(r, op, t, actor, target, newRole)
      PROVE  TripTypeOK'
  <2>1. owner[t] \in Users
      BY <1>2 DEF TripTypeOK, Exists
  <2> QED BY <1>2, <2>1 DEF Load, TripTypeOK, Pending
<1>3. ASSUME NEW r \in Requests, TransferCheckMember(r)
      PROVE  TripTypeOK'
  <2> DEFINE asked == [req[r] EXCEPT !.op = "transfer", !.memberSeen = TRUE]
  <2>1. req[r] \in Pending
      BY <1>3, RunningIsPending DEF TransferCheckMember, Idle
  <2>2. asked \in Pending
      BY <2>1 DEF Pending
  <2>3. req' = [req EXCEPT ![r] = asked]
      BY <1>3, <2>1 DEF TransferCheckMember, TripTypeOK, Pending
  <2> QED BY <1>3, <2>2, <2>3 DEF TransferCheckMember, TripTypeOK
<1>4. ASSUME NEW r \in Requests, GiveUp(r)
      PROVE  TripTypeOK'
    BY <1>4 DEF GiveUp, TripTypeOK
<1>5. ASSUME NEW r \in Requests, req[r] # Idle, Finish(r)
      PROVE  req' \in [Requests -> Pending \union {Idle}] /\ raced' \in SUBSET Trips
    BY <1>5, RunningIsPending DEF Finish, TripTypeOK
<1>6. ASSUME NEW r \in Requests, AddMemberWrite(r)
      PROVE  TripTypeOK'
  <2>1. req[r] # Idle
      BY <1>6 DEF AddMemberWrite, Idle
  <2>2. PICK t \in Trips : t = req[r].trip
      BY <2>1, RunningIsPending
  <2>3. WithMembers(role[t], {req[r].target}) \in [Users -> Roles \union {NoRole}]
      BY <2>1, RunningIsPending, RowsTyped DEF TripTypeOK
  <2> QED BY <1>5, <1>6, <2>1, <2>2, <2>3 DEF AddMemberWrite, TripTypeOK
<1>7. ASSUME NEW r \in Requests, RemoveMemberWrite(r)
      PROVE  TripTypeOK'
  <2>1. req[r] # Idle
      BY <1>7 DEF RemoveMemberWrite, Idle
  <2>2. PICK t \in Trips : t = req[r].trip
      BY <2>1, RunningIsPending
  <2>3. WithoutMembers(role[t], {req[r].target}) \in [Users -> Roles \union {NoRole}]
      BY <2>1, RunningIsPending, RowsTyped DEF TripTypeOK
  <2> QED BY <1>5, <1>7, <2>1, <2>2, <2>3 DEF RemoveMemberWrite, TripTypeOK
<1>8. ASSUME NEW r \in Requests, DeleteTripWrite(r)
      PROVE  TripTypeOK'
  <2>1. req[r] # Idle
      BY <1>8 DEF DeleteTripWrite, Idle
  <2>2. PICK t \in Trips : t = req[r].trip
      BY <2>1, RunningIsPending
  <2>3. WithoutMembers(role[t], Users) \in [Users -> Roles \union {NoRole}]
      BY DEF WithoutMembers, TripTypeOK
  <2> QED BY <1>5, <1>8, <2>1, <2>2, <2>3 DEF DeleteTripWrite, TripTypeOK
<1>9. ASSUME NEW r \in Requests, TransferWrite(r)
      PROVE  TripTypeOK'
  <2>1. req[r] # Idle
      BY <1>9 DEF TransferWrite, Idle
  <2>2. PICK t \in Trips : t = req[r].trip
      BY <2>1, RunningIsPending
  <2>3. HandOver(role[t], req[r].actor, req[r].target, req[r].newRole)
           \in [Users -> Roles \union {NoRole}]
      BY <2>1, RunningIsPending, RowsTyped DEF TripTypeOK
  <2>4. req[r].target \in Users
      BY <2>1, RunningIsPending
  <2>5. Finish(r)
      BY <1>9 DEF TransferWrite
  <2>6. CASE Exists(t)
    <3>1. /\ owner' = [owner EXCEPT ![t] = req[r].target]
          /\ role' = [role EXCEPT ![t] =
                HandOver(role[t], req[r].actor, req[r].target, req[r].newRole)]
          /\ everOwner' = [everOwner EXCEPT ![t] = everOwner[t] \union {req[r].target}]
        BY <1>9, <2>2, <2>6 DEF TransferWrite
    <3> QED BY <1>5, <2>1, <2>3, <2>4, <2>5, <3>1 DEF TripTypeOK
  <2>7. CASE ~Exists(t)
      BY <1>5, <1>9, <2>1, <2>2, <2>5, <2>7 DEF TransferWrite, TripTypeOK
  <2> QED BY <2>6, <2>7
<1>10. CASE UNCHANGED tripVars
    BY <1>10 DEF tripVars, TripTypeOK
<1> QED
    BY <1>1, <1>2, <1>3, <1>4, <1>6, <1>7, <1>8, <1>9, <1>10
    DEF TripNext, TripStep, TripDeletion, AddMemberCheck, RemoveMemberCheck,
        MayRemove, DeleteTripCheck, TransferCheckOwner, RequireOwner,
        StepDownRoles

(* The type invariant of the trip service holds in every reachable state.  *)
THEOREM TripTypeInvariant == TripSpec => []TripTypeOK
<1>1. TripInit => TripTypeOK
    BY DEF TripInit, TripTypeOK
<1> QED BY <1>1, TypeStep, PTL DEF TripSpec

-----------------------------------------------------------------------------
(* What the conjuncts of TripCore say of one trip and of one request.      *)
TripSound(t) ==
    /\ \A u \in Users : IsMember(t, u) => Exists(t)
    /\ \A u \in Users : MayEdit(t, u) => u \in everOwner[t]
    /\ Exists(t) => owner[t] \in everOwner[t]

RequestSound(r) ==
    LET q == req[r] IN
    /\ q.op \in {"add", "delete", "transfer?", "transfer"} =>
           q.seen = q.actor /\ q.actor \in everOwner[q.trip]
    /\ q.op = "remove" =>
           q.seen # q.target /\ (q.actor # q.target => q.actor \in everOwner[q.trip])
    /\ q.op \in {"transfer?", "transfer"} => q.actor # q.target
    /\ q.op = "transfer" => q.memberSeen

(* TripCore, trip by trip and request by request.                          *)
LEMMA TripCoreByParts ==
    TripCore <=> /\ TripTypeOK
                 /\ \A t \in Trips : TripSound(t)
                 /\ \A r \in Requests : RequestSound(r)
BY DEF TripCore, TripSound, RequestSound, NoMembersWithoutTrip,
       EditorsHaveOwned, RequestsJustified, OwnersRecorded

LEMMA CoreHolds ==
    ASSUME TripTypeOK', \A t \in Trips : TripSound(t)', \A r \in Requests : RequestSound(r)'
    PROVE  TripCore'
BY DEF TripCore, TripSound, RequestSound, NoMembersWithoutTrip, EditorsHaveOwned,
       RequestsJustified, OwnersRecorded

(* A trip whose rows a step leaves alone stays sound.                      *)
LEMMA UntouchedTrip ==
    ASSUME NEW t \in Trips, TripSound(t),
           owner'[t] = owner[t], role'[t] = role[t], everOwner'[t] = everOwner[t]
    PROVE  TripSound(t)'
BY DEF TripSound, IsMember, Exists, MayEdit, RequireRole

(* A request a step does not run stays sound: everOwner only grows.        *)
LEMMA UntouchedRequest ==
    ASSUME TripTypeOK, NEW r \in Requests, RequestSound(r), req'[r] = req[r],
           \A t \in Trips : everOwner[t] \subseteq everOwner'[t]
    PROVE  RequestSound(r)'
<1>1. CASE req[r] = Idle
    BY <1>1 DEF RequestSound, Idle
<1>2. CASE req[r] # Idle
    BY <1>2, RunningIsPending DEF RequestSound
<1> QED BY <1>1, <1>2

(* An idle slot claims nothing.                                            *)
LEMMA IdleRequest ==
    ASSUME NEW r \in Requests, req'[r] = Idle
    PROVE  RequestSound(r)'
BY DEF RequestSound, Idle

(* Loading the trip writes nothing, and keeps what the check established.  *)
LEMMA LoadStep ==
    ASSUME TripCore, NEW r \in Requests, NEW t \in Trips, NEW actor \in Users,
           NEW target \in Users, NEW newRole \in StepDownRoles,
           NEW op \in {"add", "remove", "delete", "transfer?"},
           Load(r, op, t, actor, target, newRole), Exists(t),
           op # "remove" => owner[t] = actor,
           op = "remove" => owner[t] # target /\ (actor # target => owner[t] = actor),
           op = "transfer?" => actor # target
    PROVE  /\ \A x \in Trips : TripSound(x)'
           /\ \A x \in Requests : RequestSound(x)'
<1>1. \A x \in Trips : TripSound(x)'
    BY TripCoreByParts, UntouchedTrip DEF Load
<1>2. RequestSound(r)'
  <2>1. req'[r] = [op |-> op, trip |-> t, actor |-> actor, target |-> target,
                   seen |-> owner[t], newRole |-> newRole, memberSeen |-> FALSE]
      BY DEF Load, TripCore, TripTypeOK
  <2>2. owner[t] \in everOwner[t] /\ everOwner' = everOwner
      BY DEF Load, TripCore, OwnersRecorded
  <2> QED BY <2>1, <2>2 DEF RequestSound
<1>3. ASSUME NEW x \in Requests, x # r PROVE RequestSound(x)'
  <2>1. req'[x] = req[x] /\ everOwner' = everOwner
      BY <1>3 DEF Load, TripCore, TripTypeOK
  <2> QED BY <2>1, TripCoreByParts, UntouchedRequest
<1> QED BY <1>1, <1>2, <1>3

(* A write ends its request and no other.                                  *)
LEMMA FinishStep ==
    ASSUME TripCore, NEW r \in Requests, req[r] # Idle, Finish(r),
           \A t \in Trips : everOwner[t] \subseteq everOwner'[t]
    PROVE  \A x \in Requests : RequestSound(x)'
<1>1. RequestSound(r)'
    BY IdleRequest DEF Finish, TripCore, TripTypeOK
<1>2. ASSUME NEW x \in Requests, x # r PROVE RequestSound(x)'
  <2>1. req'[x] = req[x]
      BY <1>2 DEF Finish, TripCore, TripTypeOK
  <2> QED BY <2>1, TripCoreByParts, UntouchedRequest
<1> QED BY <1>1, <1>2

-----------------------------------------------------------------------------
(* One lemma per step that writes rows.                                    *)

(* CreateTrip starts a trip that has never had an owner or a member.       *)
LEMMA CreateTripSound ==
    ASSUME TripCore, NEW t \in Trips, NEW u \in Users, CreateTrip(t, u)
    PROVE  /\ \A x \in Trips : TripSound(x)'
           /\ \A r \in Requests : RequestSound(r)'
<1>1. TripTypeOK /\ TripSound(t)
    BY TripCoreByParts
<1>3. ~Exists(t)
    BY <1>1 DEF CreateTrip, TripSound
<1>4. \A v \in Users : role'[t][v] = IF v = u THEN "leader" ELSE NoRole
    BY <1>1, <1>3 DEF CreateTrip, TripTypeOK, TripSound, IsMember
<1>5. owner'[t] = u /\ everOwner'[t] = {u}
    BY <1>1 DEF CreateTrip, TripTypeOK
<1>6. u # Nobody
    BY NobodyIsNoUser
<1>7. TripSound(t)'
    BY <1>4, <1>5, <1>6
    DEF TripSound, IsMember, Exists, MayEdit, RequireRole, NoRole
<1>8. ASSUME NEW x \in Trips, x # t PROVE TripSound(x)'
    BY <1>8, TripCoreByParts, UntouchedTrip DEF CreateTrip, TripTypeOK
<1>9. ASSUME NEW r \in Requests PROVE RequestSound(r)'
  <2>1. \A x \in Trips : everOwner[x] \subseteq everOwner'[x]
      BY <1>1 DEF CreateTrip, TripTypeOK
  <2> QED BY <2>1, TripCoreByParts, UntouchedRequest DEF CreateTrip
<1> QED BY <1>7, <1>8, <1>9

(* AddMember gives its target, at most, the role member.                   *)
LEMMA AddMemberSound ==
    ASSUME TripCore, NEW r \in Requests, AddMemberWrite(r)
    PROVE  /\ \A x \in Trips : TripSound(x)'
           /\ \A x \in Requests : RequestSound(x)'
<1>1. req[r] # Idle /\ TripTypeOK
    BY TripCoreByParts DEF AddMemberWrite, Idle
<1>2. PICK t \in Trips, u \in Users : t = req[r].trip /\ u = req[r].target
    BY <1>1, RunningIsPending
<1>3. \A x \in Requests : RequestSound(x)'
    BY <1>1, FinishStep DEF AddMemberWrite
<1>4. owner' = owner /\ everOwner' = everOwner
    BY DEF AddMemberWrite
<1>5. CASE Exists(t)
  <2>1. role' = [role EXCEPT ![t] = WithMembers(role[t], {u})]
      BY <1>2, <1>5 DEF AddMemberWrite, ForeignKeyHolds
  <2>2. \A v \in Users :
            role'[t][v] = IF v = u /\ role[t][v] = NoRole THEN "member" ELSE role[t][v]
      BY <2>1, <1>1 DEF WithMembers, TripTypeOK
  <2>3. TripSound(t)
      BY TripCoreByParts
  <2>4. TripSound(t)'
      BY <1>3, <1>4, <1>5, <2>2, <2>3
      DEF TripSound, IsMember, Exists, MayEdit, RequireRole, NoRole
  <2>5. ASSUME NEW x \in Trips, x # t PROVE TripSound(x)'
    <3>1. role'[x] = role[x]
        BY <2>1, <2>5, <1>1 DEF TripTypeOK
    <3> QED BY <1>3, <1>4, <3>1, TripCoreByParts, UntouchedTrip
  <2> QED BY <1>3, <2>4, <2>5
<1>6. CASE ~Exists(t)
  <2>1. role' = role
      BY <1>2, <1>6 DEF AddMemberWrite, ForeignKeyHolds
  <2> QED BY <1>3, <1>4, <2>1, TripCoreByParts, UntouchedTrip
<1> QED BY <1>5, <1>6

(* RemoveMember was told the target is not the owner it loaded.            *)
LEMMA RemoveMemberSound ==
    ASSUME TripCore, NEW r \in Requests, RemoveMemberWrite(r)
    PROVE  /\ \A x \in Trips : TripSound(x)'
           /\ \A x \in Requests : RequestSound(x)'
<1>1. req[r] # Idle /\ TripTypeOK
    BY TripCoreByParts DEF RemoveMemberWrite, Idle
<1>2. PICK t \in Trips, u \in Users : t = req[r].trip /\ u = req[r].target
    BY <1>1, RunningIsPending
<1>3. \A x \in Requests : RequestSound(x)'
    BY <1>1, FinishStep DEF RemoveMemberWrite
<1>4. /\ owner' = owner /\ everOwner' = everOwner
      /\ role' = [role EXCEPT ![t] = WithoutMembers(role[t], {u})]
    BY <1>2 DEF RemoveMemberWrite
<1>6. \A v \in Users : role'[t][v] = IF v = u THEN NoRole ELSE role[t][v]
    BY <1>1, <1>4 DEF WithoutMembers, TripTypeOK
<1>7. TripSound(t)
    BY TripCoreByParts
<1>8. TripSound(t)'
    BY <1>4, <1>6, <1>7
    DEF TripSound, IsMember, Exists, MayEdit, RequireRole, NoRole
<1>9. ASSUME NEW x \in Trips, x # t PROVE TripSound(x)'
  <2>1. role'[x] = role[x]
      BY <1>1, <1>4, <1>9 DEF TripTypeOK
  <2> QED BY <1>3, <1>4, <2>1, TripCoreByParts, UntouchedTrip
<1> QED BY <1>3, <1>8, <1>9

(* DeleteTrip takes the member rows with it.                               *)
LEMMA DeleteTripSound ==
    ASSUME TripCore, NEW r \in Requests, DeleteTripWrite(r)
    PROVE  /\ \A x \in Trips : TripSound(x)'
           /\ \A x \in Requests : RequestSound(x)'
<1>1. req[r] # Idle /\ TripTypeOK
    BY TripCoreByParts DEF DeleteTripWrite, Idle
<1>2. PICK t \in Trips : t = req[r].trip
    BY <1>1, RunningIsPending
<1>3. \A x \in Requests : RequestSound(x)'
    BY <1>1, FinishStep DEF DeleteTripWrite
<1>4. /\ owner' = [owner EXCEPT ![t] = Nobody]
      /\ role' = [role EXCEPT ![t] = WithoutMembers(role[t], Users)]
      /\ everOwner' = everOwner
    BY <1>2 DEF DeleteTripWrite
<1>5. owner'[t] = Nobody /\ \A v \in Users : role'[t][v] = NoRole
    BY <1>1, <1>4 DEF WithoutMembers, TripTypeOK
<1>6. TripSound(t)'
    BY <1>5 DEF TripSound, IsMember, Exists, MayEdit, RequireRole
<1>7. ASSUME NEW x \in Trips, x # t PROVE TripSound(x)'
  <2>1. role'[x] = role[x] /\ owner'[x] = owner[x]
      BY <1>1, <1>4, <1>7 DEF TripTypeOK
  <2> QED BY <1>3, <1>4, <2>1, TripCoreByParts, UntouchedTrip
<1> QED BY <1>3, <1>6, <1>7

(* A transfer that did not race: the rows it leaves, user by user.         *)
LEMMA HandOverRows ==
    ASSUME NEW rows \in [Users -> Roles \union {NoRole}],
           NEW from \in Users, NEW to \in Users, from # to,
           NEW newRole \in StepDownRoles, NEW v \in Users
    PROVE  HandOver(rows, from, to, newRole)[v] =
             IF rows[v] = NoRole THEN NoRole
             ELSE IF v = from THEN newRole
             ELSE IF v = to THEN "leader" ELSE rows[v]
BY DEF HandOver, WithRole, NoRole

(* TransferOwnership gives edit rights to the new owner, and leaves them,  *)
(* at most, to the former one.                                             *)
LEMMA TransferSound ==
    ASSUME TripCore, NEW r \in Requests, TransferWrite(r)
    PROVE  /\ \A x \in Trips : TripSound(x)'
           /\ \A x \in Requests : RequestSound(x)'
<1>1. req[r] # Idle /\ TripTypeOK
    BY TripCoreByParts DEF TransferWrite, Idle
<1>2. PICK t \in Trips, from \in Users, to \in Users, newRole \in StepDownRoles :
          /\ t = req[r].trip /\ from = req[r].actor
          /\ to = req[r].target /\ newRole = req[r].newRole
    BY <1>1, RunningIsPending
<1>3. from # to /\ from \in everOwner[t]
    BY <1>2, TripCoreByParts DEF RequestSound, TransferWrite
<1>4. TripSound(t)
    BY TripCoreByParts
<1>5. CASE Exists(t)
  <2>1. /\ owner' = [owner EXCEPT ![t] = to]
        /\ role' = [role EXCEPT ![t] = HandOver(role[t], from, to, newRole)]
        /\ everOwner' = [everOwner EXCEPT ![t] = everOwner[t] \union {to}]
      BY <1>2, <1>5 DEF TransferWrite
  <2>2. \A x \in Requests : RequestSound(x)'
    <3>1. \A x \in Trips : everOwner[x] \subseteq everOwner'[x]
        BY <1>1, <2>1 DEF TripTypeOK
    <3> QED BY <1>1, <3>1, FinishStep DEF TransferWrite
  <2>3. \A v \in Users :
            role'[t][v] = IF role[t][v] = NoRole THEN NoRole
                          ELSE IF v = from THEN newRole
                          ELSE IF v = to THEN "leader" ELSE role[t][v]
      BY <1>1, <1>3, <2>1, HandOverRows DEF TripTypeOK
  <2>4. owner'[t] = to /\ everOwner'[t] = everOwner[t] \union {to} /\ to # Nobody
      BY <1>1, <2>1, NobodyIsNoUser DEF TripTypeOK
  <2>5. \A v \in Users : MayEdit(t, v)' => v \in everOwner'[t]
      BY <1>3, <1>4, <1>5, <2>3, <2>4
      DEF TripSound, MayEdit, RequireRole, Exists, NoRole
  <2>6. TripSound(t)'
      BY <2>4, <2>5 DEF TripSound, Exists
  <2>7. ASSUME NEW x \in Trips, x # t PROVE TripSound(x)'
    <3>1. role'[x] = role[x] /\ owner'[x] = owner[x] /\ everOwner'[x] = everOwner[x]
        BY <1>1, <2>1, <2>7 DEF TripTypeOK
    <3> QED BY <3>1, TripCoreByParts, UntouchedTrip
  <2> QED BY <2>2, <2>6, <2>7
<1>6. CASE ~Exists(t)
  <2>1. UNCHANGED <<owner, role, everOwner>>
      BY <1>2, <1>6 DEF TransferWrite
  <2>2. \A x \in Requests : RequestSound(x)'
      BY <1>1, <2>1, FinishStep DEF TransferWrite
  <2> QED BY <2>1, <2>2, TripCoreByParts, UntouchedTrip
<1> QED BY <1>5, <1>6

(* The steps that write no rows and end or advance a request.              *)
LEMMA AskMemberSound ==
    ASSUME TripCore, NEW r \in Requests, TransferCheckMember(r) \/ GiveUp(r)
    PROVE  /\ \A x \in Trips : TripSound(x)'
           /\ \A x \in Requests : RequestSound(x)'
<1>1. TripTypeOK /\ req[r] # Idle /\ RequestSound(r)
    BY TripCoreByParts DEF TransferCheckMember, GiveUp, Idle
<1>2. UNCHANGED <<owner, role, everOwner, raced>>
    BY DEF TransferCheckMember, GiveUp
<1>3. \A x \in Trips : TripSound(x)'
    BY <1>2, TripCoreByParts, UntouchedTrip
<1>4. ASSUME NEW x \in Requests, x # r PROVE RequestSound(x)'
  <2>1. req'[x] = req[x]
      BY <1>1, <1>4 DEF TransferCheckMember, GiveUp, TripTypeOK
  <2> QED BY <1>1, <1>2, <2>1, TripCoreByParts, UntouchedRequest
<1>5. CASE TransferCheckMember(r)
  <2>1. req'[r] = [req[r] EXCEPT !.op = "transfer", !.memberSeen = TRUE]
      BY <1>1, <1>5 DEF TransferCheckMember, TripTypeOK
  <2>2. /\ req'[r].op = "transfer" /\ req'[r].memberSeen
        /\ req'[r].seen = req[r].seen /\ req'[r].actor = req[r].actor
        /\ req'[r].target = req[r].target /\ req'[r].trip = req[r].trip
      BY <1>1, <2>1, RunningIsPending DEF Pending
  <2>3. RequestSound(r)'
      BY <1>1, <1>2, <1>5, <2>2 DEF RequestSound, TransferCheckMember
  <2> QED BY <1>3, <1>4, <2>3
<1>6. CASE GiveUp(r)
  <2>1. req'[r] = Idle
      BY <1>1, <1>6 DEF GiveUp, TripTypeOK
  <2> QED BY <1>3, <1>4, <2>1, IdleRequest
<1> QED BY <1>5, <1>6

(* TripCore is inductive: one step per action of TripNext.                 *)
LEMMA CoreStep == TripCore /\ [TripNext]_tripVars => TripCore'
<1> SUFFICES ASSUME TripCore, [TripNext]_tripVars PROVE TripCore'
    OBVIOUS
<1>1. TripTypeOK'
    BY TypeStep DEF TripCore
<1> DEFINE Sound == /\ \A x \in Trips : TripSound(x)'
                    /\ \A x \in Requests : RequestSound(x)'
<1>2. ASSUME NEW t \in Trips, NEW u \in Users, CreateTrip(t, u) PROVE Sound
    BY <1>2, CreateTripSound
<1>3. ASSUME NEW r \in Requests, NEW t \in Trips, NEW actor \in Users,
             NEW target \in Users, AddMemberCheck(r, t, actor, target)
      PROVE  Sound
    BY <1>3, LoadStep DEF AddMemberCheck, RequireOwner, StepDownRoles
<1>4. ASSUME NEW r \in Requests, NEW t \in Trips, NEW actor \in Users,
             NEW target \in Users, RemoveMemberCheck(r, t, actor, target)
      PROVE  Sound
    BY <1>4, LoadStep DEF RemoveMemberCheck, MayRemove, RequireOwner, StepDownRoles
<1>5. ASSUME NEW r \in Requests, NEW t \in Trips, NEW actor \in Users,
             NEW target \in Users, NEW newRole \in StepDownRoles,
             TransferCheckOwner(r, t, actor, target, newRole)
      PROVE  Sound
    BY <1>5, LoadStep DEF TransferCheckOwner, RequireOwner
<1>6. ASSUME NEW r \in Requests, NEW t \in Trips, NEW actor \in Users,
             DeleteTripCheck(r, t, actor)
      PROVE  Sound
    BY <1>6, LoadStep DEF DeleteTripCheck, RequireOwner, StepDownRoles
<1>7. ASSUME NEW r \in Requests, TransferCheckMember(r) \/ GiveUp(r) PROVE Sound
    BY <1>7, AskMemberSound
<1>8. ASSUME NEW r \in Requests, AddMemberWrite(r) PROVE Sound
    BY <1>8, AddMemberSound
<1>9. ASSUME NEW r \in Requests, RemoveMemberWrite(r) PROVE Sound
    BY <1>9, RemoveMemberSound
<1>10. ASSUME NEW r \in Requests, TransferWrite(r) PROVE Sound
    BY <1>10, TransferSound
<1>11. ASSUME NEW r \in Requests, DeleteTripWrite(r) PROVE Sound
    BY <1>11, DeleteTripSound
<1>12. ASSUME UNCHANGED tripVars PROVE Sound
  <2>1. \A x \in Trips : TripSound(x)'
      BY <1>12, TripCoreByParts, UntouchedTrip DEF tripVars
  <2>2. \A x \in Requests : RequestSound(x)'
      BY <1>12, TripCoreByParts, UntouchedRequest DEF tripVars
  <2> QED BY <2>1, <2>2
<1>13. Sound
    BY <1>2, <1>3, <1>4, <1>5, <1>6, <1>7, <1>8, <1>9, <1>10, <1>11, <1>12
    DEF TripNext, TripStep, TripDeletion
<1> QED BY <1>1, <1>13, CoreHolds

-----------------------------------------------------------------------------
(* The leader is the owner, until a write relies on a stale reading.       *)
Leads(t) == t \notin raced /\ Exists(t) => \A u \in Users : role[t][u] = "leader" <=> u = owner[t]

(* A trip whose rows a step leaves alone keeps its leader: raced only      *)
(* grows.                                                                  *)
LEMMA UntouchedLeads ==
    ASSUME NEW t \in Trips, Leads(t), raced \subseteq raced',
           owner'[t] = owner[t], role'[t] = role[t]
    PROVE  Leads(t)'
BY DEF Leads, Exists

(* A write marks the trip when its reading was stale.                      *)
LEMMA FinishMarks ==
    ASSUME NEW r \in Requests, Finish(r)
    PROVE  raced \subseteq raced' /\ (req[r].trip \notin raced' => ~Stale(r))
BY DEF Finish

(* The founder leads.                                                      *)
LEMMA CreateTripLeads ==
    ASSUME TripInv, NEW t \in Trips, NEW u \in Users, CreateTrip(t, u), NEW x \in Trips
    PROVE  Leads(x)'
<1>1. TripTypeOK /\ Leads(x) /\ TripSound(t)
    BY TripCoreByParts DEF TripInv, OwnerLeads, Leads
<1>2. CASE x = t
  <2>1. \A v \in Users : ~IsMember(t, v)
      BY <1>1 DEF CreateTrip, TripSound
  <2>2. owner'[t] = u /\ \A v \in Users : role'[t][v] = IF v = u THEN "leader" ELSE NoRole
      BY <1>1, <2>1 DEF CreateTrip, TripTypeOK, IsMember
  <2> QED BY <1>2, <2>2 DEF Leads, NoRole
<1>3. CASE x # t
    BY <1>1, <1>3, UntouchedLeads DEF CreateTrip, TripTypeOK
<1> QED BY <1>2, <1>3

(* A new member does not lead, and on stale readings nobody is removed     *)
(* from an unmarked trip who owns it.                                      *)
LEMMA MemberWritesLead ==
    ASSUME TripInv, NEW r \in Requests, AddMemberWrite(r) \/ RemoveMemberWrite(r),
           NEW x \in Trips
    PROVE  Leads(x)'
<1>1. TripTypeOK /\ Leads(x) /\ req[r] # Idle /\ TripCore
    BY DEF TripInv, TripCore, OwnerLeads, Leads, AddMemberWrite, RemoveMemberWrite, Idle
<1>2. PICK t \in Trips, u \in Users : t = req[r].trip /\ u = req[r].target
    BY <1>1, RunningIsPending
<1>3. owner' = owner /\ raced \subseteq raced' /\ (t \notin raced' => ~Stale(r))
    BY <1>2, FinishMarks DEF AddMemberWrite, RemoveMemberWrite
<1>4. CASE x # t
    BY <1>1, <1>2, <1>3, <1>4, UntouchedLeads
    DEF AddMemberWrite, RemoveMemberWrite, TripTypeOK
<1>5. CASE x = t /\ AddMemberWrite(r)
  <2>1. \A v \in Users :
            \/ role'[t][v] = role[t][v]
            \/ role[t][v] = NoRole /\ role'[t][v] = "member"
      BY <1>1, <1>2, <1>5 DEF AddMemberWrite, WithMembers, TripTypeOK
  <2> QED BY <1>1, <1>3, <1>5, <2>1 DEF Leads, Exists, NoRole
<1>6. CASE x = t /\ RemoveMemberWrite(r)
  <2>1. t \notin raced' => owner[t] # u
      BY <1>1, <1>2, <1>3, <1>6, TripCoreByParts DEF Stale, RequestSound, RemoveMemberWrite
  <2>2. \A v \in Users : role'[t][v] = IF v = u THEN NoRole ELSE role[t][v]
      BY <1>1, <1>2, <1>6 DEF RemoveMemberWrite, WithoutMembers, TripTypeOK
  <2> QED BY <1>1, <1>3, <1>6, <2>1, <2>2 DEF Leads, Exists, NoRole
<1> QED BY <1>4, <1>5, <1>6

(* A deleted trip needs no leader.                                         *)
LEMMA DeleteTripLeads ==
    ASSUME TripInv, NEW r \in Requests, DeleteTripWrite(r), NEW x \in Trips
    PROVE  Leads(x)'
<1>1. TripTypeOK /\ Leads(x) /\ req[r] # Idle
    BY DEF TripInv, TripCore, OwnerLeads, Leads, DeleteTripWrite, Idle
<1>2. PICK t \in Trips : t = req[r].trip
    BY <1>1, RunningIsPending
<1>3. CASE x = t
    BY <1>1, <1>2, <1>3 DEF DeleteTripWrite, Leads, Exists, TripTypeOK
<1>4. CASE x # t
    BY <1>1, <1>2, <1>4, UntouchedLeads, FinishMarks DEF DeleteTripWrite, TripTypeOK
<1> QED BY <1>3, <1>4

(* A transfer on the owner and the member it was checked against hands     *)
(* the lead over.                                                          *)
LEMMA TransferLeads ==
    ASSUME TripInv, NEW r \in Requests, TransferWrite(r), NEW x \in Trips
    PROVE  Leads(x)'
<1>1. TripTypeOK /\ Leads(x) /\ req[r] # Idle /\ TripCore
    BY DEF TripInv, TripCore, OwnerLeads, Leads, TransferWrite, Idle
<1>2. PICK t \in Trips, from \in Users, to \in Users, newRole \in StepDownRoles :
          /\ t = req[r].trip /\ from = req[r].actor
          /\ to = req[r].target /\ newRole = req[r].newRole
    BY <1>1, RunningIsPending
<1>3. req[r].seen = from /\ from # to /\ req[r].memberSeen
    BY <1>1, <1>2, TripCoreByParts DEF RequestSound, TransferWrite
<1>4. raced \subseteq raced' /\ (t \notin raced' => ~Stale(r))
    BY <1>2, FinishMarks DEF TransferWrite
<1>5. CASE x = t /\ Exists(t)
  <2>1. t \notin raced' => owner[t] = from /\ role[t][to] # NoRole
      BY <1>2, <1>3, <1>4 DEF Stale, TransferWrite, IsMember
  <2>2. /\ owner' = [owner EXCEPT ![t] = to]
        /\ role' = [role EXCEPT ![t] = HandOver(role[t], from, to, newRole)]
      BY <1>2, <1>5 DEF TransferWrite
  <2>3. \A v \in Users :
            role'[t][v] = IF role[t][v] = NoRole THEN NoRole
                          ELSE IF v = from THEN newRole
                          ELSE IF v = to THEN "leader" ELSE role[t][v]
      BY <1>1, <1>3, <2>2, HandOverRows DEF TripTypeOK
  <2>4. owner'[t] = to
      BY <1>1, <2>2 DEF TripTypeOK
  <2>5. newRole # "leader"
      BY DEF StepDownRoles
  <2> QED BY <1>1, <1>3, <1>4, <1>5, <2>1, <2>3, <2>4, <2>5 DEF Leads, NoRole
<1>6. CASE x # t \/ ~Exists(t)
    BY <1>1, <1>2, <1>4, <1>6, UntouchedLeads DEF TransferWrite, TripTypeOK
<1> QED BY <1>5, <1>6

(* The owner of every unmarked trip leads it after every step.             *)
LEMMA LeadsStep ==
    ASSUME TripInv, [TripNext]_tripVars, NEW x \in Trips
    PROVE  Leads(x)'
<1>1. Leads(x)
    BY DEF TripInv, OwnerLeads, Leads
<1>2. ASSUME NEW t \in Trips, NEW u \in Users, CreateTrip(t, u) PROVE Leads(x)'
    BY <1>2, CreateTripLeads
<1>3. ASSUME UNCHANGED <<owner, role, raced>> PROVE Leads(x)'
    BY <1>1, <1>3, UntouchedLeads
<1>4. ASSUME NEW r \in Requests, NEW t \in Trips, NEW actor \in Users,
             NEW target \in Users,
             \/ AddMemberCheck(r, t, actor, target)
             \/ RemoveMemberCheck(r, t, actor, target)
             \/ DeleteTripCheck(r, t, actor)
             \/ \E newRole \in StepDownRoles :
                   TransferCheckOwner(r, t, actor, target, newRole)
      PROVE  Leads(x)'
    BY <1>3, <1>4
    DEF AddMemberCheck, RemoveMemberCheck, DeleteTripCheck, TransferCheckOwner, Load
<1>5. ASSUME NEW r \in Requests, TransferCheckMember(r) \/ GiveUp(r) PROVE Leads(x)'
    BY <1>3, <1>5 DEF TransferCheckMember, GiveUp
<1>6. ASSUME NEW r \in Requests, AddMemberWrite(r) \/ RemoveMemberWrite(r) PROVE Leads(x)'
    BY <1>6, MemberWritesLead
<1>7. ASSUME NEW r \in Requests, TransferWrite(r) PROVE Leads(x)'
    BY <1>7, TransferLeads
<1>8. ASSUME NEW r \in Requests, DeleteTripWrite(r) PROVE Leads(x)'
    BY <1>8, DeleteTripLeads
<1>9. CASE UNCHANGED tripVars
    BY <1>3, <1>9 DEF tripVars
<1> QED
    BY <1>2, <1>4, <1>5, <1>6, <1>7, <1>8, <1>9 DEF TripNext, TripStep, TripDeletion

(* The inductive invariant holds in every reachable state.                 *)
LEMMA TripInvariant == TripSpec => []TripInv
<1>1. TripInit => TripInv
    BY DEF TripInit, TripInv, TripCore, TripTypeOK, NoMembersWithoutTrip, EditorsHaveOwned,
           OwnerLeads, RequestsJustified, OwnersRecorded, IsMember, Exists,
           MayEdit, RequireRole, Idle
<1>2. TripInv /\ [TripNext]_tripVars => TripInv'
    BY CoreStep, LeadsStep DEF TripInv, OwnerLeads, Leads
<1> QED BY <1>1, <1>2, PTL DEF TripSpec

(* A deleted trip keeps no members, whatever was running when it went.     *)
THEOREM DeletedTripsHaveNoMembers == TripSpec => []NoMembersWithoutTrip
BY TripInvariant, PTL DEF TripInv, TripCore

(* Nobody gets edit rights on a trip without having owned it, whatever     *)
(* requests overlap.                                                       *)
THEOREM EditRightsComeFromOwning == TripSpec => []EditorsHaveOwned
BY TripInvariant, PTL DEF TripInv, TripCore

(* The owner is the one leader of every trip no stale reading was used on. *)
THEOREM OwnerIsTheLeader == TripSpec => []OwnerLeads
BY TripInvariant, PTL DEF TripInv, TripCore

-----------------------------------------------------------------------------
(* TripMembers implements TripOwnership, trip by trip.                     *)

Kept(t) == Promise(t)!Next \/ UNCHANGED Promise(t)!vars

(* A trip whose rows a step leaves alone stutters.                         *)
LEMMA StutterKept ==
    ASSUME NEW t \in Trips, owner'[t] = owner[t], role'[t] = role[t]
    PROVE  Kept(t)
BY DEF Kept, Promise!vars, IsMember

(* Steps that write no rows. *)
LEMMA NoRowsKept ==
    ASSUME owner' = owner, role' = role, NEW t \in Trips
    PROVE  Kept(t)
BY StutterKept

(* CreateTrip is Found.                                                    *)
LEMMA CreateTripKept ==
    ASSUME TripCore, NEW x \in Trips, NEW u \in Users, CreateTrip(x, u),
           NEW t \in Trips
    PROVE  Kept(t)
<1>1. TripTypeOK /\ TripSound(t)
    BY TripCoreByParts
<1>2. CASE x # t
    BY <1>1, <1>2, StutterKept DEF CreateTrip, TripTypeOK
<1>3. CASE x = t
  <2>1. owner[t] = Nobody /\ \A v \in Users : role[t][v] = NoRole
      BY <1>1, <1>3 DEF CreateTrip, TripSound, TripTypeOK, IsMember, Exists
  <2>2. owner'[t] = u /\ \A v \in Users : role'[t][v] = IF v = u THEN "leader" ELSE NoRole
      BY <1>1, <1>3, <2>1 DEF CreateTrip, TripTypeOK
  <2>3. /\ {v \in Users : IsMember(t, v)} = {}
        /\ {v \in Users : IsMember(t, v)'} = {u}
        /\ {v \in Users : role[t][v] = "guide"} = {}
        /\ {v \in Users : role'[t][v] = "guide"} = {}
      BY <2>1, <2>2 DEF IsMember, NoRole
  <2>4. Promise(t)!Found(u)
      BY <2>1, <2>2, <2>3 DEF Promise!Found, IsMember
  <2> QED BY <2>4 DEF Kept, Promise!Next
<1> QED BY <1>2, <1>3

(* An unraced AddMember is LetIn, or nothing for somebody already there.   *)
LEMMA AddMemberKept ==
    ASSUME TripCore, NEW r \in Requests, AddMemberWrite(r),
           NEW t \in Trips, t \notin raced'
    PROVE  Kept(t)
<1>1. TripTypeOK /\ req[r] # Idle
    BY TripCoreByParts DEF AddMemberWrite, Idle
<1>2. PICK x \in Trips, u \in Users : x = req[r].trip /\ u = req[r].target
    BY <1>1, RunningIsPending
<1>3. owner' = owner
    BY DEF AddMemberWrite
<1>4. CASE x # t
    BY <1>1, <1>2, <1>3, <1>4, StutterKept DEF AddMemberWrite, TripTypeOK
<1>5. CASE x = t
  <2>1. owner[t] = req[r].seen /\ owner[t] \in Users
      BY <1>1, <1>2, <1>5, RunningIsPending DEF AddMemberWrite, Finish, Stale
  <2>2. Exists(t)
      BY <2>1, NobodyIsNoUser DEF Exists
  <2>3. role' = [role EXCEPT ![t] = WithMembers(role[t], {u})]
      BY <1>2, <1>5, <2>2 DEF AddMemberWrite, ForeignKeyHolds
  <2>4. \A v \in Users :
            role'[t][v] = IF v = u /\ role[t][v] = NoRole THEN "member" ELSE role[t][v]
      BY <1>1, <2>3 DEF WithMembers, TripTypeOK
  <2>5. /\ {v \in Users : IsMember(t, v)'} = {v \in Users : IsMember(t, v)} \union {u}
        /\ {v \in Users : role'[t][v] = "guide"} = {v \in Users : role[t][v] = "guide"}
      BY <2>4 DEF IsMember, NoRole
  <2>6. CASE IsMember(t, u)
      BY <1>3, <2>5, <2>6 DEF Kept, Promise!vars, IsMember
  <2>7. CASE ~IsMember(t, u)
    <3>1. Promise(t)!LetIn(u)
        BY <1>3, <2>1, <2>5, <2>7 DEF Promise!LetIn, IsMember
    <3> QED BY <3>1 DEF Kept, Promise!Next
  <2> QED BY <2>6, <2>7
<1> QED BY <1>4, <1>5

(* An unraced RemoveMember is Leave, or nothing for somebody not there.    *)
LEMMA RemoveMemberKept ==
    ASSUME TripCore, NEW r \in Requests, RemoveMemberWrite(r),
           NEW t \in Trips, t \notin raced'
    PROVE  Kept(t)
<1>1. TripTypeOK /\ req[r] # Idle
    BY TripCoreByParts DEF RemoveMemberWrite, Idle
<1>2. PICK x \in Trips, u \in Users : x = req[r].trip /\ u = req[r].target
    BY <1>1, RunningIsPending
<1>3. /\ owner' = owner
      /\ role' = [role EXCEPT ![x] = WithoutMembers(role[x], {u})]
    BY <1>2 DEF RemoveMemberWrite
<1>4. CASE x # t
    BY <1>1, <1>3, <1>4, StutterKept DEF TripTypeOK
<1>5. CASE x = t
  <2>1. owner[t] \in Users \ {u}
      BY <1>1, <1>2, <1>5, RunningIsPending, TripCoreByParts
      DEF RemoveMemberWrite, Finish, Stale, RequestSound
  <2>2. \A v \in Users : role'[t][v] = IF v = u THEN NoRole ELSE role[t][v]
      BY <1>1, <1>3, <1>5 DEF WithoutMembers, TripTypeOK
  <2>3. /\ {v \in Users : IsMember(t, v)'} = {v \in Users : IsMember(t, v)} \ {u}
        /\ {v \in Users : role'[t][v] = "guide"}
              = {v \in Users : role[t][v] = "guide"} \ {u}
      BY <2>2 DEF IsMember, NoRole
  <2>4. CASE IsMember(t, u)
    <3>1. Promise(t)!Leave(u)
        BY <1>3, <2>1, <2>3, <2>4 DEF Promise!Leave, IsMember
    <3> QED BY <3>1 DEF Kept, Promise!Next
  <2>5. CASE ~IsMember(t, u)
    <3>1. \A v \in Users : role'[t][v] = role[t][v]
        BY <2>2, <2>5 DEF IsMember
    <3>2. /\ {v \in Users : IsMember(t, v)'} = {v \in Users : IsMember(t, v)}
          /\ {v \in Users : role'[t][v] = "guide"} = {v \in Users : role[t][v] = "guide"}
        BY <3>1 DEF IsMember
    <3> QED BY <1>3, <3>2 DEF Kept, Promise!vars, IsMember
  <2> QED BY <2>4, <2>5
<1> QED BY <1>4, <1>5

(* An unraced DeleteTrip is Dissolve.                                      *)
LEMMA DeleteTripKept ==
    ASSUME TripCore, NEW r \in Requests, DeleteTripWrite(r),
           NEW t \in Trips, t \notin raced'
    PROVE  Kept(t)
<1>1. TripTypeOK /\ req[r] # Idle
    BY TripCoreByParts DEF DeleteTripWrite, Idle
<1>2. PICK x \in Trips : x = req[r].trip
    BY <1>1, RunningIsPending
<1>3. /\ owner' = [owner EXCEPT ![x] = Nobody]
      /\ role' = [role EXCEPT ![x] = WithoutMembers(role[x], Users)]
    BY <1>2 DEF DeleteTripWrite
<1>4. CASE x # t
    BY <1>1, <1>3, <1>4, StutterKept DEF TripTypeOK
<1>5. CASE x = t
  <2>1. owner[t] \in Users
      BY <1>1, <1>2, <1>5, RunningIsPending DEF DeleteTripWrite, Finish, Stale
  <2>2. owner'[t] = Nobody /\ \A v \in Users : role'[t][v] = NoRole
      BY <1>1, <1>3, <1>5 DEF WithoutMembers, TripTypeOK
  <2>3. /\ {v \in Users : IsMember(t, v)'} = {}
        /\ {v \in Users : role'[t][v] = "guide"} = {}
      BY <2>2 DEF IsMember, NoRole
  <2>4. Promise(t)!Dissolve
      BY <2>1, <2>2, <2>3 DEF Promise!Dissolve, IsMember
  <2> QED BY <2>4 DEF Kept, Promise!Next
<1> QED BY <1>4, <1>5

(* An unraced TransferOwnership is PassOn: its target is a member, and the *)
(* former owner, being the leader, has a row to keep.                      *)
LEMMA TransferKept ==
    ASSUME TripCore, OwnerLeads, NEW r \in Requests, TransferWrite(r),
           NEW t \in Trips, t \notin raced'
    PROVE  Kept(t)
<1>1. TripTypeOK /\ req[r] # Idle /\ TripSound(t)
    BY TripCoreByParts DEF TransferWrite, Idle
<1>2. PICK x \in Trips, from \in Users, to \in Users, newRole \in StepDownRoles :
          /\ x = req[r].trip /\ from = req[r].actor
          /\ to = req[r].target /\ newRole = req[r].newRole
    BY <1>1, RunningIsPending
<1>3. CASE x # t
    BY <1>1, <1>2, <1>3, StutterKept DEF TransferWrite, TripTypeOK
<1>4. CASE x = t
  <2>1. req[r].seen = from /\ from # to /\ req[r].memberSeen
      BY <1>2, TripCoreByParts DEF RequestSound, TransferWrite
  <2>2. owner[t] = from /\ role[t][to] # NoRole /\ Exists(t)
      BY <1>2, <1>4, <2>1, NobodyIsNoUser
      DEF TransferWrite, Finish, Stale, IsMember, Exists
  <2>3. t \notin raced
      BY DEF TransferWrite, Finish
  <2>4. \A v \in Users : role[t][v] = "leader" <=> v = from
      BY <2>2, <2>3 DEF OwnerLeads
  <2>5. /\ owner' = [owner EXCEPT ![t] = to]
        /\ role' = [role EXCEPT ![t] = HandOver(role[t], from, to, newRole)]
      BY <1>2, <1>4, <2>2 DEF TransferWrite
  <2>6. owner'[t] = to
      BY <1>1, <2>5 DEF TripTypeOK
  <2>7. \A v \in Users :
            role'[t][v] = IF role[t][v] = NoRole THEN NoRole
                          ELSE IF v = from THEN newRole
                          ELSE IF v = to THEN "leader" ELSE role[t][v]
      BY <1>1, <2>1, <2>5, HandOverRows DEF TripTypeOK
  <2>8. role[t][from] = "leader" /\ newRole # NoRole
      BY <2>4 DEF StepDownRoles, NoRole
  <2>9. {v \in Users : IsMember(t, v)'} = {v \in Users : IsMember(t, v)}
      BY <2>7, <2>8 DEF IsMember, NoRole
  <2>10. {v \in Users : role'[t][v] = "guide"}
           = ({v \in Users : role[t][v] = "guide"} \ {to})
               \union (IF newRole = "guide" THEN {owner[t]} ELSE {})
      BY <2>1, <2>2, <2>7, <2>8 DEF NoRole
  <2>11. Promise(t)!PassOn(to, newRole = "guide")
      BY <2>1, <2>2, <2>6, <2>9, <2>10 DEF Promise!PassOn, IsMember
  <2> QED BY <2>11 DEF Kept, Promise!Next
<1> QED BY <1>3, <1>4

(* Every step keeps the promise: one step per action of TripNext.          *)
LEMMA KeptStep ==
    ASSUME TripInv, [TripNext]_tripVars, NEW t \in Trips, t \notin raced'
    PROVE  Kept(t)
<1>1. ASSUME NEW x \in Trips, NEW u \in Users, CreateTrip(x, u) PROVE Kept(t)
    BY <1>1, CreateTripKept DEF TripInv
<1>2. ASSUME NEW r \in Requests, NEW x \in Trips, NEW actor \in Users,
             NEW target \in Users,
             \/ AddMemberCheck(r, x, actor, target)
             \/ RemoveMemberCheck(r, x, actor, target)
             \/ DeleteTripCheck(r, x, actor)
             \/ \E newRole \in StepDownRoles :
                   TransferCheckOwner(r, x, actor, target, newRole)
      PROVE  Kept(t)
    BY <1>2, NoRowsKept
    DEF AddMemberCheck, RemoveMemberCheck, DeleteTripCheck, TransferCheckOwner, Load
<1>3. ASSUME NEW r \in Requests, TransferCheckMember(r) \/ GiveUp(r) PROVE Kept(t)
    BY <1>3, NoRowsKept DEF TransferCheckMember, GiveUp
<1>4. ASSUME NEW r \in Requests, AddMemberWrite(r) PROVE Kept(t)
    BY <1>4, AddMemberKept DEF TripInv
<1>5. ASSUME NEW r \in Requests, RemoveMemberWrite(r) PROVE Kept(t)
    BY <1>5, RemoveMemberKept DEF TripInv
<1>6. ASSUME NEW r \in Requests, TransferWrite(r) PROVE Kept(t)
    BY <1>6, TransferKept DEF TripInv
<1>7. ASSUME NEW r \in Requests, DeleteTripWrite(r) PROVE Kept(t)
    BY <1>7, DeleteTripKept DEF TripInv
<1>8. CASE UNCHANGED tripVars
    BY <1>8, NoRowsKept DEF tripVars
<1> QED
    BY <1>1, <1>2, <1>3, <1>4, <1>5, <1>6, <1>7, <1>8
    DEF TripNext, TripStep, TripDeletion

(* Every trip behaves like TripOwnership for as long as no request wrote   *)
(* to it on a stale reading, for any number of overlapping requests.       *)
THEOREM ServiceKeepsPromise == TripSpec => KeepsPromise
<1>1. TripInit => \A t \in Trips : Promise(t)!Init
  <2> SUFFICES ASSUME TripInit, NEW t \in Trips PROVE Promise(t)!Init
      OBVIOUS
  <2>1. owner[t] = Nobody /\ \A u \in Users : role[t][u] = NoRole
      BY DEF TripInit
  <2> QED BY <2>1 DEF Promise!Init, IsMember, NoRole
<1>2. TripInv /\ [TripNext]_tripVars =>
          [\A t \in Trips \ raced' :
              Promise(t)!Next \/ UNCHANGED Promise(t)!vars]_tripVars
    BY KeptStep DEF Kept
<1> QED BY <1>1, <1>2, TripInvariant, PTL DEF TripSpec, KeepsPromise

-----------------------------------------------------------------------------
(* A record in greq is a running request or the idle one.                  *)
LEMMA RunningIsRequest ==
    ASSUME GroupTypeOK, NEW g \in GroupRequests, greq[g] # Idle
    PROVE  greq[g] \in GroupRequest
BY DEF GroupTypeOK

LEMMA RequestFields ==
    ASSUME NEW q \in GroupRequest
    PROVE  /\ q.op \in {"apply", "cancel", "process", "delete", "relink"}
           /\ q.phase \in {"read", "begun"} /\ q.event \in Events /\ q.host \in Users
           /\ q.app \in 0..MaxApps /\ q.user \in Users /\ q.status \in Statuses
           /\ q.link \in Trips \union {NoTrip} /\ q.newLink \in Trips \union {NoTrip}
           /\ q.evict \in SUBSET Users /\ q.admit \in SUBSET Users
           /\ q # Idle
BY DEF GroupRequest, Idle

(* Beginning the transaction keeps what was read.                          *)
LEMMA BegunFields ==
    ASSUME NEW q \in GroupRequest, NEW evict \in SUBSET Users, NEW admit \in SUBSET Users,
           NEW b, b = Begun(q, evict, admit)
    PROVE  /\ b \in GroupRequest
           /\ b.op = q.op /\ b.phase = "begun" /\ b.event = q.event /\ b.host = q.host
           /\ b.app = q.app /\ b.user = q.user /\ b.status = q.status
           /\ b.link = q.link /\ b.newLink = q.newLink
           /\ b.evict = evict /\ b.admit = admit
BY DEF Begun, GroupRequest

LEMMA AppFields ==
    ASSUME NEW q \in GroupRequest, NEW app \in 0..MaxApps, NEW b, b = [q EXCEPT !.app = app]
    PROVE  /\ b \in GroupRequest
           /\ b.op = q.op /\ b.phase = q.phase /\ b.event = q.event /\ b.host = q.host
           /\ b.app = app /\ b.user = q.user /\ b.status = q.status
           /\ b.link = q.link /\ b.newLink = q.newLink
           /\ b.evict = q.evict /\ b.admit = q.admit
BY DEF GroupRequest

LEMMA LinkFields ==
    ASSUME NEW q \in GroupRequest, NEW link \in Trips \union {NoTrip},
           NEW b, b = [q EXCEPT !.link = link]
    PROVE  /\ b \in GroupRequest
           /\ b.op = q.op /\ b.phase = q.phase /\ b.event = q.event /\ b.host = q.host
           /\ b.app = q.app /\ b.user = q.user /\ b.status = q.status
           /\ b.link = link /\ b.newLink = q.newLink
           /\ b.evict = q.evict /\ b.admit = q.admit
BY DEF GroupRequest

-----------------------------------------------------------------------------
(* What the trip service may do to the rows the event service refers to:   *)
(* besides a deletion, two operations make somebody the owner of a trip.   *)
LEMMA WhoTakesOwnership ==
    ASSUME TripStep
    PROVE  \/ \E x \in Trips, u \in Users : CreateTrip(x, u)
           \/ \E r \in Requests : TransferWrite(r)
           \/ UNCHANGED <<owner, everOwner>>
<1>1. ASSUME NEW r \in Requests, NEW t \in Trips, NEW actor \in Users,
             NEW target \in Users,
             \/ AddMemberCheck(r, t, actor, target)
             \/ RemoveMemberCheck(r, t, actor, target)
             \/ DeleteTripCheck(r, t, actor)
             \/ \E newRole \in StepDownRoles :
                   TransferCheckOwner(r, t, actor, target, newRole)
      PROVE  UNCHANGED <<owner, everOwner>>
    BY <1>1 DEF AddMemberCheck, RemoveMemberCheck, DeleteTripCheck, TransferCheckOwner, Load
<1>2. ASSUME NEW r \in Requests, TransferCheckMember(r) \/ GiveUp(r)
      PROVE  UNCHANGED <<owner, everOwner>>
    BY <1>2 DEF TransferCheckMember, GiveUp
<1>3. ASSUME NEW r \in Requests, AddMemberWrite(r) \/ RemoveMemberWrite(r)
      PROVE  UNCHANGED <<owner, everOwner>>
    BY <1>3 DEF AddMemberWrite, RemoveMemberWrite
<1> QED BY <1>1, <1>2, <1>3 DEF TripStep

LEMMA OwnersAreKept ==
    ASSUME TripTypeOK, [TripNext]_tripVars, NEW t \in Trips
    PROVE  everOwner[t] \subseteq everOwner'[t]
<1>1. ASSUME NEW x \in Trips, NEW u \in Users, CreateTrip(x, u)
      PROVE  everOwner[t] \subseteq everOwner'[t]
    BY <1>1 DEF CreateTrip, TripTypeOK
<1>2. ASSUME NEW r \in Requests, TransferWrite(r)
      PROVE  everOwner[t] \subseteq everOwner'[t]
    BY <1>2 DEF TransferWrite, TripTypeOK
<1>3. CASE TripStep
    BY <1>1, <1>2, <1>3, WhoTakesOwnership
<1>4. CASE TripDeletion
    BY <1>4 DEF TripDeletion, DeleteTripWrite
<1>5. CASE UNCHANGED tripVars
    BY <1>5 DEF tripVars
<1> QED BY <1>3, <1>4, <1>5 DEF TripNext

(* Only a deletion takes a trip away.                                      *)
LEMMA TripsStay ==
    ASSUME TripTypeOK, TripStep, NEW t \in Trips, Exists(t)
    PROVE  Exists(t)'
<1>1. ASSUME NEW x \in Trips, NEW u \in Users, CreateTrip(x, u) PROVE Exists(t)'
    BY <1>1, NobodyIsNoUser DEF CreateTrip, TripTypeOK, Exists
<1>2. ASSUME NEW r \in Requests, TransferWrite(r) PROVE Exists(t)'
  <2>1. req[r].target \in Users
      BY <1>2, RunningIsPending DEF TransferWrite, Idle
  <2> QED BY <1>2, <2>1, NobodyIsNoUser DEF TransferWrite, TripTypeOK, Exists
<1> QED BY <1>1, <1>2, WhoTakesOwnership DEF Exists

-----------------------------------------------------------------------------
(* What WritesJustified says of one request.                               *)
Justified(g) ==
    LET q == greq[g] IN
    /\ q.op \in {"apply", "process"} => q.newLink = q.link
    /\ q.op = "apply" /\ q.phase = "begun" => EventExists(q.event) /\ q.app # NoApp
    /\ q # Idle /\ q.admit # {} => q.newLink \in Trips /\ q.host \in everOwner[q.newLink]
    /\ q # Idle /\ q.evict # {} =>
           /\ q.link \in Trips
           /\ \A u \in q.evict : u = q.host \/ q.host \in everOwner[q.link]

LEMMA JustifiedByParts == WritesJustified <=> \A g \in GroupRequests : Justified(g)
BY DEF WritesJustified, Justified

LEMMA JustifiedNext == (\A g \in GroupRequests : Justified(g)') => WritesJustified'
BY DEF WritesJustified, Justified

(* A request a step does not run stays justified, as long as the event it  *)
(* is applying to stays.                                                   *)
LEMMA StillJustified ==
    ASSUME GroupTypeOK, NEW g \in GroupRequests, Justified(g), greq'[g] = greq[g],
           \A t \in Trips : everOwner[t] \subseteq everOwner'[t],
           \A e \in Events :
               greq[g] # Idle /\ greq[g].op = "apply" /\ greq[g].phase = "begun"
                   /\ greq[g].event = e /\ EventExists(e) => EventExists(e)'
    PROVE  Justified(g)'
<1>1. CASE greq[g] = Idle
    BY <1>1 DEF Justified, Idle
<1>2. CASE greq[g] # Idle
  <2>1. PICK q \in GroupRequest : q = greq[g]
      BY <1>2, RunningIsRequest
  <2> QED BY <1>2, <2>1, RequestFields DEF Justified
<1> QED BY <1>1, <1>2

LEMMA IdleJustified ==
    ASSUME NEW g \in GroupRequests, greq'[g] = Idle
    PROVE  Justified(g)'
BY DEF Justified, Idle

-----------------------------------------------------------------------------
(* The member rows after a commit: everybody to be evicted is off the old  *)
(* trip, then everybody to be admitted is on the new one.                  *)
Evicted(q, t, u) == IF t = q.link /\ u \in q.evict THEN NoRole ELSE role[t][u]
RowAfter(q, t, u) ==
    IF t = q.newLink /\ u \in q.admit /\ Evicted(q, t, u) = NoRole
      THEN "member" ELSE Evicted(q, t, u)

LEMMA RowsAfter ==
    ASSUME TripTypeOK, NEW q \in GroupRequest,
           q.evict # {} => q.link \in Trips,
           q.admit # {} => q.newLink \in Trips
    PROVE  /\ MembersAfter(q) \in [Trips -> [Users -> Roles \union {NoRole}]]
           /\ \A t \in Trips, u \in Users : MembersAfter(q)[t][u] = RowAfter(q, t, u)
<1>1. q.evict \in SUBSET Users /\ q.admit \in SUBSET Users
    BY RequestFields
<1>2. role \in [Trips -> [Users -> Roles \union {NoRole}]]
    BY DEF TripTypeOK
<1> DEFINE base == AfterEviction(q)
<1>3. /\ base \in [Trips -> [Users -> Roles \union {NoRole}]]
      /\ \A t \in Trips, u \in Users : base[t][u] = Evicted(q, t, u)
  <2>1. CASE q.evict = {}
      BY <1>2, <2>1 DEF AfterEviction, Evicted
  <2>2. CASE q.evict # {}
    <3>1. PICK x \in Trips : x = q.link
        BY <2>2
    <3>2. base = [role EXCEPT ![x] = WithoutMembers(role[x], q.evict)]
        BY <2>2, <3>1 DEF AfterEviction
    <3>3. WithoutMembers(role[x], q.evict)
             = [u \in Users |-> IF u \in q.evict THEN NoRole ELSE role[x][u]]
        BY DEF WithoutMembers
    <3> QED BY <1>1, <1>2, <3>1, <3>2, <3>3 DEF Evicted
  <2> QED BY <2>1, <2>2
<1>4. CASE q.admit = {}
    BY <1>3, <1>4 DEF MembersAfter, RowAfter
<1>5. CASE q.admit # {}
  <2>1. PICK x \in Trips : x = q.newLink
      BY <1>5
  <2>2. MembersAfter(q) = [base EXCEPT ![x] = WithMembers(base[x], q.admit)]
      BY <1>5, <2>1 DEF MembersAfter
  <2>3. WithMembers(base[x], q.admit)
           = [u \in Users |-> IF u \in q.admit /\ base[x][u] = NoRole
                                THEN "member" ELSE base[x][u]]
      BY DEF WithMembers
  <2> HIDE DEF base
  <2> QED BY <1>1, <1>3, <2>1, <2>2, <2>3 DEF RowAfter, Roles
<1> QED BY <1>4, <1>5

(* A commit leaves the trips as sound as they were.                        *)
LEMMA CommitKeepsCore ==
    ASSUME TripCore, NEW q \in GroupRequest,
           q.evict # {} => q.link \in Trips,
           q.admit # {} => q.newLink \in Trips /\ Exists(q.newLink),
           role' = MembersAfter(q), UNCHANGED <<owner, req, everOwner, raced>>
    PROVE  TripCore'
<1>1. TripTypeOK /\ TripTypeOK'
    BY RowsAfter DEF TripCore, TripTypeOK
<1>2. \A t \in Trips, u \in Users : role'[t][u] = RowAfter(q, t, u)
    BY <1>1, RowsAfter
<1>3. ASSUME NEW t \in Trips PROVE TripSound(t)'
  <2>1. TripSound(t)
      BY TripCoreByParts
  <2>2. ASSUME NEW u \in Users, IsMember(t, u)' PROVE Exists(t)
      BY <1>2, <2>1, <2>2 DEF TripSound, IsMember, RowAfter, Evicted
  <2>3. ASSUME NEW u \in Users, MayEdit(t, u)' PROVE u \in everOwner[t]
      BY <1>2, <2>1, <2>3
      DEF TripSound, MayEdit, RequireRole, Exists, RowAfter, Evicted, NoRole
  <2> QED BY <2>1, <2>2, <2>3 DEF TripSound, Exists
<1>4. ASSUME NEW r \in Requests PROVE RequestSound(r)'
    BY TripCoreByParts DEF RequestSound
<1> QED BY <1>1, <1>3, <1>4, CoreHolds

-----------------------------------------------------------------------------
(* Each step of the event service keeps GroupInv.  First the steps that    *)
(* leave the trips alone.                                                  *)
LEMMA TripsUntouched ==
    ASSUME TripCore, UNCHANGED tripVars
    PROVE  TripCore' /\ \A t \in Trips : everOwner[t] \subseteq everOwner'[t]
BY CoreStep DEF tripVars

(* A request that starts, goes on or ends, and no other.                   *)
LEMMA RequestStep ==
    ASSUME GroupInv, NEW g \in GroupRequests, NEW q \in GroupRequest \union {Idle},
           greq' = [greq EXCEPT ![g] = q], Justified(g)',
           UNCHANGED <<tripVars, event>>
    PROVE  /\ greq' \in [GroupRequests -> GroupRequest \union {Idle}]
           /\ WritesJustified'
<1>1. GroupTypeOK /\ TripCore
    BY DEF GroupInv
<1>2. ASSUME NEW h \in GroupRequests, h # g PROVE Justified(h)'
  <2>1. greq'[h] = greq[h] /\ Justified(h)
      BY <1>1, <1>2, JustifiedByParts DEF GroupInv, GroupTypeOK
  <2> QED BY <1>1, <2>1, TripsUntouched, StillJustified DEF EventExists
<1> QED BY <1>1, <1>2, JustifiedNext DEF GroupTypeOK

LEMMA ReferencesUntouched ==
    ASSUME ReferencesExist, UNCHANGED <<tripVars, event, apps>>
    PROVE  ReferencesExist'
BY DEF ReferencesExist, LinkHolds, EventExists, Exists, tripVars

LEMMA ReadStep ==
    ASSUME GroupInv, NEW g \in GroupRequests, NEW e \in Events,
           NEW op \in {"apply", "cancel", "process", "delete", "relink"},
           NEW app \in 0..MaxApps, NEW user \in Users, NEW status \in Statuses,
           NEW newLink \in Trips \union {NoTrip},
           op \in {"apply", "process"} => newLink = event[e].link,
           ReadEvent(g, op, e, app, user, status, newLink)
    PROVE  GroupInv'
<1> DEFINE q == [op |-> op, phase |-> "read", event |-> e, host |-> event[e].host,
                 app |-> app, user |-> user, status |-> status,
                 link |-> event[e].link, newLink |-> newLink,
                 evict |-> {}, admit |-> {}]
<1>1. GroupTypeOK /\ TripCore
    BY DEF GroupInv
<1>2. q \in GroupRequest
    BY <1>1 DEF ReadEvent, EventExists, GroupTypeOK, EventRow, GroupRequest
<1>3. greq' = [greq EXCEPT ![g] = q] /\ UNCHANGED <<tripVars, event, retired, apps, nextApp>>
    BY DEF ReadEvent
<1>4. greq'[g] = q
    BY <1>1, <1>3 DEF GroupTypeOK
<1>5. Justified(g)'
    BY <1>4 DEF Justified
<1> HIDE DEF q
<1>6. greq' \in [GroupRequests -> GroupRequest \union {Idle}] /\ WritesJustified'
    BY <1>2, <1>3, <1>5, RequestStep
<1> QED BY <1>1, <1>3, <1>6, TripsUntouched, ReferencesUntouched DEF GroupInv, GroupTypeOK

LEMMA AbandonStep ==
    ASSUME GroupInv, NEW g \in GroupRequests, Abandon(g)
    PROVE  GroupInv'
<1>1. GroupTypeOK /\ TripCore
    BY DEF GroupInv
<1>2. greq'[g] = Idle
    BY <1>1 DEF Abandon, GroupTypeOK
<1>3. greq' \in [GroupRequests -> GroupRequest \union {Idle}] /\ WritesJustified'
    BY <1>2, IdleJustified, RequestStep DEF Abandon
<1> QED BY <1>1, <1>3, TripsUntouched, ReferencesUntouched DEF Abandon, GroupInv, GroupTypeOK

(* Who owns a trip now has owned it.                                       *)
LEMMA OwnerHasOwned ==
    ASSUME TripCore, NEW t \in Trips, NEW u, RequireOwner(t, u)
    PROVE  u \in everOwner[t]
BY DEF RequireOwner, TripCore, OwnersRecorded

LEMMA RemoverHasOwned ==
    ASSUME TripCore, NEW t \in Trips, NEW u, NEW v, MayRemove(t, u, v)
    PROVE  v = u \/ u \in everOwner[t]
BY OwnerHasOwned DEF MayRemove

(* A request whose transaction is about to begin, and its event's row.     *)
LEMMA BeforeBegin ==
    ASSUME GroupInv, NEW g \in GroupRequests, greq[g].op # "idle"
    PROVE  /\ greq[g] \in GroupRequest
           /\ greq[g].op \in {"apply", "process"} => greq[g].newLink = greq[g].link
           /\ event[greq[g].event].link \in Trips \union {NoTrip}
<1>1. GroupTypeOK /\ greq[g] # Idle
    BY DEF GroupInv, Idle
<1>2. greq[g] \in GroupRequest
    BY <1>1, RunningIsRequest
<1>3. greq[g].event \in Events
    BY <1>2, RequestFields
<1> QED BY <1>1, <1>2, <1>3 DEF GroupInv, WritesJustified, GroupTypeOK, EventRow

LEMMA ApprovedAreUsers == GroupTypeOK => \A e \in Events : Approved(e) \in SUBSET Users
BY DEF GroupTypeOK, Approved, AppRow

(* The request that has begun: as it was read, with its decisions, the id  *)
(* of a new application and the link a cancellation reads again.           *)
BegunAs(g, b, op, evict, admit) ==
    LET q == greq[g] IN
    /\ q \in GroupRequest /\ b \in GroupRequest /\ Begin(g, op, b)
    /\ q.op = op /\ b.op = op /\ b.phase = "begun"
    /\ b.event = q.event /\ b.host = q.host /\ b.user = q.user /\ b.status = q.status
    /\ b.newLink = q.newLink /\ b.evict = evict /\ b.admit = admit
    /\ IF op = "apply" THEN b.app = nextApp /\ nextApp \in 1..MaxApps /\ nextApp' = nextApp + 1
                       ELSE b.app = q.app /\ nextApp' = nextApp
    /\ b.link = IF op = "cancel" THEN event[q.event].link ELSE q.link

LEMMA ApplyBegins ==
    ASSUME GroupInv, NEW g \in GroupRequests, ApplyBegin(g),
           NEW joining, joining = IF greq[g].status = "approved" /\ greq[g].link # NoTrip
                                    THEN {greq[g].user} ELSE {}
    PROVE  /\ \E b : BegunAs(g, b, "apply", {}, joining)
           /\ EventExists(greq[g].event)
           /\ \A u \in joining : RequireOwner(greq[g].link, greq[g].host)
<1> DEFINE q == greq[g]
           b1 == Begun(q, {}, joining)
           b == [b1 EXCEPT !.app = nextApp]
<1>1. /\ GroupTypeOK /\ q.op = "apply" /\ Begin(g, "apply", b) /\ EventExists(q.event)
      /\ nextApp' = nextApp + 1 /\ nextApp \in 1..MaxApps
      /\ \A u \in joining : RequireOwner(q.link, q.host)
    BY MaxAppsIsCount DEF GroupInv, ApplyBegin, Begin, GroupTypeOK
<1>2. q \in GroupRequest /\ joining \in SUBSET Users
    BY <1>1, BeforeBegin, RequestFields
<1>3. nextApp \in 0..MaxApps
    BY <1>1
<1> HIDE DEF q
<1>4. /\ b1 \in GroupRequest /\ b1.op = q.op /\ b1.phase = "begun" /\ b1.event = q.event
      /\ b1.host = q.host /\ b1.user = q.user /\ b1.status = q.status
      /\ b1.link = q.link /\ b1.newLink = q.newLink /\ b1.evict = {} /\ b1.admit = joining
    BY <1>2, BegunFields
<1> HIDE DEF b1
<1>5. /\ b \in GroupRequest /\ b.op = q.op /\ b.phase = "begun" /\ b.event = q.event
      /\ b.host = q.host /\ b.user = q.user /\ b.status = q.status /\ b.app = nextApp
      /\ b.link = q.link /\ b.newLink = q.newLink /\ b.evict = {} /\ b.admit = joining
    BY <1>3, <1>4, AppFields
<1> HIDE DEF b
<1>6. BegunAs(g, b, "apply", {}, joining)
    BY <1>1, <1>2, <1>5 DEF BegunAs, q
<1> QED BY <1>1, <1>6 DEF q

LEMMA CancelBegins ==
    ASSUME GroupInv, NEW g \in GroupRequests, CancelBegin(g), NEW now,
           NEW leaving, now = event[greq[g].event].link,
           leaving = IF greq[g].status = "approved" /\ now # NoTrip THEN {greq[g].user} ELSE {}
    PROVE  /\ \E b : BegunAs(g, b, "cancel", leaving, {})
           /\ \A u \in leaving : MayRemove(now, greq[g].host, u)
<1> DEFINE q == greq[g]
           b1 == Begun(q, leaving, {})
           b == [b1 EXCEPT !.link = now]
<1>1. /\ q.op = "cancel" /\ Begin(g, "cancel", b) /\ nextApp' = nextApp
      /\ \A u \in leaving : MayRemove(now, q.host, u)
    BY DEF CancelBegin, Begin
<1>2. q \in GroupRequest /\ leaving \in SUBSET Users /\ now \in Trips \union {NoTrip}
    BY <1>1, BeforeBegin, RequestFields
<1>3. now = event[q.event].link
    OBVIOUS
<1> HIDE DEF q
<1>4. /\ b1 \in GroupRequest /\ b1.op = q.op /\ b1.phase = "begun" /\ b1.event = q.event
      /\ b1.host = q.host /\ b1.user = q.user /\ b1.status = q.status /\ b1.app = q.app
      /\ b1.newLink = q.newLink /\ b1.evict = leaving /\ b1.admit = {}
    BY <1>2, BegunFields
<1> HIDE DEF b1
<1>5. /\ b \in GroupRequest /\ b.op = q.op /\ b.phase = "begun" /\ b.event = q.event
      /\ b.host = q.host /\ b.user = q.user /\ b.status = q.status /\ b.app = q.app
      /\ b.link = now /\ b.newLink = q.newLink /\ b.evict = leaving /\ b.admit = {}
    BY <1>2, <1>4, LinkFields
<1> HIDE DEF b
<1>6. BegunAs(g, b, "cancel", leaving, {})
    BY <1>1, <1>2, <1>3, <1>5 DEF BegunAs, q
<1> QED BY <1>1, <1>6 DEF q

(* The other three only add their decisions.                               *)
LEMMA Begins ==
    ASSUME GroupInv, NEW g \in GroupRequests, NEW op \in {"process", "delete", "relink"},
           NEW evict \in SUBSET Users, NEW admit \in SUBSET Users,
           Begin(g, op, Begun(greq[g], evict, admit)), UNCHANGED nextApp
    PROVE  \E b : BegunAs(g, b, op, evict, admit)
<1> DEFINE q == greq[g]
           b == Begun(q, evict, admit)
<1>1. q.op = op /\ Begin(g, op, b)
    BY DEF Begin
<1>2. q \in GroupRequest
    BY <1>1, BeforeBegin
<1> HIDE DEF q
<1>3. /\ b \in GroupRequest /\ b.op = q.op /\ b.phase = "begun" /\ b.event = q.event
      /\ b.host = q.host /\ b.user = q.user /\ b.status = q.status /\ b.app = q.app
      /\ b.link = q.link /\ b.newLink = q.newLink /\ b.evict = evict /\ b.admit = admit
    BY <1>2, BegunFields
<1> HIDE DEF b
<1>4. BegunAs(g, b, op, evict, admit)
    BY <1>1, <1>2, <1>3 DEF BegunAs, q
<1> QED BY <1>4

LEMMA ProcessBegins ==
    ASSUME GroupInv, NEW g \in GroupRequests, ProcessBegin(g), NEW joining, NEW leaving,
           joining = IF greq[g].link # NoTrip /\ greq[g].status = "approved"
                       THEN {greq[g].user} ELSE {},
           leaving = IF greq[g].link # NoTrip /\ greq[g].status = "rejected"
                       THEN {greq[g].user} ELSE {}
    PROVE  /\ \E b : BegunAs(g, b, "process", leaving, joining)
           /\ \A u \in joining : RequireOwner(greq[g].link, greq[g].host)
           /\ \A u \in leaving : MayRemove(greq[g].link, greq[g].host, u)
<1>1. /\ Begin(g, "process", Begun(greq[g], leaving, joining)) /\ UNCHANGED nextApp
      /\ \A u \in joining : RequireOwner(greq[g].link, greq[g].host)
      /\ \A u \in leaving : MayRemove(greq[g].link, greq[g].host, u)
    BY DEF ProcessBegin
<1>2. joining \in SUBSET Users /\ leaving \in SUBSET Users
    BY <1>1, BeforeBegin, RequestFields DEF Begin
<1> QED BY <1>1, <1>2, Begins

LEMMA DeleteEventBegins ==
    ASSUME GroupInv, NEW g \in GroupRequests, DeleteEventBegin(g), NEW leaving,
           leaving = IF greq[g].link # NoTrip THEN Approved(greq[g].event) ELSE {}
    PROVE  /\ \E b : BegunAs(g, b, "delete", leaving, {})
           /\ \A u \in leaving : RequireOwner(greq[g].link, greq[g].host)
<1>1. /\ Begin(g, "delete", Begun(greq[g], leaving, {})) /\ UNCHANGED nextApp
      /\ \A u \in leaving : RequireOwner(greq[g].link, greq[g].host)
    BY DEF DeleteEventBegin, Dismissed
<1>2. leaving \in SUBSET Users
    BY <1>1, BeforeBegin, RequestFields, ApprovedAreUsers DEF Begin, GroupInv
<1> QED BY <1>1, <1>2, Begins

LEMMA RelinkBegins ==
    ASSUME GroupInv, NEW g \in GroupRequests, RelinkBegin(g), NEW moving, NEW joining,
           moving = Moving(greq[g]),
           joining = IF greq[g].newLink = NoTrip THEN {} ELSE moving
    PROVE  /\ \E b : BegunAs(g, b, "relink", moving, joining)
           /\ \A u \in moving : RequireOwner(greq[g].link, greq[g].host)
           /\ \A u \in joining : RequireOwner(greq[g].newLink, greq[g].host)
<1>1. /\ Begin(g, "relink", Begun(greq[g], moving, joining)) /\ UNCHANGED nextApp
      /\ \A u \in moving : RequireOwner(greq[g].link, greq[g].host)
      /\ \A u \in joining : RequireOwner(greq[g].newLink, greq[g].host)
    BY DEF RelinkBegin
<1>2. moving \in SUBSET Users /\ joining \in SUBSET Users
    BY <1>1, BeforeBegin, RequestFields, ApprovedAreUsers DEF Begin, GroupInv, Moving
<1> QED BY <1>1, <1>2, Begins

(* A transaction may begin to write what its checks have justified.        *)
LEMMA BeginStep ==
    ASSUME GroupInv, NEW g \in GroupRequests, NEW b, NEW evict, NEW admit,
           NEW op \in {"apply", "cancel", "process", "delete", "relink"},
           BegunAs(g, b, op, evict, admit),
           op = "apply" => EventExists(b.event),
           \A u \in admit : b.newLink \in Trips /\ RequireOwner(b.newLink, b.host),
           \A u \in evict : /\ b.link \in Trips
                            /\ RequireOwner(b.link, b.host) \/ MayRemove(b.link, b.host, u)
    PROVE  GroupInv'
<1>1. GroupTypeOK /\ TripCore /\ b \in GroupRequest /\ b.op = op
    BY DEF GroupInv, BegunAs
<1>2. greq' = [greq EXCEPT ![g] = b] /\ UNCHANGED <<tripVars, event, retired, apps>>
    BY DEF BegunAs, Begin
<1>3. greq'[g] = b /\ everOwner' = everOwner /\ event' = event
    BY <1>1, <1>2 DEF GroupTypeOK, tripVars
<1>4. b.op \in {"apply", "process"} => b.newLink = b.link
    BY BeforeBegin DEF BegunAs
<1>5. nextApp' \in 1..(MaxApps + 1) /\ (op = "apply" => b.app # NoApp)
    BY <1>1, MaxAppsIsCount DEF BegunAs, GroupTypeOK, NoApp
<1>6. b.admit # {} => b.newLink \in Trips /\ b.host \in everOwner[b.newLink]
    BY <1>1, OwnerHasOwned DEF BegunAs
<1>7. b.evict # {} =>
          b.link \in Trips /\ \A u \in b.evict : u = b.host \/ b.host \in everOwner[b.link]
    BY <1>1, OwnerHasOwned, RemoverHasOwned DEF BegunAs
<1>8. Justified(g)'
    BY <1>1, <1>3, <1>4, <1>5, <1>6, <1>7 DEF Justified, EventExists
<1>9. greq' \in [GroupRequests -> GroupRequest \union {Idle}] /\ WritesJustified'
    BY <1>1, <1>2, <1>8, RequestStep
<1> QED BY <1>1, <1>2, <1>5, <1>9, TripsUntouched, ReferencesUntouched DEF GroupInv, GroupTypeOK

LEMMA ApplyBeginStep ==
    ASSUME GroupInv, NEW g \in GroupRequests, ApplyBegin(g)
    PROVE  GroupInv'
<1> DEFINE joining == IF greq[g].status = "approved" /\ greq[g].link # NoTrip
                        THEN {greq[g].user} ELSE {}
<1>1. PICK b : BegunAs(g, b, "apply", {}, joining)
    BY ApplyBegins
<1>2. EventExists(greq[g].event) /\ \A u \in joining : RequireOwner(greq[g].link, greq[g].host)
    BY ApplyBegins
<1>3. b.newLink = greq[g].link /\ b.event = greq[g].event /\ b.host = greq[g].host
    BY <1>1, BeforeBegin DEF BegunAs
<1>4. joining # {} => b.newLink \in Trips
    BY <1>1, <1>3, RequestFields DEF BegunAs
<1> HIDE DEF joining
<1> QED BY <1>1, <1>2, <1>3, <1>4, BeginStep

LEMMA CancelBeginStep ==
    ASSUME GroupInv, NEW g \in GroupRequests, CancelBegin(g)
    PROVE  GroupInv'
<1> DEFINE now == event[greq[g].event].link
           leaving == IF greq[g].status = "approved" /\ now # NoTrip THEN {greq[g].user} ELSE {}
<1>1. PICK b : BegunAs(g, b, "cancel", leaving, {})
    BY CancelBegins
<1>2. \A u \in leaving : MayRemove(now, greq[g].host, u)
    BY CancelBegins
<1>3. b.link = now /\ b.host = greq[g].host
    BY <1>1 DEF BegunAs
<1>4. leaving # {} => b.link \in Trips
    BY <1>1, <1>3, RequestFields DEF BegunAs
<1> HIDE DEF now, leaving
<1> QED BY <1>1, <1>2, <1>3, <1>4, BeginStep

LEMMA ProcessBeginStep ==
    ASSUME GroupInv, NEW g \in GroupRequests, ProcessBegin(g)
    PROVE  GroupInv'
<1> DEFINE joining == IF greq[g].link # NoTrip /\ greq[g].status = "approved"
                        THEN {greq[g].user} ELSE {}
           leaving == IF greq[g].link # NoTrip /\ greq[g].status = "rejected"
                        THEN {greq[g].user} ELSE {}
<1>1. PICK b : BegunAs(g, b, "process", leaving, joining)
    BY ProcessBegins
<1>2. /\ \A u \in joining : RequireOwner(greq[g].link, greq[g].host)
      /\ \A u \in leaving : MayRemove(greq[g].link, greq[g].host, u)
    BY ProcessBegins
<1>3. b.newLink = greq[g].link /\ b.link = greq[g].link /\ b.host = greq[g].host
    BY <1>1, BeforeBegin DEF BegunAs
<1>4. joining # {} \/ leaving # {} => b.link \in Trips
    BY <1>1, <1>3, RequestFields DEF BegunAs
<1> HIDE DEF joining, leaving
<1> QED BY <1>1, <1>2, <1>3, <1>4, BeginStep

LEMMA DeleteEventBeginStep ==
    ASSUME GroupInv, NEW g \in GroupRequests, DeleteEventBegin(g)
    PROVE  GroupInv'
<1> DEFINE leaving == IF greq[g].link # NoTrip THEN Approved(greq[g].event) ELSE {}
<1>1. PICK b : BegunAs(g, b, "delete", leaving, {})
    BY DeleteEventBegins
<1>2. \A u \in leaving : RequireOwner(greq[g].link, greq[g].host)
    BY DeleteEventBegins
<1>3. b.link = greq[g].link /\ b.host = greq[g].host
    BY <1>1 DEF BegunAs
<1>4. leaving # {} => b.link \in Trips
    BY <1>1, <1>3, RequestFields DEF BegunAs
<1> HIDE DEF leaving
<1> QED BY <1>1, <1>2, <1>3, <1>4, BeginStep

LEMMA RelinkBeginStep ==
    ASSUME GroupInv, NEW g \in GroupRequests, RelinkBegin(g)
    PROVE  GroupInv'
<1> DEFINE moving == Moving(greq[g])
           joining == IF greq[g].newLink = NoTrip THEN {} ELSE moving
<1>1. PICK b : BegunAs(g, b, "relink", moving, joining)
    BY RelinkBegins
<1>2. /\ \A u \in moving : RequireOwner(greq[g].link, greq[g].host)
      /\ \A u \in joining : RequireOwner(greq[g].newLink, greq[g].host)
    BY RelinkBegins
<1>3. b.newLink = greq[g].newLink /\ b.link = greq[g].link /\ b.host = greq[g].host
    BY <1>1 DEF BegunAs
<1>4. (moving # {} => b.link \in Trips) /\ (joining # {} => b.newLink \in Trips)
    BY <1>1, <1>3, RequestFields DEF BegunAs, Moving
<1> HIDE DEF moving, joining
<1> QED BY <1>1, <1>2, <1>3, <1>4, BeginStep

-----------------------------------------------------------------------------
(* Now the commits.  What they write is what the requests justified.       *)
LEMMA Committed ==
    ASSUME GroupInv, NEW g \in GroupRequests, NEW op, op # "idle", Commit(g, op)
    PROVE  /\ TripCore' /\ WritesJustified' = (\A h \in GroupRequests : Justified(h)')
           /\ greq[g] \in GroupRequest /\ Justified(g)
           /\ greq' \in [GroupRequests -> GroupRequest \union {Idle}]
           /\ \A t \in Trips, u \in Users : role'[t][u] = RowAfter(greq[g], t, u)
           /\ UNCHANGED <<owner, everOwner, nextApp>>
           /\ greq'[g] = Idle
           /\ \A h \in GroupRequests \ {g} : greq'[h] = greq[h]
<1>1. GroupTypeOK /\ TripCore /\ greq[g] # Idle
    BY DEF GroupInv, Commit, Idle
<1>2. greq[g] \in GroupRequest /\ Justified(g)
    BY <1>1, RunningIsRequest, JustifiedByParts DEF GroupInv
<1>3. /\ greq[g].evict # {} => greq[g].link \in Trips
      /\ greq[g].admit # {} => greq[g].newLink \in Trips /\ Exists(greq[g].newLink)
    BY <1>1, <1>2 DEF Justified, Commit, ForeignKeyHolds
<1>4. /\ role' = MembersAfter(greq[g]) /\ greq' = [greq EXCEPT ![g] = Idle]
      /\ UNCHANGED <<owner, req, everOwner, raced, nextApp>>
    BY DEF Commit
<1>5. TripCore'
    BY <1>1, <1>2, <1>3, <1>4, CommitKeepsCore
<1>6. \A t \in Trips, u \in Users : role'[t][u] = RowAfter(greq[g], t, u)
    BY <1>1, <1>2, <1>3, <1>4, RowsAfter DEF TripCore
<1>7. greq' \in [GroupRequests -> GroupRequest \union {Idle}]
    BY <1>1, <1>4 DEF GroupTypeOK
<1>8. greq'[g] = Idle /\ \A h \in GroupRequests \ {g} : greq'[h] = greq[h]
    BY <1>1, <1>4 DEF GroupTypeOK
<1>9. WritesJustified' = (\A h \in GroupRequests : Justified(h)')
    BY DEF WritesJustified, Justified
<1> QED BY <1>2, <1>4, <1>5, <1>6, <1>7, <1>8, <1>9

(* The other requests stay justified, unless an event goes that somebody   *)
(* is applying to.                                                         *)
LEMMA CommitKeepsRequests ==
    ASSUME GroupInv, NEW g \in GroupRequests, NEW op, op # "idle", Commit(g, op),
           \A h \in GroupRequests \ {g}, e \in Events :
               greq[h] # Idle /\ greq[h].op = "apply" /\ greq[h].phase = "begun"
                   /\ greq[h].event = e /\ EventExists(e) => EventExists(e)'
    PROVE  WritesJustified'
<1>1. Justified(g)'
    BY Committed, IdleJustified
<1>2. ASSUME NEW h \in GroupRequests, h # g PROVE Justified(h)'
  <2>1. greq'[h] = greq[h] /\ everOwner' = everOwner
      BY <1>2, Committed
  <2>2. GroupTypeOK /\ Justified(h)
      BY JustifiedByParts DEF GroupInv
  <2> QED BY <1>2, <2>1, <2>2, StillJustified
<1> QED BY <1>1, <1>2, JustifiedNext

LEMMA LinksStay ==
    ASSUME UNCHANGED owner, NEW e \in Events, LinkHolds(event'[e].link)
    PROVE  LinkHolds(event[e].link)'
BY DEF LinkHolds, Exists

LEMMA ApplyCommitStep ==
    ASSUME GroupInv, NEW g \in GroupRequests, ApplyCommit(g)
    PROVE  GroupInv'
<1> DEFINE q == greq[g]
           x == [id |-> q.app, event |-> q.event, user |-> q.user, status |-> q.status]
<1>1. GroupTypeOK /\ Commit(g, "apply") /\ UNCHANGED <<event, retired>>
      /\ apps' = apps \union {x}
    BY DEF GroupInv, ApplyCommit
<1>2. q \in GroupRequest /\ Justified(g) /\ q.op = "apply" /\ q.phase = "begun"
    BY <1>1, Committed DEF Commit
<1>3. EventExists(q.event) /\ x \in AppRow
  <2>1. EventExists(q.event) /\ q.app # NoApp
      BY <1>2 DEF Justified
  <2>2. q.app \in 1..MaxApps
      BY <1>2, <2>1, RequestFields, MaxAppsIsCount DEF NoApp
  <2> QED BY <1>2, <2>1, <2>2, RequestFields DEF AppRow
<1>4. GroupTypeOK'
    BY <1>1, <1>3, Committed DEF GroupTypeOK
<1>5. ReferencesExist'
  <2>1. \A e \in Events : LinkHolds(event[e].link)'
      BY <1>1, Committed, LinksStay DEF GroupInv, ReferencesExist
  <2>2. ASSUME NEW y \in apps' PROVE EventExists(y.event)'
      BY <1>1, <1>3 DEF GroupInv, ReferencesExist, EventExists
  <2> QED BY <2>1, <2>2 DEF ReferencesExist
<1>6. WritesJustified'
  <2>1. \A e \in Events : EventExists(e) => EventExists(e)'
      BY <1>1 DEF EventExists
  <2> QED BY <1>1, <2>1, CommitKeepsRequests
<1> QED BY <1>1, <1>4, <1>5, <1>6, Committed DEF GroupInv

LEMMA CancelCommitStep ==
    ASSUME GroupInv, NEW g \in GroupRequests, CancelCommit(g)
    PROVE  GroupInv'
<1>1. GroupTypeOK /\ Commit(g, "cancel") /\ UNCHANGED <<event, retired>>
      /\ apps' \subseteq apps
    BY DEF GroupInv, CancelCommit
<1>2. GroupTypeOK'
    BY <1>1, Committed DEF GroupTypeOK
<1>3. ReferencesExist'
    BY <1>1, Committed, LinksStay DEF GroupInv, ReferencesExist, EventExists
<1>4. WritesJustified'
  <2>1. \A e \in Events : EventExists(e) => EventExists(e)'
      BY <1>1 DEF EventExists
  <2> QED BY <1>1, <2>1, CommitKeepsRequests
<1> QED BY <1>1, <1>2, <1>3, <1>4, Committed DEF GroupInv

LEMMA ProcessCommitStep ==
    ASSUME GroupInv, NEW g \in GroupRequests, ProcessCommit(g)
    PROVE  GroupInv'
<1>1. GroupTypeOK /\ Commit(g, "process") /\ UNCHANGED <<event, retired>>
    BY DEF GroupInv, ProcessCommit
<1>2. greq[g].status \in Statuses
    BY <1>1, Committed, RequestFields
<1>3. ASSUME NEW y \in apps' PROVE y \in AppRow /\ EventExists(y.event)
  <2>1. PICK x \in apps :
            y = IF x.id = greq[g].app THEN [x EXCEPT !.status = greq[g].status] ELSE x
      BY DEF ProcessCommit
  <2>2. x \in AppRow /\ EventExists(x.event)
      BY <1>1 DEF GroupInv, GroupTypeOK, ReferencesExist
  <2> QED BY <1>2, <2>1, <2>2 DEF AppRow
<1>4. GroupTypeOK'
    BY <1>1, <1>3, Committed DEF GroupTypeOK
<1>5. ReferencesExist'
    BY <1>1, <1>3, Committed, LinksStay DEF GroupInv, ReferencesExist, EventExists
<1>6. WritesJustified'
  <2>1. \A e \in Events : EventExists(e) => EventExists(e)'
      BY <1>1 DEF EventExists
  <2> QED BY <1>1, <2>1, CommitKeepsRequests
<1> QED BY <1>1, <1>4, <1>5, <1>6, Committed DEF GroupInv

(* The event waits for the transactions that hold an application of it.    *)
LEMMA DeleteEventCommitStep ==
    ASSUME GroupInv, NEW g \in GroupRequests, DeleteEventCommit(g)
    PROVE  GroupInv'
<1> DEFINE e == greq[g].event
<1>1. /\ GroupTypeOK /\ Commit(g, "delete")
      /\ {h \in InTransaction : greq[h].event = e /\ greq[h].app # NoApp} = {}
      /\ event' = [event EXCEPT ![e] = NoEvent] /\ retired' = retired \union {e}
      /\ apps' = {x \in apps : x.event # e}
    BY DEF GroupInv, DeleteEventCommit, AppsWithout
<1>2. e \in Events
    BY <1>1, Committed, RequestFields
<1> HIDE DEF e
<1>3. /\ event' \in [Events -> EventRow] /\ event'[e].link = NoTrip
      /\ \A d \in Events \ {e} : event'[d] = event[d]
    BY <1>1, <1>2 DEF GroupTypeOK, NoEvent, EventRow
<1>4. GroupTypeOK'
    BY <1>1, <1>2, <1>3, Committed DEF GroupTypeOK
<1>5. ReferencesExist'
  <2>1. ASSUME NEW d \in Events PROVE LinkHolds(event[d].link)'
      BY <1>1, <1>3, Committed, LinksStay DEF GroupInv, ReferencesExist, LinkHolds
  <2>2. ASSUME NEW x \in apps' PROVE EventExists(x.event)'
      BY <1>1, <1>3 DEF GroupInv, GroupTypeOK, AppRow, ReferencesExist, EventExists
  <2> QED BY <2>1, <2>2 DEF ReferencesExist
<1>6. WritesJustified'
  <2> SUFFICES ASSUME NEW h \in GroupRequests \ {g}, NEW d \in Events, greq[h] # Idle,
                      greq[h].op = "apply", greq[h].phase = "begun",
                      greq[h].event = d, EventExists(d)
               PROVE  EventExists(d)'
      BY <1>1, CommitKeepsRequests
  <2>1. greq[h].app # NoApp /\ h \in InTransaction
      BY JustifiedByParts DEF GroupInv, Justified, InTransaction
  <2>2. d # e
      BY <1>1, <2>1
  <2> QED BY <1>3, <2>2 DEF EventExists
<1> QED BY <1>1, <1>4, <1>5, <1>6, Committed DEF GroupInv

LEMMA RelinkCommitStep ==
    ASSUME GroupInv, NEW g \in GroupRequests, RelinkCommit(g)
    PROVE  GroupInv'
<1> DEFINE q == greq[g]
<1>1. GroupTypeOK /\ Commit(g, "relink") /\ UNCHANGED <<apps, retired>>
    BY DEF GroupInv, RelinkCommit
<1>2. q.event \in Events /\ q.newLink \in Trips \union {NoTrip}
    BY <1>1, Committed, RequestFields
<1>3. /\ event' \in [Events -> EventRow]
      /\ \A e \in Events : event'[e].host = event[e].host /\ LinkHolds(event'[e].link)
  <2>1. CASE EventExists(q.event)
    <3>1. event' = [event EXCEPT ![q.event].link = q.newLink] /\ LinkHolds(q.newLink)
        BY <2>1 DEF RelinkCommit
    <3> HIDE DEF q
    <3> QED BY <1>1, <1>2, <3>1 DEF GroupInv, GroupTypeOK, EventRow, ReferencesExist
  <2>2. CASE ~EventExists(q.event)
      BY <1>1, <2>2 DEF RelinkCommit, GroupInv, GroupTypeOK, ReferencesExist
  <2> QED BY <2>1, <2>2
<1>4. GroupTypeOK'
    BY <1>1, <1>3, Committed DEF GroupTypeOK
<1>5. ReferencesExist'
  <2>1. \A e \in Events : LinkHolds(event[e].link)'
      BY <1>1, <1>3, Committed, LinksStay
  <2>2. \A x \in apps : EventExists(x.event)'
      BY <1>1, <1>3 DEF GroupInv, GroupTypeOK, AppRow, ReferencesExist, EventExists
  <2> QED BY <1>1, <2>1, <2>2 DEF ReferencesExist
<1>6. WritesJustified'
  <2>1. \A e \in Events : EventExists(e) => EventExists(e)'
      BY <1>3 DEF EventExists
  <2> QED BY <1>1, <2>1, CommitKeepsRequests
<1> QED BY <1>1, <1>4, <1>5, <1>6, Committed DEF GroupInv

-----------------------------------------------------------------------------
(* The steps of the trip service and those that write events, and then all *)
(* of them.                                                                *)
LEMMA TripServiceStep ==
    ASSUME GroupInv, TripStep, UNCHANGED groupVars
    PROVE  GroupInv'
<1>1. TripCore' /\ TripTypeOK /\ GroupTypeOK
    BY CoreStep DEF GroupInv, TripCore, TripNext
<1>2. UNCHANGED <<event, retired, apps, nextApp, greq>>
    BY DEF groupVars
<1>3. GroupTypeOK'
    BY <1>1, <1>2 DEF GroupTypeOK
<1>4. ReferencesExist'
    BY <1>1, <1>2, TripsStay DEF GroupInv, ReferencesExist, LinkHolds, EventExists
<1>5. WritesJustified'
  <2>1. \A t \in Trips : everOwner[t] \subseteq everOwner'[t]
      BY <1>1, OwnersAreKept DEF TripNext
  <2>2. \A e \in Events : EventExists(e) => EventExists(e)'
      BY <1>2 DEF EventExists
  <2>3. \A g \in GroupRequests : Justified(g)
      BY JustifiedByParts DEF GroupInv
  <2> QED BY <1>1, <1>2, <2>1, <2>2, <2>3, StillJustified, JustifiedNext
<1> QED BY <1>1, <1>3, <1>4, <1>5 DEF GroupInv

LEMMA DeleteLinkedTripStep ==
    ASSUME GroupInv, DeleteLinkedTrip
    PROVE  GroupInv'
<1>1. /\ TripDeletion /\ UNCHANGED <<retired, apps, nextApp, greq>>
      /\ TripCore' /\ TripTypeOK /\ GroupTypeOK
    BY CoreStep DEF DeleteLinkedTrip, GroupInv, TripCore, TripNext
<1>2. \A e \in Events :
          event'[e] = IF owner'[event[e].link] = Nobody /\ event[e].link \in Trips
                        THEN [event[e] EXCEPT !.link = NoTrip] ELSE event[e]
    BY DEF DeleteLinkedTrip, Unlinked
<1>3. /\ event' \in [Events -> EventRow]
      /\ \A e \in Events : event'[e].host = event[e].host
      /\ \A e \in Events : event'[e].link \in Trips => owner'[event'[e].link] # Nobody
  <2>1. event' = [e \in Events |-> event'[e]]
      BY DEF DeleteLinkedTrip
  <2> QED BY <1>1, <1>2, <2>1, NoTripIsNoTrip DEF GroupTypeOK, EventRow
<1>4. GroupTypeOK'
    BY <1>1, <1>3 DEF GroupTypeOK
<1>5. ReferencesExist'
  <2>1. ASSUME NEW e \in Events PROVE LinkHolds(event[e].link)'
      BY <1>3 DEF LinkHolds, Exists, EventRow
  <2>2. ASSUME NEW x \in apps' PROVE EventExists(x.event)'
      BY <1>1, <1>3 DEF GroupInv, GroupTypeOK, AppRow, ReferencesExist, EventExists
  <2> QED BY <2>1, <2>2 DEF ReferencesExist
<1>6. WritesJustified'
  <2>1. \A t \in Trips : everOwner[t] \subseteq everOwner'[t]
      BY <1>1, OwnersAreKept DEF TripNext
  <2>2. \A e \in Events : EventExists(e) => EventExists(e)'
      BY <1>3 DEF EventExists
  <2>3. \A g \in GroupRequests : Justified(g)
      BY JustifiedByParts DEF GroupInv
  <2> QED BY <1>1, <2>1, <2>2, <2>3, StillJustified, JustifiedNext
<1> QED BY <1>1, <1>4, <1>5, <1>6 DEF GroupInv

(* A host creates an event, or edits one.                                  *)
LEMMA WriteEventStep ==
    ASSUME GroupInv, NEW e \in Events, NEW row \in EventRow, LinkHolds(row.link),
           EventExists(e) => row.host # Nobody,
           event' = [event EXCEPT ![e] = row],
           UNCHANGED <<tripVars, retired, apps, nextApp, greq>>
    PROVE  GroupInv'
<1>1. /\ GroupTypeOK /\ TripCore /\ TripCore' /\ owner' = owner
      /\ \A t \in Trips : everOwner[t] \subseteq everOwner'[t]
    BY TripsUntouched DEF GroupInv, tripVars
<1>2. event'[e] = row /\ \A d \in Events \ {e} : event'[d] = event[d]
    BY <1>1 DEF GroupTypeOK
<1>3. GroupTypeOK'
    BY <1>1 DEF GroupTypeOK
<1>4. \A d \in Events : EventExists(d) => EventExists(d)'
    BY <1>2 DEF EventExists
<1>5. ReferencesExist'
  <2>1. \A d \in Events : LinkHolds(event'[d].link)
      BY <1>2 DEF GroupInv, ReferencesExist
  <2>2. \A d \in Events : LinkHolds(event[d].link)'
      BY <1>1, <2>1, LinksStay
  <2>3. ASSUME NEW x \in apps' PROVE EventExists(x.event)'
      BY <1>1, <1>4 DEF GroupInv, GroupTypeOK, AppRow, ReferencesExist
  <2> QED BY <2>2, <2>3 DEF ReferencesExist
<1>6. WritesJustified'
  <2>1. \A g \in GroupRequests : Justified(g)
      BY JustifiedByParts DEF GroupInv
  <2> QED BY <1>1, <1>4, <2>1, StillJustified, JustifiedNext
<1> QED BY <1>1, <1>3, <1>5, <1>6 DEF GroupInv

LEMMA GroupInvStep == GroupInv /\ [GroupNext]_allVars => GroupInv'
<1> SUFFICES ASSUME GroupInv, [GroupNext]_allVars PROVE GroupInv'
    OBVIOUS
<1>1. GroupTypeOK
    BY DEF GroupInv
<1>2. ASSUME NEW e \in Events, NEW link \in Trips \union {NoTrip}, NEW approval \in BOOLEAN,
             NEW u \in Users, CreateEvent(e, u, approval, link)
      PROVE  GroupInv'
  <2> DEFINE row == [host |-> u, approval |-> approval, link |-> link]
  <2>1. row \in EventRow /\ row.link = link /\ row.host # Nobody
      BY NobodyIsNoUser DEF EventRow
  <2>2. /\ LinkHolds(link) /\ event' = [event EXCEPT ![e] = row]
        /\ UNCHANGED <<tripVars, retired, apps, nextApp, greq>>
      BY <1>2 DEF CreateEvent
  <2> HIDE DEF row
  <2> QED BY <2>1, <2>2, WriteEventStep
<1>3. ASSUME NEW e \in Events, NEW link \in Trips \union {NoTrip}, NEW approval \in BOOLEAN,
             UpdateEvent(e, approval, link)
      PROVE  GroupInv'
  <2> DEFINE row == [event[e] EXCEPT !.approval = approval, !.link = link]
  <2>1. row \in EventRow /\ row.link = link /\ row.host = event[e].host
      BY <1>1 DEF GroupTypeOK, EventRow
  <2>2. /\ LinkHolds(link) /\ event' = [event EXCEPT ![e] = row]
        /\ UNCHANGED <<tripVars, retired, apps, nextApp, greq>>
      BY <1>1, <1>3 DEF UpdateEvent, GroupTypeOK, EventRow
  <2> HIDE DEF row
  <2> QED BY <2>1, <2>2, WriteEventStep DEF EventExists
<1>4. ASSUME NEW g \in GroupRequests, NEW e \in Events, NEW u \in Users, ApplyRead(g, e, u)
      PROVE  GroupInv'
  <2>1. NoApp \in 0..MaxApps /\ FirstStatus(e) \in Statuses
      BY MaxAppsIsCount DEF NoApp, FirstStatus, Statuses
  <2>2. event[e].link \in Trips \union {NoTrip}
      BY <1>1 DEF GroupTypeOK, EventRow
  <2> QED BY <1>4, <2>1, <2>2, ReadStep DEF ApplyRead
<1>5. ASSUME NEW g \in GroupRequests, NEW e \in Events, DeleteEventRead(g, e)
      PROVE  GroupInv'
  <2>1. NoApp \in 0..MaxApps /\ "pending" \in Statuses
      BY MaxAppsIsCount DEF NoApp, Statuses
  <2>2. event[e].host \in Users
      BY <1>1, <1>5 DEF DeleteEventRead, ReadEvent, EventExists, GroupTypeOK, EventRow
  <2> QED BY <1>5, <2>1, <2>2, ReadStep DEF DeleteEventRead
<1>6. ASSUME NEW g \in GroupRequests, NEW e \in Events,
             NEW newLink \in Trips \union {NoTrip}, RelinkRead(g, e, newLink)
      PROVE  GroupInv'
  <2>1. NoApp \in 0..MaxApps /\ "pending" \in Statuses
      BY MaxAppsIsCount DEF NoApp, Statuses
  <2>2. event[e].host \in Users
      BY <1>1, <1>6 DEF RelinkRead, ReadEvent, EventExists, GroupTypeOK, EventRow
  <2> QED BY <1>6, <2>1, <2>2, ReadStep DEF RelinkRead
<1>7. ASSUME NEW g \in GroupRequests, NEW x \in apps,
             CancelRead(g, x) \/ \E status \in Statuses : ProcessRead(g, x, status)
      PROVE  GroupInv'
  <2>1. /\ x.id \in 0..MaxApps /\ x.event \in Events /\ x.user \in Users
        /\ x.status \in Statuses
      BY <1>1, MaxAppsIsCount DEF GroupTypeOK, AppRow
  <2>2. event[x.event].link \in Trips \union {NoTrip}
      BY <1>1, <2>1 DEF GroupTypeOK, EventRow
  <2> QED BY <1>7, <2>1, <2>2, ReadStep DEF CancelRead, ProcessRead
<1>8. ASSUME NEW g \in GroupRequests,
             \/ ApplyBegin(g) \/ CancelBegin(g) \/ ProcessBegin(g)
             \/ DeleteEventBegin(g) \/ RelinkBegin(g)
      PROVE  GroupInv'
    BY <1>8, ApplyBeginStep, CancelBeginStep, ProcessBeginStep, DeleteEventBeginStep,
       RelinkBeginStep
<1>9. ASSUME NEW g \in GroupRequests,
             \/ ApplyCommit(g) \/ CancelCommit(g) \/ ProcessCommit(g)
             \/ DeleteEventCommit(g) \/ RelinkCommit(g) \/ Abandon(g)
      PROVE  GroupInv'
    BY <1>9, ApplyCommitStep, CancelCommitStep, ProcessCommitStep, DeleteEventCommitStep,
       RelinkCommitStep, AbandonStep
<1>10. CASE UNCHANGED allVars
  <2>1. UNCHANGED <<tripVars, event, retired, apps, nextApp, greq>> /\ UNCHANGED tripVars
      BY <1>10 DEF allVars, groupVars
  <2>2. everOwner' = everOwner
      BY <2>1 DEF tripVars
  <2>3. WritesJustified'
      BY <2>1, <2>2 DEF GroupInv, WritesJustified, EventExists
  <2> QED BY <2>1, <2>3, TripsUntouched, ReferencesUntouched DEF GroupInv, GroupTypeOK
<1> QED
    BY <1>2, <1>3, <1>4, <1>5, <1>6, <1>7, <1>8, <1>9, <1>10, TripServiceStep,
       DeleteLinkedTripStep
    DEF GroupNext

(* The invariant holds at the beginning.                                   *)
LEMMA InitGroup == GroupInit => GroupInv
<1> SUFFICES ASSUME GroupInit PROVE GroupInv
    OBVIOUS
<1>1. TripCore
    BY DEF GroupInit, TripInit, TripCore, TripTypeOK, NoMembersWithoutTrip, EditorsHaveOwned,
           RequestsJustified, OwnersRecorded, IsMember, Exists, MayEdit, RequireRole, Idle
<1>2. NoEvent \in EventRow
    BY DEF NoEvent, EventRow
<1>3. GroupTypeOK
    BY <1>2, MaxAppsIsCount DEF GroupInit, GroupTypeOK
<1>4. ReferencesExist /\ WritesJustified
    BY DEF GroupInit, ReferencesExist, WritesJustified, LinkHolds, NoEvent, Idle
<1> QED BY <1>1, <1>3, <1>4 DEF GroupInv

(* The inductive invariant, for any number of overlapping requests to both *)
(* services.                                                               *)
LEMMA GroupInvariant == GroupSpec => []GroupInv
BY InitGroup, GroupInvStep, PTL DEF GroupSpec

(* The type invariant of the event service holds in every reachable state. *)
THEOREM GroupTypeInvariant == GroupSpec => []GroupTypeOK
BY GroupInvariant, PTL DEF GroupInv

(* The requests of the event service, which change member rows inside      *)
(* transactions of their own, leave no member without a trip and give      *)
(* nobody edit rights.                                                     *)
THEOREM TripsStaySoundUnderEvents == GroupSpec => []TripsStaySound
<1>1. GroupInv => TripsStaySound
    BY DEF GroupInv, TripCore, TripsStaySound
<1> QED BY <1>1, GroupInvariant, PTL

(* Every link of an event is to a trip that is there, every application to *)
(* an event that is there, whatever deletions race with them.              *)
THEOREM NoDanglingReference == GroupSpec => []ReferencesExist
BY GroupInvariant, PTL DEF GroupInv

-----------------------------------------------------------------------------
(* OwnersDecide, for one user of one trip.                                 *)
Done == {req[r].actor : r \in {r \in Requests : req[r] # Idle /\ req'[r] = Idle}}
Hosts(t) == {greq[g].host : g \in {g \in GroupRequests :
                greq[g] # Idle /\ greq'[g] = Idle /\ t \in {greq[g].link, greq[g].newLink}}}
Decided(t, u) ==
    /\ ~IsMember(t, u) /\ IsMember(t, u)' =>
          owner'[t] = u \/ (Done \union Hosts(t)) \intersect everOwner[t] # {}
    /\ IsMember(t, u) /\ ~IsMember(t, u)' /\ Exists(t)' =>
          u \in Done \union Hosts(t) \/ (Done \union Hosts(t)) \intersect everOwner[t] # {}

LEMMA SameMembersDecided ==
    ASSUME NEW t \in Trips, NEW u \in Users, IsMember(t, u)' <=> IsMember(t, u)
    PROVE  Decided(t, u)
BY DEF Decided

LEMMA SameRowsDecided ==
    ASSUME NEW t \in Trips, NEW u \in Users, role' = role
    PROVE  Decided(t, u)
BY SameMembersDecided DEF IsMember

(* A request of the trip service that ends makes its actor decide.         *)
LEMMA ActorDecides ==
    ASSUME TripTypeOK, NEW r \in Requests, req[r] # Idle, Finish(r)
    PROVE  req[r].actor \in Done
BY DEF Finish, TripTypeOK, Done

LEMMA TripServiceDecides ==
    ASSUME TripCore, TripNext, NEW t \in Trips, NEW u \in Users
    PROVE  Decided(t, u)
<1>1. TripTypeOK
    BY DEF TripCore
<1>2. ASSUME NEW x \in Trips, NEW v \in Users, CreateTrip(x, v) PROVE Decided(t, u)
  <2>1. CASE x = t /\ v = u
      BY <1>1, <1>2, <2>1 DEF CreateTrip, TripTypeOK, Decided, IsMember, NoRole
  <2>2. CASE ~(x = t /\ v = u)
    <3>1. role'[t][u] = role[t][u]
        BY <1>1, <1>2, <2>2 DEF CreateTrip, TripTypeOK
    <3> QED BY <3>1, SameMembersDecided DEF IsMember
  <2> QED BY <2>1, <2>2
<1>3. ASSUME NEW r \in Requests, NEW x \in Trips, NEW actor \in Users,
             NEW target \in Users,
             \/ AddMemberCheck(r, x, actor, target)
             \/ RemoveMemberCheck(r, x, actor, target)
             \/ DeleteTripCheck(r, x, actor)
             \/ \E newRole \in StepDownRoles :
                   TransferCheckOwner(r, x, actor, target, newRole)
      PROVE  Decided(t, u)
    BY <1>3, SameRowsDecided
    DEF AddMemberCheck, RemoveMemberCheck, DeleteTripCheck, TransferCheckOwner, Load
<1>4. ASSUME NEW r \in Requests, TransferCheckMember(r) \/ GiveUp(r) PROVE Decided(t, u)
    BY <1>4, SameRowsDecided DEF TransferCheckMember, GiveUp
<1>5. ASSUME NEW r \in Requests, AddMemberWrite(r) PROVE Decided(t, u)
  <2>1. /\ req[r] # Idle /\ req[r].actor \in everOwner[req[r].trip]
        /\ req[r].actor \in Done
      BY <1>1, <1>5, ActorDecides DEF AddMemberWrite, Idle, TripCore, RequestsJustified
  <2>2. CASE req[r].trip = t
    <3>1. IsMember(t, u) => IsMember(t, u)'
        BY <1>1, <1>5, <2>2
        DEF AddMemberWrite, WithMembers, IsMember, TripTypeOK, NoRole
    <3> QED BY <2>1, <2>2, <3>1 DEF Decided
  <2>3. CASE req[r].trip # t
    <3>1. role'[t] = role[t]
        BY <1>1, <1>5, <2>3 DEF AddMemberWrite, TripTypeOK
    <3> QED BY <3>1, SameMembersDecided DEF IsMember
  <2> QED BY <2>2, <2>3
<1>6. ASSUME NEW r \in Requests, RemoveMemberWrite(r) PROVE Decided(t, u)
  <2>1. /\ req[r] # Idle /\ req[r].actor \in Done
        /\ req[r].actor # req[r].target => req[r].actor \in everOwner[req[r].trip]
      BY <1>1, <1>6, ActorDecides DEF RemoveMemberWrite, Idle, TripCore, RequestsJustified
  <2>2. CASE req[r].trip = t /\ req[r].target = u
    <3>1. ~IsMember(t, u)'
        BY <1>1, <1>6, <2>2 DEF RemoveMemberWrite, WithoutMembers, IsMember, TripTypeOK
    <3> QED BY <2>1, <2>2, <3>1 DEF Decided
  <2>3. CASE ~(req[r].trip = t /\ req[r].target = u)
    <3>1. role'[t][u] = role[t][u]
        BY <1>1, <1>6, <2>3 DEF RemoveMemberWrite, WithoutMembers, TripTypeOK
    <3> QED BY <3>1, SameMembersDecided DEF IsMember
  <2> QED BY <2>2, <2>3
<1>7. ASSUME NEW r \in Requests, DeleteTripWrite(r) PROVE Decided(t, u)
  <2>1. CASE req[r].trip = t
    <3>1. ~Exists(t)' /\ ~IsMember(t, u)'
        BY <1>1, <1>7, <2>1
        DEF DeleteTripWrite, WithoutMembers, Exists, IsMember, TripTypeOK
    <3> QED BY <3>1 DEF Decided
  <2>2. CASE req[r].trip # t
    <3>1. role'[t] = role[t]
        BY <1>1, <1>7, <2>2 DEF DeleteTripWrite, TripTypeOK
    <3> QED BY <3>1, SameMembersDecided DEF IsMember
  <2> QED BY <2>1, <2>2
<1>8. ASSUME NEW r \in Requests, TransferWrite(r) PROVE Decided(t, u)
  <2>1. PICK q \in Pending : q = req[r]
      BY <1>1, <1>8, RunningIsPending DEF TransferWrite, Idle
  <2>2. /\ q.trip \in Trips /\ q.actor \in Users /\ q.target \in Users
        /\ q.newRole \in StepDownRoles
      BY <2>1 DEF Pending
  <2>3. CASE q.trip = t /\ Exists(t)
    <3>1. role' = [role EXCEPT ![t] = HandOver(role[t], q.actor, q.target, q.newRole)]
        BY <1>8, <2>1, <2>3 DEF TransferWrite
    <3>2. role'[t] = HandOver(role[t], q.actor, q.target, q.newRole)
        BY <1>1, <3>1 DEF TripTypeOK
    <3>3. role'[t][u] = NoRole <=> role[t][u] = NoRole
        BY <1>1, <2>2, <3>2
        DEF HandOver, WithRole, TripTypeOK, Roles, NoRole, StepDownRoles
    <3> QED BY <3>3, SameMembersDecided DEF IsMember
  <2>4. CASE ~(q.trip = t /\ Exists(t))
    <3>1. role'[t] = role[t]
        BY <1>1, <1>8, <2>1, <2>2, <2>4 DEF TransferWrite, TripTypeOK
    <3> QED BY <3>1, SameMembersDecided DEF IsMember
  <2> QED BY <2>3, <2>4
<1> QED
    BY <1>2, <1>3, <1>4, <1>5, <1>6, <1>7, <1>8 DEF TripNext, TripStep, TripDeletion

(* A commit of the event service makes the host of its event decide.       *)
LEMMA HostDecides ==
    ASSUME GroupInv, NEW g \in GroupRequests, NEW op, op # "idle", Commit(g, op),
           NEW t \in Trips, NEW u \in Users
    PROVE  Decided(t, u)
<1> DEFINE q == greq[g]
<1>1. /\ q \in GroupRequest /\ Justified(g) /\ greq'[g] = Idle
      /\ role'[t][u] = RowAfter(q, t, u)
    BY Committed
<1>2. q # Idle /\ (t \in {q.link, q.newLink} => q.host \in Hosts(t))
    BY <1>1, RequestFields DEF Hosts
<1>3. ASSUME ~IsMember(t, u), IsMember(t, u)' PROVE q.host \in Hosts(t) \intersect everOwner[t]
  <2>1. t = q.newLink /\ u \in q.admit
      BY <1>1, <1>3 DEF IsMember, RowAfter, Evicted
  <2> QED BY <1>1, <1>2, <2>1 DEF Justified
<1>4. ASSUME IsMember(t, u), ~IsMember(t, u)'
      PROVE  q.host \in Hosts(t) /\ (u = q.host \/ q.host \in everOwner[t])
  <2>1. t = q.link /\ u \in q.evict
      BY <1>1, <1>4 DEF IsMember, RowAfter, Evicted, NoRole
  <2> QED BY <1>1, <1>2, <2>1 DEF Justified
<1> QED BY <1>3, <1>4 DEF Decided

(* Whoever comes to a trip or is put out of it, somebody decided so who    *)
(* has owned the trip, or he himself did.                                  *)
THEOREM OwnersDecideMembership == GroupSpec => OwnersDecide
<1>1. ASSUME GroupInv, [GroupNext]_allVars, NEW t \in Trips, NEW u \in Users
      PROVE  Decided(t, u)
  <2>1. CASE TripNext
      BY <1>1, <2>1, TripServiceDecides DEF GroupInv
  <2>2. ASSUME NEW g \in GroupRequests,
               \/ ApplyCommit(g) \/ CancelCommit(g) \/ ProcessCommit(g)
               \/ DeleteEventCommit(g) \/ RelinkCommit(g)
        PROVE  Decided(t, u)
      BY <1>1, <2>2, HostDecides
      DEF ApplyCommit, CancelCommit, ProcessCommit, DeleteEventCommit, RelinkCommit
  <2>3. ASSUME NEW g \in GroupRequests,
               \/ ApplyBegin(g) \/ CancelBegin(g) \/ ProcessBegin(g)
               \/ DeleteEventBegin(g) \/ RelinkBegin(g) \/ Abandon(g)
        PROVE  UNCHANGED tripVars
      BY <2>3
      DEF ApplyBegin, CancelBegin, ProcessBegin, DeleteEventBegin, RelinkBegin, Begin, Abandon
  <2>4. ASSUME NEW g \in GroupRequests,
               \/ \E e \in Events :
                    \/ \E v \in Users : ApplyRead(g, e, v)
                    \/ DeleteEventRead(g, e)
                    \/ \E newLink \in Trips \union {NoTrip} : RelinkRead(g, e, newLink)
               \/ \E x \in apps :
                    \/ CancelRead(g, x)
                    \/ \E status \in Statuses : ProcessRead(g, x, status)
        PROVE  UNCHANGED tripVars
      BY <2>4
      DEF ApplyRead, DeleteEventRead, RelinkRead, CancelRead, ProcessRead, ReadEvent
  <2>5. ASSUME NEW e \in Events, NEW link \in Trips \union {NoTrip}, NEW approval \in BOOLEAN,
               \/ \E v \in Users : CreateEvent(e, v, approval, link)
               \/ UpdateEvent(e, approval, link)
        PROVE  UNCHANGED tripVars
      BY <2>5 DEF CreateEvent, UpdateEvent
  <2>6. CASE UNCHANGED allVars
      BY <2>6, SameRowsDecided DEF allVars, tripVars
  <2>7. CASE UNCHANGED tripVars
      BY <2>7, SameRowsDecided DEF tripVars
  <2> QED
      BY <1>1, <2>1, <2>2, <2>3, <2>4, <2>5, <2>6, <2>7
      DEF GroupNext, DeleteLinkedTrip, TripNext
<1>2. GroupInv /\ [GroupNext]_allVars => [\A t \in Trips, u \in Users : Decided(t, u)]_allVars
    BY <1>1
<1>3. OwnersDecide <=> [][\A t \in Trips, u \in Users : Decided(t, u)]_allVars
    BY DEF OwnersDecide, Decided, Done, Hosts
<1> QED BY <1>2, <1>3, GroupInvariant, PTL DEF GroupSpec

-----------------------------------------------------------------------------
(* One request at a time: SerialInv.                                       *)
OnlyOne == \A a, b \in Running : a = b

LEMMA RunningEvent == \A g \in GroupRequests : <<"event", g>> \in Running <=> greq[g] # Idle
BY DEF Running

LEMMA RunningTrip == \A r \in Requests : <<"trip", r>> \in Running <=> req[r] # Idle
BY DEF Running

(* While a request of the event service runs, nothing else does.           *)
LEMMA Alone ==
    ASSUME OnlyOne, NEW g \in GroupRequests, greq[g] # Idle
    PROVE  /\ \A h \in GroupRequests \ {g} : greq[h] = Idle
           /\ \A r \in Requests : req[r] = Idle
BY RunningEvent, RunningTrip DEF OnlyOne

(* A request starts only when none is running, and a step starts only one. *)
LEMMA StartsAlone ==
    ASSUME OneAtATime, NEW g \in GroupRequests, greq[g] = Idle, greq'[g] # Idle
    PROVE  Running = {}
<1>1. <<"event", g>> \in Running' /\ <<"event", g>> \notin Running
    BY DEF Running
<1> QED BY <1>1 DEF OneAtATime

LEMMA NothingRuns ==
    ASSUME Running = {}
    PROVE  (\A g \in GroupRequests : greq[g] = Idle) /\ (\A r \in Requests : req[r] = Idle)
BY RunningEvent, RunningTrip

(* What ReadingFresh and WritesComplete say of one request.                *)
Fresh(q) ==
    /\ EventExists(q.event) /\ q.link = event[q.event].link
    /\ q.op \in {"cancel", "process"} =>
           \E x \in apps : /\ x.id = q.app /\ x.event = q.event /\ x.user = q.user
                           /\ q.op = "cancel" => x.status = q.status
    /\ q.op = "apply" /\ q.phase = "begun" =>
           q.app < nextApp /\ \A x \in apps : x.id # q.app

Admits(q) ==
    IF q.op \in {"apply", "process"} /\ q.link # NoTrip /\ q.status = "approved" THEN {q.user}
    ELSE IF q.op = "relink" /\ q.newLink # NoTrip THEN Moving(q) ELSE {}
Evicts(q) ==
    CASE q.op = "process" /\ q.link # NoTrip /\ q.status = "rejected" -> {q.user}
      [] q.op = "cancel" /\ q.link # NoTrip /\ q.status = "approved" -> {q.user}
      [] q.op = "delete" /\ q.link # NoTrip -> Approved(q.event)
      [] q.op = "relink" -> Moving(q)
      [] OTHER -> {}
Complete(q) == q.phase = "begun" => q.admit = Admits(q) /\ q.evict = Evicts(q)

LEMMA SerialByParts ==
    /\ ReadingFresh <=> \A g \in GroupRequests : greq[g] # Idle => Fresh(greq[g])
    /\ WritesComplete <=> \A g \in GroupRequests : greq[g] # Idle => Complete(greq[g])
BY DEF ReadingFresh, Fresh, WritesComplete, Complete, Admits, Evicts

LEMMA SerialByPartsNext ==
    /\ ReadingFresh' <=> \A g \in GroupRequests : greq'[g] # Idle => Fresh(greq[g])'
    /\ WritesComplete' <=> \A g \in GroupRequests : greq'[g] # Idle => Complete(greq[g])'
BY DEF ReadingFresh, Fresh, WritesComplete, Complete, Admits, Evicts

LEMMA NothingLeft ==
    ASSUME \A g \in GroupRequests : greq'[g] = Idle
    PROVE  ReadingFresh' /\ WritesComplete'
BY SerialByPartsNext

(* Nothing is running: a step starts at most one request.                  *)
LEMMA FirstStarts ==
    ASSUME Running = {}, GroupTypeOK, TripTypeOK, [GroupNext]_allVars
    PROVE  OnlyOne'
<1>1. \A g \in GroupRequests : greq[g] = Idle
    BY NothingRuns
<1>2. \A r \in Requests : req[r] = Idle
    BY NothingRuns
<1>3. ASSUME NEW r \in Requests, \A x \in Requests \ {r} : req'[x] = Idle, greq' = greq
      PROVE  OnlyOne'
    BY <1>1, <1>3 DEF OnlyOne, Running
<1>4. ASSUME NEW g \in GroupRequests, \A h \in GroupRequests \ {g} : greq'[h] = Idle, req' = req
      PROVE  OnlyOne'
    BY <1>2, <1>4 DEF OnlyOne, Running
<1>5. ASSUME req' = req, greq' = greq PROVE OnlyOne'
    BY <1>1, <1>2, <1>5 DEF OnlyOne, Running
<1>6. ASSUME TripNext, greq' = greq PROVE OnlyOne'
  <2>1. ASSUME NEW r \in Requests, NEW t \in Trips, NEW actor \in Users, NEW target \in Users,
               \/ AddMemberCheck(r, t, actor, target)
               \/ RemoveMemberCheck(r, t, actor, target)
               \/ DeleteTripCheck(r, t, actor)
               \/ \E newRole \in StepDownRoles :
                     TransferCheckOwner(r, t, actor, target, newRole)
        PROVE  \A x \in Requests \ {r} : req'[x] = Idle
      BY <1>2, <2>1
      DEF AddMemberCheck, RemoveMemberCheck, DeleteTripCheck, TransferCheckOwner, Load, TripTypeOK
  <2>2. ASSUME NEW r \in Requests,
               \/ TransferCheckMember(r) \/ AddMemberWrite(r) \/ RemoveMemberWrite(r)
               \/ TransferWrite(r) \/ GiveUp(r) \/ DeleteTripWrite(r)
        PROVE  FALSE
      BY <1>2, <2>2
      DEF TransferCheckMember, AddMemberWrite, RemoveMemberWrite, TransferWrite, GiveUp,
          DeleteTripWrite, Idle
  <2>3. ASSUME NEW t \in Trips, NEW u \in Users, CreateTrip(t, u) PROVE OnlyOne'
      BY <1>5, <1>6, <2>3 DEF CreateTrip
  <2> QED BY <1>3, <1>6, <2>1, <2>2, <2>3 DEF TripNext, TripStep, TripDeletion
<1>7. ASSUME NEW g \in GroupRequests,
             \/ \E e \in Events :
                    \/ \E v \in Users : ApplyRead(g, e, v)
                    \/ DeleteEventRead(g, e)
                    \/ \E newLink \in Trips \union {NoTrip} : RelinkRead(g, e, newLink)
             \/ \E x \in apps :
                    \/ CancelRead(g, x)
                    \/ \E status \in Statuses : ProcessRead(g, x, status)
      PROVE  OnlyOne'
  <2>1. PICK q : greq' = [greq EXCEPT ![g] = q] /\ UNCHANGED tripVars
      BY <1>7 DEF ApplyRead, DeleteEventRead, RelinkRead, CancelRead, ProcessRead, ReadEvent
  <2>2. \A h \in GroupRequests \ {g} : greq'[h] = Idle
      BY <1>1, <2>1 DEF GroupTypeOK
  <2> QED BY <1>4, <2>1, <2>2 DEF tripVars
<1>8. ASSUME NEW g \in GroupRequests,
             \/ ApplyBegin(g) \/ CancelBegin(g) \/ ProcessBegin(g) \/ DeleteEventBegin(g)
             \/ RelinkBegin(g) \/ ApplyCommit(g) \/ CancelCommit(g) \/ ProcessCommit(g)
             \/ DeleteEventCommit(g) \/ RelinkCommit(g) \/ Abandon(g)
      PROVE  FALSE
    BY <1>1, <1>8
    DEF ApplyBegin, CancelBegin, ProcessBegin, DeleteEventBegin, RelinkBegin, Begin,
        ApplyCommit, CancelCommit, ProcessCommit, DeleteEventCommit, RelinkCommit, Commit,
        Abandon, Idle
<1>9. ASSUME NEW e \in Events, NEW link \in Trips \union {NoTrip}, NEW approval \in BOOLEAN,
             \/ \E v \in Users : CreateEvent(e, v, approval, link)
             \/ UpdateEvent(e, approval, link)
      PROVE  OnlyOne'
    BY <1>5, <1>9 DEF CreateEvent, UpdateEvent, tripVars
<1>10. CASE UNCHANGED allVars
    BY <1>5, <1>10 DEF allVars, tripVars, groupVars
<1> QED
    BY <1>6, <1>7, <1>8, <1>9, <1>10
    DEF GroupNext, DeleteLinkedTrip, TripNext, groupVars

LEMMA StaysOnlyOne ==
    ASSUME OnlyOne, GroupTypeOK, TripTypeOK, [GroupNext /\ OneAtATime]_allVars
    PROVE  OnlyOne'
<1>1. CASE Running = {}
    BY <1>1, FirstStarts
<1>2. CASE Running # {} /\ OneAtATime
    BY <1>2 DEF OneAtATime, OnlyOne
<1>3. CASE UNCHANGED allVars
    BY <1>3 DEF allVars, tripVars, groupVars, OnlyOne, Running
<1> QED BY <1>1, <1>2, <1>3

-----------------------------------------------------------------------------
(* The steps of the only request.                                          *)
LEMMA SerialRead ==
    ASSUME SerialInv, OneAtATime, NEW g \in GroupRequests, NEW e \in Events, NEW op,
           NEW app, NEW user, NEW status, NEW newLink,
           ReadEvent(g, op, e, app, user, status, newLink),
           op \in {"cancel", "process"} =>
               \E x \in apps : /\ x.id = app /\ x.event = e /\ x.user = user
                               /\ op = "cancel" => x.status = status
    PROVE  AppsNumbered' /\ ReadingFresh' /\ WritesComplete'
<1> DEFINE q == [op |-> op, phase |-> "read", event |-> e, host |-> event[e].host,
                 app |-> app, user |-> user, status |-> status,
                 link |-> event[e].link, newLink |-> newLink,
                 evict |-> {}, admit |-> {}]
<1>1. /\ greq[g] = Idle /\ greq' = [greq EXCEPT ![g] = q] /\ EventExists(e)
      /\ UNCHANGED <<event, apps, nextApp>>
    BY DEF ReadEvent
<1>2. greq'[g] = q
    BY <1>1 DEF SerialInv, GroupInv, GroupTypeOK
<1>3. q # Idle
  <2>1. "link" \in DOMAIN q /\ "link" \notin DOMAIN Idle
      BY DEF Idle
  <2> QED BY <2>1
<1>4. \A h \in GroupRequests : greq[h] = Idle
    BY <1>1, <1>2, <1>3, StartsAlone, NothingRuns
<1>5. \A h \in GroupRequests \ {g} : greq'[h] = Idle
    BY <1>1, <1>4 DEF SerialInv, GroupInv, GroupTypeOK
<1>6. Fresh(greq[g])' /\ Complete(greq[g])'
    BY <1>1, <1>2 DEF Fresh, EventExists, Complete
<1>7. AppsNumbered'
    BY <1>1 DEF SerialInv, AppsNumbered
<1> QED BY <1>5, <1>6, <1>7, SerialByPartsNext

LEMMA SerialBegin ==
    ASSUME SerialInv, NEW g \in GroupRequests, NEW b, NEW evict, NEW admit,
           NEW op \in {"apply", "cancel", "process", "delete", "relink"},
           BegunAs(g, b, op, evict, admit), evict = Evicts(b), admit = Admits(b)
    PROVE  AppsNumbered' /\ ReadingFresh' /\ WritesComplete'
<1>1. /\ greq[g] # Idle /\ greq' = [greq EXCEPT ![g] = b] /\ UNCHANGED <<event, apps>>
      /\ b \in GroupRequest /\ GroupTypeOK /\ OnlyOne /\ AppsNumbered
    BY RequestFields DEF BegunAs, Begin, SerialInv, GroupInv, OnlyOne
<1>2. greq'[g] = b /\ \A h \in GroupRequests \ {g} : greq'[h] = Idle
    BY <1>1, Alone DEF GroupTypeOK
<1>3. Fresh(greq[g])
    BY <1>1, SerialByParts DEF SerialInv
<1>4. \A x \in apps : x.id \in Nat
    BY <1>1 DEF GroupTypeOK, AppRow
<1>5. nextApp \in Nat
    BY <1>1 DEF GroupTypeOK
<1>6. Fresh(greq[g])'
  <2>1. EventExists(b.event) /\ b.link = event[b.event].link
      BY <1>3 DEF Fresh, BegunAs
  <2>2. ASSUME b.op \in {"cancel", "process"}
        PROVE  \E x \in apps : /\ x.id = b.app /\ x.event = b.event /\ x.user = b.user
                               /\ b.op = "cancel" => x.status = b.status
      BY <1>3, <2>2 DEF Fresh, BegunAs
  <2>3. ASSUME b.op = "apply"
        PROVE  b.app < nextApp' /\ \A x \in apps : x.id # b.app
      BY <1>1, <1>4, <1>5, <2>3 DEF BegunAs, AppsNumbered
  <2> QED BY <1>1, <1>2, <2>1, <2>2, <2>3 DEF Fresh, EventExists
<1>7. Complete(greq[g])'
    BY <1>1, <1>2 DEF Complete, BegunAs, Evicts, Admits, Moving, Approved
<1>8. AppsNumbered'
  <2>1. nextApp' \in Nat /\ nextApp <= nextApp'
      BY <1>5 DEF BegunAs
  <2> QED BY <1>1, <1>4, <1>5, <2>1 DEF AppsNumbered
<1> QED BY <1>2, <1>6, <1>7, <1>8, SerialByPartsNext

LEMMA SerialBegins ==
    ASSUME SerialInv, NEW g \in GroupRequests,
           \/ ApplyBegin(g) \/ CancelBegin(g) \/ ProcessBegin(g)
           \/ DeleteEventBegin(g) \/ RelinkBegin(g)
    PROVE  AppsNumbered' /\ ReadingFresh' /\ WritesComplete'
<1>1. GroupInv
    BY DEF SerialInv
<1>2. CASE ApplyBegin(g)
  <2> DEFINE joining == IF greq[g].status = "approved" /\ greq[g].link # NoTrip
                          THEN {greq[g].user} ELSE {}
  <2>1. PICK b : BegunAs(g, b, "apply", {}, joining)
      BY <1>1, <1>2, ApplyBegins
  <2>2. {} = Evicts(b) /\ joining = Admits(b)
      BY <2>1 DEF BegunAs, Evicts, Admits
  <2> QED BY <2>1, <2>2, SerialBegin
<1>3. CASE CancelBegin(g)
  <2> DEFINE now == event[greq[g].event].link
             leaving == IF greq[g].status = "approved" /\ now # NoTrip
                          THEN {greq[g].user} ELSE {}
  <2>1. PICK b : BegunAs(g, b, "cancel", leaving, {})
      BY <1>1, <1>3, CancelBegins
  <2>2. leaving = Evicts(b) /\ {} = Admits(b)
      BY <2>1 DEF BegunAs, Evicts, Admits
  <2> QED BY <2>1, <2>2, SerialBegin
<1>4. CASE ProcessBegin(g)
  <2> DEFINE joining == IF greq[g].link # NoTrip /\ greq[g].status = "approved"
                          THEN {greq[g].user} ELSE {}
             leaving == IF greq[g].link # NoTrip /\ greq[g].status = "rejected"
                          THEN {greq[g].user} ELSE {}
  <2>1. PICK b : BegunAs(g, b, "process", leaving, joining)
      BY <1>1, <1>4, ProcessBegins
  <2>2. leaving = Evicts(b) /\ joining = Admits(b)
      BY <2>1 DEF BegunAs, Evicts, Admits
  <2> QED BY <2>1, <2>2, SerialBegin
<1>5. CASE DeleteEventBegin(g)
  <2> DEFINE leaving == IF greq[g].link # NoTrip THEN Approved(greq[g].event) ELSE {}
  <2>1. PICK b : BegunAs(g, b, "delete", leaving, {})
      BY <1>1, <1>5, DeleteEventBegins
  <2>2. leaving = Evicts(b) /\ {} = Admits(b)
      BY <2>1 DEF BegunAs, Evicts, Admits
  <2> QED BY <2>1, <2>2, SerialBegin
<1>6. CASE RelinkBegin(g)
  <2> DEFINE moving == Moving(greq[g])
             joining == IF greq[g].newLink = NoTrip THEN {} ELSE moving
  <2>1. PICK b : BegunAs(g, b, "relink", moving, joining)
      BY <1>1, <1>6, RelinkBegins
  <2>2. moving = Evicts(b) /\ joining = Admits(b)
      BY <2>1 DEF BegunAs, Evicts, Admits, Moving
  <2> QED BY <2>1, <2>2, SerialBegin
<1> QED BY <1>2, <1>3, <1>4, <1>5, <1>6

LEMMA SerialCommit ==
    ASSUME SerialInv, NEW g \in GroupRequests,
           \/ ApplyCommit(g) \/ CancelCommit(g) \/ ProcessCommit(g)
           \/ DeleteEventCommit(g) \/ RelinkCommit(g) \/ Abandon(g)
    PROVE  AppsNumbered' /\ ReadingFresh' /\ WritesComplete'
<1>1. greq[g] # Idle /\ greq' = [greq EXCEPT ![g] = Idle] /\ nextApp' = nextApp
    BY DEF ApplyCommit, CancelCommit, ProcessCommit, DeleteEventCommit, RelinkCommit,
           Commit, Abandon, Idle
<1>2. GroupTypeOK /\ OnlyOne /\ AppsNumbered /\ Fresh(greq[g])
    BY <1>1, SerialByParts DEF SerialInv, GroupInv, OnlyOne
<1>3. \A h \in GroupRequests : greq'[h] = Idle
    BY <1>1, <1>2, Alone DEF GroupTypeOK
<1>4. ReadingFresh' /\ WritesComplete'
    BY <1>3, NothingLeft
<1>5. CASE apps' \subseteq apps
    BY <1>1, <1>2, <1>4, <1>5 DEF AppsNumbered
<1>6. CASE ApplyCommit(g)
  <2> DEFINE x == [id |-> greq[g].app, event |-> greq[g].event, user |-> greq[g].user,
                   status |-> greq[g].status]
  <2>1. apps' = apps \union {x} /\ x.id = greq[g].app
      BY <1>6 DEF ApplyCommit
  <2>2. greq[g].app < nextApp /\ \A y \in apps : y.id # greq[g].app
      BY <1>2, <1>6 DEF Fresh, ApplyCommit, Commit
  <2> HIDE DEF x
  <2>3. AppsNumbered'
      BY <1>1, <1>2, <2>1, <2>2 DEF AppsNumbered
  <2> QED BY <1>4, <2>3
<1>7. CASE ProcessCommit(g)
  <2>1. \A y \in apps' : \E x \in apps :
            y.id = x.id /\ y = IF x.id = greq[g].app THEN [x EXCEPT !.status = greq[g].status] ELSE x
      BY <1>2, <1>7 DEF ProcessCommit, GroupTypeOK, AppRow
  <2>2. AppsNumbered'
    <3>1. ASSUME NEW y \in apps' PROVE y.id < nextApp'
        BY <1>1, <1>2, <2>1 DEF AppsNumbered
    <3>2. ASSUME NEW y \in apps', NEW z \in apps', y.id = z.id PROVE y = z
        BY <1>2, <2>1, <3>2 DEF AppsNumbered
    <3> QED BY <3>1, <3>2 DEF AppsNumbered
  <2> QED BY <1>4, <2>2
<1> QED
    BY <1>4, <1>5, <1>6, <1>7
    DEF CancelCommit, DeleteEventCommit, AppsWithout, RelinkCommit, Abandon

(* The trip service works only while the event service does not.           *)
LEMMA TripServiceAlone ==
    ASSUME OnlyOne, OneAtATime, TripTypeOK, TripNext, greq' = greq, NEW g \in GroupRequests
    PROVE  greq[g] = Idle
<1> SUFFICES ASSUME greq[g] # Idle PROVE FALSE
    OBVIOUS
<1>1. \A r \in Requests : req[r] = Idle
    BY Alone
<1>2. Running # {}
    BY RunningEvent
<1>3. Running' \subseteq Running /\ req' # req
    BY <1>2 DEF OneAtATime
<1>4. \A r \in Requests : <<"trip", r>> \notin Running
    BY <1>1, RunningTrip
<1>5. \A r \in Requests : req'[r] = Idle
  <2>1. \A r \in Requests : req'[r] # Idle => <<"trip", r>> \in Running'
      BY DEF Running
  <2> QED BY <1>3, <1>4, <2>1
<1>6. ASSUME NEW r \in Requests, NEW t \in Trips, NEW actor \in Users, NEW target \in Users,
             \/ AddMemberCheck(r, t, actor, target)
             \/ RemoveMemberCheck(r, t, actor, target)
             \/ DeleteTripCheck(r, t, actor)
             \/ \E newRole \in StepDownRoles :
                   TransferCheckOwner(r, t, actor, target, newRole)
      PROVE  FALSE
  <2>1. PICK op \in {"add", "remove", "delete", "transfer?"}, x \in Users, newRole \in StepDownRoles :
            Load(r, op, t, actor, x, newRole)
      BY <1>6
      DEF AddMemberCheck, RemoveMemberCheck, DeleteTripCheck, TransferCheckOwner, StepDownRoles
  <2>2. req'[r].op = op
      BY <2>1 DEF Load, TripTypeOK
  <2> QED BY <1>5, <2>2 DEF Idle
<1>7. ASSUME NEW r \in Requests,
             \/ TransferCheckMember(r) \/ AddMemberWrite(r) \/ RemoveMemberWrite(r)
             \/ TransferWrite(r) \/ GiveUp(r) \/ DeleteTripWrite(r)
      PROVE  FALSE
    BY <1>1, <1>7
    DEF TransferCheckMember, AddMemberWrite, RemoveMemberWrite, TransferWrite, GiveUp,
        DeleteTripWrite, Idle
<1>8. ASSUME NEW t \in Trips, NEW u \in Users, CreateTrip(t, u) PROVE FALSE
    BY <1>3, <1>8 DEF CreateTrip
<1> QED BY <1>6, <1>7, <1>8 DEF TripNext, TripStep, TripDeletion

(* The inductive step: what each kind of step leaves of the readings.      *)
LEMMA SerialStep == SerialInv /\ [GroupNext /\ OneAtATime]_allVars => SerialInv'
<1> SUFFICES ASSUME SerialInv, [GroupNext /\ OneAtATime]_allVars PROVE SerialInv'
    OBVIOUS
<1>1. GroupInv /\ GroupInv' /\ GroupTypeOK /\ TripTypeOK /\ OnlyOne /\ AppsNumbered
    BY GroupInvStep DEF SerialInv, GroupInv, TripCore, OnlyOne
<1>2. OnlyOne'
    BY <1>1, StaysOnlyOne
<1> DEFINE Serial == AppsNumbered' /\ ReadingFresh' /\ WritesComplete'
<1>3. ASSUME UNCHANGED <<apps, nextApp, greq>>, \A g \in GroupRequests : greq[g] = Idle
      PROVE  Serial
  <2>1. AppsNumbered'
      BY <1>1, <1>3 DEF AppsNumbered
  <2> QED BY <1>3, <2>1, NothingLeft
<1>4. ASSUME OneAtATime, TripNext, UNCHANGED <<apps, nextApp, greq>> PROVE Serial
    BY <1>1, <1>3, <1>4, TripServiceAlone
<1>5. ASSUME OneAtATime, NEW e \in Events, NEW link \in Trips \union {NoTrip},
             NEW approval \in BOOLEAN,
             \/ \E v \in Users : CreateEvent(e, v, approval, link)
             \/ UpdateEvent(e, approval, link)
      PROVE  Serial
  <2>1. UNCHANGED <<apps, nextApp, greq>> /\ UNCHANGED <<req, greq>>
      BY <1>5 DEF CreateEvent, UpdateEvent, tripVars
  <2>2. Running = {}
      BY <1>5, <2>1 DEF OneAtATime
  <2> QED BY <1>3, <2>1, <2>2, NothingRuns
<1>6. ASSUME OneAtATime, NEW g \in GroupRequests,
             \E e \in Events :
                \/ \E v \in Users : ApplyRead(g, e, v)
                \/ DeleteEventRead(g, e)
                \/ \E newLink \in Trips \union {NoTrip} : RelinkRead(g, e, newLink)
      PROVE  Serial
    BY <1>6, SerialRead DEF ApplyRead, DeleteEventRead, RelinkRead
<1>7. ASSUME OneAtATime, NEW g \in GroupRequests, NEW x \in apps,
             \/ CancelRead(g, x)
             \/ \E status \in Statuses : ProcessRead(g, x, status)
      PROVE  Serial
  <2>1. x.event \in Events
      BY <1>1 DEF GroupTypeOK, AppRow
  <2> QED BY <1>7, <2>1, SerialRead DEF CancelRead, ProcessRead
<1>8. ASSUME NEW g \in GroupRequests,
             \/ ApplyBegin(g) \/ CancelBegin(g) \/ ProcessBegin(g)
             \/ DeleteEventBegin(g) \/ RelinkBegin(g)
      PROVE  Serial
    BY <1>8, SerialBegins
<1>9. ASSUME NEW g \in GroupRequests,
             \/ ApplyCommit(g) \/ CancelCommit(g) \/ ProcessCommit(g)
             \/ DeleteEventCommit(g) \/ RelinkCommit(g) \/ Abandon(g)
      PROVE  Serial
    BY <1>9, SerialCommit
<1>10. ASSUME UNCHANGED allVars PROVE Serial
  <2>1. UNCHANGED <<event, apps, nextApp, greq>>
      BY <1>10 DEF allVars, groupVars
  <2>2. \A g \in GroupRequests : Fresh(greq[g]) => Fresh(greq[g])'
      BY <2>1 DEF Fresh, EventExists
  <2>3. \A g \in GroupRequests : Complete(greq[g]) => Complete(greq[g])'
      BY <2>1 DEF Complete, Admits, Evicts, Moving, Approved
  <2>4. AppsNumbered'
      BY <1>1, <2>1 DEF AppsNumbered
  <2> QED BY <2>1, <2>2, <2>3, <2>4, SerialByParts, SerialByPartsNext DEF SerialInv
<1>11. ASSUME OneAtATime, TripStep, UNCHANGED groupVars PROVE Serial
    BY <1>4, <1>11 DEF TripNext, groupVars
<1>12. ASSUME OneAtATime, DeleteLinkedTrip PROVE Serial
    BY <1>4, <1>12 DEF TripNext, DeleteLinkedTrip
<1>13. Serial
    BY <1>5, <1>6, <1>7, <1>8, <1>9, <1>10, <1>11, <1>12 DEF GroupNext
<1> QED BY <1>1, <1>2, <1>13 DEF SerialInv, OnlyOne

LEMMA SerialInvariant == SerialSpec => []SerialInv
<1>1. GroupInit => SerialInv
  <2> SUFFICES ASSUME GroupInit PROVE SerialInv
      OBVIOUS
  <2>1. GroupInv
      BY InitGroup
  <2>2. \A a, b \in Running : a = b
      BY DEF Running, GroupInit, TripInit
  <2> QED BY <2>1, <2>2 DEF GroupInit, SerialInv, AppsNumbered, ReadingFresh, WritesComplete
<1> QED BY <1>1, SerialStep, PTL DEF SerialSpec

-----------------------------------------------------------------------------
(* What the request that commits has found, and what it writes.            *)
LEMMA SerialCommitted ==
    ASSUME SerialInv, NEW g \in GroupRequests, NEW op, op # "idle", Commit(g, op)
    PROVE  /\ greq[g] \in GroupRequest /\ greq[g].op = op /\ Fresh(greq[g])
           /\ greq[g].admit = Admits(greq[g]) /\ greq[g].evict = Evicts(greq[g])
           /\ op \in {"apply", "process"} => greq[g].newLink = greq[g].link
           /\ \A t \in Trips, u \in Users : role'[t][u] = RowAfter(greq[g], t, u)
           /\ GroupTypeOK /\ AppsNumbered
<1>1. GroupInv /\ AppsNumbered
    BY DEF SerialInv
<1>2. greq[g] \in GroupRequest /\ Justified(g)
      /\ \A t \in Trips, u \in Users : role'[t][u] = RowAfter(greq[g], t, u)
    BY <1>1, Committed
<1>3. greq[g] # Idle /\ greq[g].op = op /\ greq[g].phase = "begun"
    BY DEF Commit, Idle
<1>4. Fresh(greq[g]) /\ Complete(greq[g])
    BY <1>3, SerialByParts DEF SerialInv
<1> QED BY <1>1, <1>2, <1>3, <1>4 DEF Complete, Justified, GroupInv

(* Applications change in four places only.                                *)
LEMMA WhoChangesApps ==
    ASSUME [GroupNext]_allVars
    PROVE  \/ UNCHANGED apps
           \/ \E g \in GroupRequests :
                 \/ ApplyCommit(g) \/ CancelCommit(g) \/ ProcessCommit(g)
                 \/ DeleteEventCommit(g)
<1>1. ASSUME NEW g \in GroupRequests,
             \/ ApplyBegin(g) \/ CancelBegin(g) \/ ProcessBegin(g)
             \/ DeleteEventBegin(g) \/ RelinkBegin(g) \/ Abandon(g) \/ RelinkCommit(g)
      PROVE  UNCHANGED apps
    BY <1>1
    DEF ApplyBegin, CancelBegin, ProcessBegin, DeleteEventBegin, RelinkBegin, Begin, Abandon,
        RelinkCommit
<1>2. ASSUME NEW g \in GroupRequests,
             \/ \E e \in Events :
                  \/ \E v \in Users : ApplyRead(g, e, v)
                  \/ DeleteEventRead(g, e)
                  \/ \E newLink \in Trips \union {NoTrip} : RelinkRead(g, e, newLink)
             \/ \E x \in apps :
                  \/ CancelRead(g, x)
                  \/ \E status \in Statuses : ProcessRead(g, x, status)
      PROVE  UNCHANGED apps
    BY <1>2 DEF ApplyRead, DeleteEventRead, RelinkRead, CancelRead, ProcessRead, ReadEvent
<1>3. ASSUME NEW e \in Events, NEW link \in Trips \union {NoTrip}, NEW approval \in BOOLEAN,
             \/ \E v \in Users : CreateEvent(e, v, approval, link)
             \/ UpdateEvent(e, approval, link)
      PROVE  UNCHANGED apps
    BY <1>3 DEF CreateEvent, UpdateEvent
<1>4. CASE TripStep /\ UNCHANGED groupVars
    BY <1>4 DEF groupVars
<1>5. CASE DeleteLinkedTrip
    BY <1>5 DEF DeleteLinkedTrip
<1>6. CASE UNCHANGED allVars
    BY <1>6 DEF allVars, groupVars
<1> QED BY <1>1, <1>2, <1>3, <1>4, <1>5, <1>6 DEF GroupNext

(* ApprovalAdmits, for one user of one event.                              *)
LEMMA ApprovalStep ==
    ASSUME SerialInv, [GroupNext]_allVars, NEW e \in Events, NEW u \in Users, Linked(e),
           u \in Approved(e)', u \notin Approved(e)
    PROVE  role'[event[e].link][u] # NoRole
<1> DEFINE t == event[e].link
<1>1. t \in Trips
    BY DEF SerialInv, GroupInv, GroupTypeOK, EventRow, Linked
<1>2. PICK y \in apps' : y.event = e /\ y.status = "approved" /\ y.user = u
    BY DEF Approved
<1>3. y \notin apps
    BY <1>2 DEF Approved
<1>4. PICK g \in GroupRequests :
          ApplyCommit(g) \/ CancelCommit(g) \/ ProcessCommit(g) \/ DeleteEventCommit(g)
    BY <1>3, WhoChangesApps
<1> DEFINE q == greq[g]
<1>5. ASSUME q.op \in {"apply", "process"}, Commit(g, q.op), q.status = "approved",
             q.event = e, q.user = u
      PROVE  role'[t][u] # NoRole
  <2>1. /\ q.op # "idle" /\ q.link = t /\ q.newLink = t /\ q.admit = Admits(q)
        /\ role'[t][u] = RowAfter(q, t, u)
      BY <1>1, <1>5, SerialCommitted DEF Fresh
  <2>2. u \in q.admit
      BY <1>5, <2>1 DEF Admits, Linked
  <2> QED BY <2>1, <2>2 DEF RowAfter, NoRole
<1>6. CASE ApplyCommit(g)
  <2>1. y = [id |-> q.app, event |-> q.event, user |-> q.user, status |-> q.status]
      BY <1>2, <1>3, <1>6 DEF ApplyCommit
  <2> QED BY <1>2, <1>5, <1>6, <2>1 DEF ApplyCommit, Commit
<1>7. CASE ProcessCommit(g)
  <2>1. Commit(g, "process") /\ q.op = "process"
      BY <1>7 DEF ProcessCommit, Commit
  <2>2. PICK x \in apps : y = IF x.id = q.app THEN [x EXCEPT !.status = q.status] ELSE x
      BY <1>2, <1>7 DEF ProcessCommit
  <2>3. x.id = q.app /\ y = [x EXCEPT !.status = q.status] /\ x \in AppRow
      BY <1>3, <2>2 DEF SerialInv, GroupInv, GroupTypeOK
  <2>4. y.event = x.event /\ y.user = x.user /\ y.status = q.status
      BY <2>3 DEF AppRow
  <2>5. x.event = q.event /\ x.user = q.user
      BY <2>1, <2>3, SerialCommitted DEF Fresh, AppsNumbered
  <2> QED BY <1>2, <1>5, <2>1, <2>4, <2>5
<1>8. CASE CancelCommit(g) \/ DeleteEventCommit(g)
    BY <1>2, <1>3, <1>8 DEF CancelCommit, DeleteEventCommit, AppsWithout
<1> QED BY <1>4, <1>6, <1>7, <1>8

(* LosingApprovalRevokes, for one application.                             *)
LEMMA RevocationStep ==
    ASSUME SerialInv, [GroupNext]_allVars, NEW x \in apps, Linked(x.event),
           x.status = "approved", \A y \in apps' : y.id = x.id => y.status = "rejected",
           x.user \notin Approved(x.event)'
    PROVE  role'[event[x.event].link][x.user] = NoRole
<1> DEFINE e == x.event
           u == x.user
           t == event[e].link
<1>4. x \in AppRow
    BY DEF SerialInv, GroupInv, GroupTypeOK
<1>1. t \in Trips /\ u \in Users
    BY <1>4 DEF SerialInv, GroupInv, GroupTypeOK, EventRow, AppRow, Linked
<1>2. x.event = e /\ x.status = "approved" /\ x.user = u /\ u \in Approved(e)
    BY DEF Approved
<1>3. \A y \in apps' : ~(y.event = e /\ y.status = "approved" /\ y.user = u)
    BY DEF Approved
<1>5. PICK g \in GroupRequests :
          ApplyCommit(g) \/ CancelCommit(g) \/ ProcessCommit(g) \/ DeleteEventCommit(g)
    BY <1>2, <1>3, WhoChangesApps
<1> DEFINE q == greq[g]
<1>6. ASSUME q.op # "idle", Commit(g, q.op), q.event = e, u \in q.evict, q.admit = {}
      PROVE  role'[t][u] = NoRole
  <2>1. q.link = t /\ role'[t][u] = RowAfter(q, t, u)
      BY <1>1, <1>6, SerialCommitted DEF Fresh
  <2> QED BY <1>6, <2>1 DEF RowAfter, Evicted
<1>7. CASE ApplyCommit(g)
    BY <1>2, <1>3, <1>7 DEF ApplyCommit
<1>8. CASE CancelCommit(g)
  <2>1. Commit(g, "cancel") /\ q.op = "cancel" /\ x.id = q.app
      BY <1>2, <1>3, <1>8 DEF CancelCommit, Commit
  <2>2. /\ q.admit = Admits(q) /\ q.evict = Evicts(q) /\ q.link = event[q.event].link
        /\ x.event = q.event /\ x.user = q.user /\ x.status = q.status
      BY <2>1, SerialCommitted DEF Fresh, AppsNumbered
  <2>3. q.admit = {} /\ u \in q.evict /\ q.event = e
      BY <1>2, <2>1, <2>2 DEF Admits, Evicts, Linked
  <2> QED BY <1>6, <2>1, <2>3
<1>9. CASE ProcessCommit(g)
  <2>1. Commit(g, "process") /\ q.op = "process"
      BY <1>9 DEF ProcessCommit, Commit
  <2>2. (IF x.id = q.app THEN [x EXCEPT !.status = q.status] ELSE x) \in apps'
      BY <1>9 DEF ProcessCommit
  <2>3. x.id = q.app /\ [x EXCEPT !.status = q.status] \in apps'
      BY <1>2, <1>3, <2>2
  <2>4. q.status # "approved"
      BY <1>2, <1>3, <1>4, <2>3 DEF AppRow
  <2>5. /\ q.admit = Admits(q) /\ q.evict = Evicts(q) /\ q.link = event[q.event].link
        /\ x.event = q.event /\ x.user = q.user
      BY <2>1, <2>3, SerialCommitted DEF Fresh, AppsNumbered
  <2>6. q.status = "rejected"
      BY <1>4, <2>3 DEF AppRow
  <2>7. q.admit = {} /\ u \in q.evict /\ q.event = e
      BY <1>2, <2>1, <2>5, <2>6 DEF Admits, Evicts, Linked
  <2> QED BY <1>6, <2>1, <2>7
<1>10. CASE DeleteEventCommit(g)
  <2>1. Commit(g, "delete") /\ q.op = "delete" /\ x.event = q.event
      BY <1>2, <1>3, <1>10 DEF DeleteEventCommit, Commit, AppsWithout
  <2>2. q.admit = Admits(q) /\ q.evict = Evicts(q) /\ q.link = event[q.event].link
      BY <2>1, SerialCommitted DEF Fresh
  <2>3. q.admit = {} /\ u \in q.evict /\ q.event = e
      BY <1>2, <2>1, <2>2 DEF Admits, Evicts, Linked
  <2> QED BY <1>6, <2>1, <2>3
<1> QED BY <1>5, <1>7, <1>8, <1>9, <1>10

(* Links change, but for those of deleted trips, in three places.          *)
LEMMA WhoMovesLinks ==
    ASSUME [GroupNext]_allVars, greq' # greq
    PROVE  \/ UNCHANGED event
           \/ \E g \in GroupRequests : DeleteEventCommit(g) \/ RelinkCommit(g)
<1>1. ASSUME NEW g \in GroupRequests,
             \/ ApplyBegin(g) \/ CancelBegin(g) \/ ProcessBegin(g)
             \/ DeleteEventBegin(g) \/ RelinkBegin(g) \/ Abandon(g)
             \/ ApplyCommit(g) \/ CancelCommit(g) \/ ProcessCommit(g)
      PROVE  UNCHANGED event
    BY <1>1
    DEF ApplyBegin, CancelBegin, ProcessBegin, DeleteEventBegin, RelinkBegin, Begin, Abandon,
        ApplyCommit, CancelCommit, ProcessCommit
<1>2. ASSUME NEW g \in GroupRequests,
             \/ \E e \in Events :
                  \/ \E v \in Users : ApplyRead(g, e, v)
                  \/ DeleteEventRead(g, e)
                  \/ \E newLink \in Trips \union {NoTrip} : RelinkRead(g, e, newLink)
             \/ \E x \in apps :
                  \/ CancelRead(g, x)
                  \/ \E status \in Statuses : ProcessRead(g, x, status)
      PROVE  UNCHANGED event
    BY <1>2 DEF ApplyRead, DeleteEventRead, RelinkRead, CancelRead, ProcessRead, ReadEvent
<1>3. ASSUME NEW e \in Events, NEW link \in Trips \union {NoTrip}, NEW approval \in BOOLEAN,
             \/ \E v \in Users : CreateEvent(e, v, approval, link)
             \/ UpdateEvent(e, approval, link)
      PROVE  FALSE
    BY <1>3 DEF CreateEvent, UpdateEvent
<1>4. CASE (TripStep /\ UNCHANGED groupVars) \/ DeleteLinkedTrip \/ UNCHANGED allVars
    BY <1>4 DEF groupVars, allVars, DeleteLinkedTrip
<1> QED BY <1>1, <1>2, <1>3, <1>4 DEF GroupNext

(* RelinkMovesEverybody, for one user of one event.                        *)
LEMMA RelinkStep ==
    ASSUME SerialInv, [GroupNext]_allVars, greq' # greq, NEW e \in Events, NEW u \in Users,
           EventExists(e)', event[e].link \notin {NoTrip, event'[e].link}, u \in Approved(e)
    PROVE  /\ role'[event[e].link][u] = NoRole
           /\ event'[e].link # NoTrip => role'[event'[e].link][u] # NoRole
<1> DEFINE old == event[e].link
           new == event'[e].link
<1>1. old \in Trips /\ GroupTypeOK
    BY DEF SerialInv, GroupInv, GroupTypeOK, EventRow
<1>2. PICK g \in GroupRequests : DeleteEventCommit(g) \/ RelinkCommit(g)
    BY WhoMovesLinks
<1> DEFINE q == greq[g]
<1>3. RelinkCommit(g) /\ Commit(g, "relink") /\ q.op = "relink" /\ q.event = e
  <2>1. CASE DeleteEventCommit(g)
    <3>1. event' = [event EXCEPT ![q.event] = NoEvent]
        BY <2>1 DEF DeleteEventCommit
    <3>2. e = q.event
        BY <1>1, <3>1 DEF GroupTypeOK
    <3>3. event'[e] = NoEvent
        BY <1>1, <3>1, <3>2 DEF GroupTypeOK
    <3> QED BY <3>3 DEF EventExists, NoEvent
  <2>2. CASE RelinkCommit(g)
      BY <1>1, <2>2 DEF RelinkCommit, Commit, GroupTypeOK
  <2> QED BY <1>2, <2>1, <2>2
<1>4. /\ q.admit = Admits(q) /\ q.evict = Evicts(q) /\ q.link = old
      /\ \A t \in Trips : role'[t][u] = RowAfter(q, t, u)
    BY <1>3, SerialCommitted DEF Fresh
<1>5. q.newLink = new /\ new \in Trips \union {NoTrip}
  <2>1. event' = [event EXCEPT ![e].link = q.newLink]
      BY <1>1, <1>3 DEF RelinkCommit
  <2>2. q.newLink \in Trips \union {NoTrip}
      BY <1>3, SerialCommitted, RequestFields
  <2> QED BY <1>1, <2>1, <2>2 DEF GroupTypeOK, EventRow
<1>6. q.evict = Approved(e) /\ q.admit = IF new # NoTrip THEN Approved(e) ELSE {}
    BY <1>3, <1>4, <1>5 DEF Admits, Evicts, Moving
<1> HIDE DEF q, old, new
<1>7. role'[old][u] = NoRole
    BY <1>1, <1>4, <1>5, <1>6 DEF RowAfter, Evicted, old, new
<1>8. new # NoTrip => role'[new][u] # NoRole
    BY <1>4, <1>5, <1>6 DEF RowAfter, NoRole
<1> QED BY <1>7, <1>8 DEF old, new

(* One request at a time, whoever becomes approved for a linked event is   *)
(* on its trip.                                                            *)
THEOREM ApprovalBringsMembership == SerialSpec => ApprovalAdmits
<1>1. SerialInv /\ [GroupNext /\ OneAtATime]_allVars =>
        [\A e \in Events, u \in Users :
            Linked(e) /\ u \in Approved(e)' \ Approved(e)
              => role'[event[e].link][u] # NoRole]_allVars
    BY ApprovalStep
<1> QED BY <1>1, SerialInvariant, PTL DEF SerialSpec, ApprovalAdmits

(* One request at a time, whoever's approval ends with the application or  *)
(* by a rejection is off the trip.                                         *)
THEOREM RevocationEndsMembership == SerialSpec => LosingApprovalRevokes
<1>1. SerialInv /\ [GroupNext /\ OneAtATime]_allVars =>
        [\A x \in apps :
            /\ Linked(x.event) /\ x.status = "approved"
            /\ \A y \in apps' : y.id = x.id => y.status = "rejected"
            /\ x.user \notin Approved(x.event)'
            => role'[event[x.event].link][x.user] = NoRole]_allVars
    BY RevocationStep
<1> QED BY <1>1, SerialInvariant, PTL DEF SerialSpec, LosingApprovalRevokes

(* One request at a time, a change of the link takes everybody approved    *)
(* along.                                                                  *)
THEOREM RelinkTakesEverybody == SerialSpec => RelinkMovesEverybody
<1>1. SerialInv /\ [GroupNext /\ OneAtATime]_allVars =>
        [\A e \in Events, u \in Users :
            LET old == event[e].link
                new == event'[e].link
            IN  /\ greq' # greq /\ EventExists(e)'
                /\ old \notin {NoTrip, new} /\ u \in Approved(e)
                => role'[old][u] = NoRole /\ (new # NoTrip => role'[new][u] # NoRole)]_allVars
    BY RelinkStep
<1> QED BY <1>1, SerialInvariant, PTL DEF SerialSpec, RelinkMovesEverybody
=============================================================================
