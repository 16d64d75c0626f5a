--------------------------- MODULE TripPlanProofs ---------------------------
(***************************************************************************)
(* TripPlan for every set of trips, days, meals, names, fields and         *)
(* overlapping requests, from the inductive invariant PlanInv.             *)
(***************************************************************************)
EXTENDS TripPlan, TLAPS

LEMMA RowIsNoNull ==
    /\ \A row \in TripRow : row # Unborn /\ row # Gone
    /\ \A row \in DayRow : row # Unborn /\ row # Gone
    /\ \A row \in MealRow : row # Unborn /\ row # Gone
    /\ \A t \in Trips : t # Unborn /\ t # Gone
BY NullsAreNoData

(* A request is told by its op. *)
LEMMA RequestKinds ==
    ASSUME NEW q \in Request
    PROVE  /\ q.op \in {"edit", "editing"} => q \in Editing
           /\ q.op = "delete" => q \in Deleting
           /\ q.op = "addDay" => q \in AddingDay
           /\ q.op = "updateDay" => q \in UpdatingDay
           /\ q.op = "deleteDay" => q \in DeletingDay
           /\ q.op = "replace" => q \in Replacing
           /\ q.op = "idle" => q = Idle
BY DEF Request, Editing, Deleting, AddingDay, UpdatingDay, DeletingDay, Replacing, Idle

LEMMA TripTyped ==
    ASSUME PlanTypeOK, NEW t \in Trips, TripExists(t)
    PROVE  /\ trip[t] \in TripRow
           /\ trip[t].names \in SUBSET Names
           /\ trip[t].version \in Versions
           /\ trip[t].version \in Int
           /\ trip[t].fields \in [Fields -> Versions]
           /\ \A f \in Fields : trip[t].fields[f] <= trip[t].version
BY VersionIsBounded DEF PlanTypeOK, TripExists, TripRow, Versions

LEMMA DayTyped ==
    ASSUME PlanTypeOK, NEW d \in Days, DayExists(d)
    PROVE  /\ day[d] \in DayRow
           /\ day[d].trip \in Trips
           /\ day[d].link \in Names \union {Unsaid}
BY DEF PlanTypeOK, DayExists, DayRow

LEMMA PlanInvInit == Init => PlanInv
BY DEF Init, PlanInv, PlanTypeOK, LinksHaveNames, PlanBelongs, EditsLoaded, EditsExclude, LinksLoaded,
       DayExists, MealExists, Request, Idle

-----------------------------------------------------------------------------
(* Steps that change the table of requests only, by starting one.          *)
LEMMA StartKeeps ==
    ASSUME PlanInv, NEW r \in Requests, NEW q \in Request, Start(r, q),
           UNCHANGED <<trip, day, meal, item>>,
           q.op # "editing",
           q.op = "edit" => /\ TripExists(q.trip)
                            /\ q.row = trip[q.trip]
                            /\ q.edit.base # Unsaid => q.edit.base <= q.row.version,
           q.op \in {"addDay", "updateDay"} =>
               TripExists(q.trip) /\ LinkFound(q.trip, q.link)
    PROVE  PlanInv'
<1> USE DEF PlanInv
<1>1. req' \in [Requests -> Request]
    BY DEF Start, PlanTypeOK
<1>2. \A s \in Requests : req'[s] = IF s = r THEN q ELSE req[s]
    BY DEF Start, PlanTypeOK
<1>3. PlanTypeOK'
    BY <1>1 DEF PlanTypeOK
<1>4. LinksHaveNames' /\ PlanBelongs'
    BY DEF LinksHaveNames, PlanBelongs, TripExists, DayExists, MealExists
<1>5. EditsLoaded'
  <2> SUFFICES ASSUME NEW s \in Requests, req'[s].op \in {"edit", "editing"}
               PROVE  LET p == req'[s] IN
                      /\ trip[p.trip] # Unborn
                      /\ p.edit.base # Unsaid => p.edit.base <= p.row.version
                      /\ TripExists(p.trip) =>
                            /\ p.row.names = trip[p.trip].names
                            /\ p.row.version <= trip[p.trip].version
                            /\ p.row.version = trip[p.trip].version => p.row = trip[p.trip]
                      /\ p.op = "editing" => /\ TripExists(p.trip)
                                             /\ p.edit.base \in {Unsaid, trip[p.trip].version}
                                             /\ trip[p.trip].version < MaxVersion
      BY DEF EditsLoaded, TripExists, VersionHolds
  <2>1. CASE s # r
      BY <2>1, <1>2 DEF EditsLoaded, VersionHolds
  <2>2. CASE s = r
    <3>1. q \in Editing
        BY <2>2, <1>2, RequestKinds
    <3>2. trip[q.trip].version \in Int
        BY <2>2, <1>2, <3>1, TripTyped DEF Editing
    <3> QED BY <2>2, <1>2, <3>2 DEF TripExists
  <2> QED BY <2>1, <2>2
<1>6. EditsExclude'
    BY <1>2 DEF EditsExclude
<1>7. LinksLoaded'
    BY <1>2 DEF LinksLoaded, TripExists, LinkFound
<1> QED BY <1>3, <1>4, <1>5, <1>6, <1>7

(* A request that ends takes its claims with it. *)
LEMMA FinishKeeps ==
    ASSUME PlanInv, NEW r \in Requests, Finish(r)
    PROVE  /\ req' \in [Requests -> Request]
           /\ \A s \in Requests : req'[s] = IF s = r THEN Idle ELSE req[s]
           /\ EditsExclude'
BY DEF PlanInv, PlanTypeOK, Finish, Request, EditsExclude, Idle

LEMMA GiveUpKeeps ==
    ASSUME PlanInv, NEW r \in Requests, GiveUp(r)
    PROVE  PlanInv'
<1>1. /\ req' \in [Requests -> Request]
      /\ \A s \in Requests : req'[s] = IF s = r THEN Idle ELSE req[s]
      /\ EditsExclude'
    BY FinishKeeps DEF GiveUp
<1>2. UNCHANGED <<trip, day, meal, item>>
    BY DEF GiveUp
<1>3. PlanTypeOK' /\ LinksHaveNames' /\ PlanBelongs'
    BY <1>1, <1>2 DEF PlanInv, PlanTypeOK, LinksHaveNames, PlanBelongs, TripExists, DayExists, MealExists
<1>4. EditsLoaded' /\ LinksLoaded'
    BY <1>1, <1>2 DEF PlanInv, EditsLoaded, LinksLoaded, TripExists, VersionHolds, Idle
<1> QED BY <1>1, <1>3, <1>4 DEF PlanInv

LEMMA ChecksKeep ==
    ASSUME PlanInv, NEW r \in Requests,
           PatchTrip(r) \/ RemoveTrip(r) \/ PostMealPlanDay(r) \/ PutMealPlanDay(r)
               \/ RemoveMealPlanDay(r) \/ PutMeals(r)
    PROVE  PlanInv'
<1>0. PlanTypeOK
    BY DEF PlanInv
<1>1. ASSUME NEW t \in Trips, NEW edit \in Edit, UpdateTripCheck(r, t, edit) PROVE PlanInv'
  <2> DEFINE q == [op |-> "edit", trip |-> t, edit |-> edit, row |-> trip[t], unlink |-> {}]
  <2>1. q \in Editing
      BY <1>0, <1>1, TripTyped DEF UpdateTripCheck, Editing
  <2>2. edit.base # Unsaid => edit.base <= trip[t].version
      BY <1>0, <1>1, TripTyped DEF UpdateTripCheck
  <2>3. q \in Request /\ Start(r, q) /\ UNCHANGED <<trip, day, meal, item>> /\ TripExists(t)
      BY <1>1, <2>1 DEF UpdateTripCheck, Request
  <2> QED BY <2>2, <2>3, StartKeeps
<1>2. ASSUME NEW t \in Trips, DeleteTripCheck(r, t) PROVE PlanInv'
  <2> DEFINE q == [op |-> "delete", trip |-> t]
  <2>1. q \in Request
      BY DEF Request, Deleting
  <2> QED BY <1>2, <2>1, StartKeeps DEF DeleteTripCheck
<1>3. ASSUME NEW t \in Trips, NEW link \in Names \union {Unsaid}, AddMealPlanDayCheck(r, t, link)
      PROVE  PlanInv'
  <2> DEFINE q == [op |-> "addDay", trip |-> t, link |-> link]
  <2>1. q \in Request
      BY DEF Request, AddingDay
  <2> QED BY <1>3, <2>1, StartKeeps DEF AddMealPlanDayCheck
<1>4. ASSUME NEW t \in Trips, NEW d \in Days, NEW link \in Names \union {Unsaid},
             UpdateMealPlanDayCheck(r, t, d, link)
      PROVE  PlanInv'
  <2> DEFINE q == [op |-> "updateDay", trip |-> t, day |-> d, link |-> link]
  <2>1. q \in Request
      BY DEF Request, UpdatingDay
  <2> QED BY <1>4, <2>1, StartKeeps DEF UpdateMealPlanDayCheck
<1>5. ASSUME NEW t \in Trips, NEW d \in Days, DeleteMealPlanDayCheck(r, t, d) PROVE PlanInv'
  <2> DEFINE q == [op |-> "deleteDay", trip |-> t, day |-> d]
  <2>1. q \in Request
      BY DEF Request, DeletingDay
  <2> QED BY <1>5, <2>1, StartKeeps DEF DeleteMealPlanDayCheck
<1>6. ASSUME NEW t \in Trips, NEW list \in MealList, ReplaceMealsDelete(r, t, list) PROVE PlanInv'
  <2> DEFINE q == [op |-> "replace", trip |-> t, list |-> list, seen |-> MealsOf(t)]
  <2>1. q \in Request
      BY DEF Request, Replacing, MealsOf
  <2> QED BY <1>6, <2>1, StartKeeps DEF ReplaceMealsDelete
<1> QED
    BY <1>1, <1>2, <1>3, <1>4, <1>5, <1>6
    DEF PatchTrip, RemoveTrip, PostMealPlanDay, PutMealPlanDay, RemoveMealPlanDay, PutMeals

-----------------------------------------------------------------------------
(* Trips.  A new version with the same names leaves true what the others   *)
(* rely on, as long as none of them is writing this trip.                  *)
LEMMA NewVersionKeeps ==
    ASSUME PlanInv, NEW t \in Trips, TripExists(t),
           NEW row \in TripRow, row.names = trip[t].names, row.version = trip[t].version + 1,
           trip' = [trip EXCEPT ![t] = row],
           \A s \in Requests : req'[s] = req[s] \/ req'[s] = Idle,
           \A s \in Requests : req'[s].op = "editing" => req'[s].trip # t
    PROVE  /\ trip' \in [Trips -> TripRow \union {Unborn, Gone}]
           /\ TripExists(t)'
           /\ \A u \in Trips : TripExists(u)' <=> TripExists(u)
           /\ \A u \in Trips : TripExists(u) => trip'[u].names = trip[u].names
           /\ EditsLoaded'
           /\ LinksLoaded'
<1>0. PlanTypeOK
    BY DEF PlanInv
<1>1. \A u \in Trips : trip'[u] = IF u = t THEN row ELSE trip[u]
    BY <1>0 DEF PlanTypeOK
<1>2. trip' \in [Trips -> TripRow \union {Unborn, Gone}]
    BY <1>0 DEF PlanTypeOK
<1>3. row # Unborn /\ row # Gone
    BY RowIsNoNull
<1>4. \A u \in Trips : TripExists(u)' <=> TripExists(u)
    BY <1>1, <1>3 DEF TripExists
<1>5. EditsLoaded'
  <2> SUFFICES ASSUME NEW s \in Requests, req'[s].op \in {"edit", "editing"}
               PROVE  LET p == req'[s] IN
                      /\ trip'[p.trip] # Unborn
                      /\ p.edit.base # Unsaid => p.edit.base <= p.row.version
                      /\ trip'[p.trip] \notin {Unborn, Gone} =>
                            /\ p.row.names = trip'[p.trip].names
                            /\ p.row.version <= trip'[p.trip].version
                            /\ p.row.version = trip'[p.trip].version => p.row = trip'[p.trip]
                      /\ p.op = "editing" => /\ trip'[p.trip] \notin {Unborn, Gone}
                                             /\ p.edit.base \in {Unsaid, trip'[p.trip].version}
                                             /\ trip'[p.trip].version < MaxVersion
      BY DEF EditsLoaded, TripExists, VersionHolds
  <2>1. req'[s] = req[s] /\ req[s] \in Editing
      BY <1>0, RequestKinds DEF Idle, PlanTypeOK
  <2>2. req[s].trip \in Trips /\ req[s].row \in TripRow /\ req[s].row.version \in Int
      BY <2>1, VersionIsBounded DEF Editing, TripRow, Versions
  <2> DEFINE q == req[s]
  <2>5. /\ trip[q.trip] # Unborn
        /\ q.edit.base # Unsaid => q.edit.base <= q.row.version
        /\ TripExists(q.trip) =>
              /\ q.row.names = trip[q.trip].names
              /\ q.row.version <= trip[q.trip].version
              /\ q.row.version = trip[q.trip].version => q.row = trip[q.trip]
        /\ q.op = "editing" => /\ TripExists(q.trip)
                               /\ q.edit.base \in {Unsaid, trip[q.trip].version}
                               /\ trip[q.trip].version < MaxVersion
      BY <2>1 DEF PlanInv, EditsLoaded, VersionHolds
  <2>3. CASE q.trip # t
      BY <2>1, <2>2, <2>3, <2>5, <1>1 DEF TripExists
  <2>4. CASE q.trip = t
    <3>1. trip[t].version \in Int
        BY <1>0, TripTyped
    <3>2. q.row.version < trip'[t].version
        BY <2>2, <2>4, <2>5, <3>1, <1>1
    <3>3. q.row.names = trip'[t].names /\ q.op # "editing"
        BY <2>1, <2>4, <2>5, <1>1
    <3> QED BY <2>1, <2>2, <2>4, <2>5, <3>1, <3>2, <3>3, <1>1, <1>3 DEF TripExists
  <2> QED BY <2>3, <2>4
<1>6. LinksLoaded'
  <2> SUFFICES ASSUME NEW s \in Requests, req'[s].op \in {"addDay", "updateDay"}
               PROVE  LET p == req'[s] IN
                      /\ trip'[p.trip] # Unborn
                      /\ p.link # Unsaid /\ trip'[p.trip] \notin {Unborn, Gone} => p.link \in trip'[p.trip].names
      BY DEF LinksLoaded, TripExists
  <2>1. req'[s] = req[s]
      BY DEF Idle
  <2>2. req[s].trip \in Trips
      BY <1>0, <2>1, RequestKinds DEF PlanTypeOK, AddingDay, UpdatingDay
  <2>3. /\ trip[req[s].trip] # Unborn
        /\ req[s].link # Unsaid /\ TripExists(req[s].trip) => req[s].link \in trip[req[s].trip].names
      BY <2>1 DEF PlanInv, LinksLoaded
  <2> QED BY <2>1, <2>2, <2>3, <1>1, <1>3 DEF TripExists
<1> QED BY <1>1, <1>2, <1>4, <1>5, <1>6

LEMMA TransferKeeps ==
    ASSUME PlanInv, NEW t \in Trips, TransferOwnership(t)
    PROVE  PlanInv'
<1> DEFINE row == [trip[t] EXCEPT !.version = @ + 1]
<1>0. PlanTypeOK
    BY DEF PlanInv
<1>1. /\ trip[t] \in TripRow
      /\ trip[t].version \in Int
      /\ trip[t].version \in Versions
      /\ trip[t].fields \in [Fields -> Versions]
      /\ \A f \in Fields : trip[t].fields[f] <= trip[t].version
    BY <1>0, TripTyped DEF TransferOwnership
<1>2. row \in TripRow /\ row.names = trip[t].names /\ row.version = trip[t].version + 1
  <2>1. trip[t].version + 1 \in Versions
      BY <1>1, VersionIsBounded DEF TransferOwnership, Versions
  <2>2. \A f \in Fields : trip[t].fields[f] \in Int /\ trip[t].fields[f] <= trip[t].version + 1
      BY <1>1, VersionIsBounded DEF Versions
  <2> QED BY <1>1, <2>1, <2>2 DEF TripRow
<1>3. /\ trip' = [trip EXCEPT ![t] = row]
      /\ TripExists(t)
      /\ \A s \in Requests : req'[s] = req[s]
      /\ \A s \in Requests : req'[s].op = "editing" => req'[s].trip # t
    BY DEF TransferOwnership, Locked
<1>4. /\ trip' \in [Trips -> TripRow \union {Unborn, Gone}]
      /\ \A u \in Trips : TripExists(u)' <=> TripExists(u)
      /\ \A u \in Trips : TripExists(u) => trip'[u].names = trip[u].names
      /\ EditsLoaded'
      /\ LinksLoaded'
    BY <1>2, <1>3, NewVersionKeeps
<1>5. PlanTypeOK'
    BY <1>0, <1>4 DEF PlanTypeOK, TransferOwnership
<1>6. LinksHaveNames' /\ PlanBelongs'
  <2>1. UNCHANGED <<day, meal, item>>
      BY DEF TransferOwnership
  <2>2. \A d \in Days : DayExists(d) => day[d].trip \in Trips
      BY <1>0, DayTyped
  <2> QED BY <1>0, <1>4, <2>1, <2>2
      DEF PlanInv, PlanTypeOK, MealRow, LinksHaveNames, PlanBelongs, DayExists, MealExists
<1>7. EditsExclude'
    BY DEF TransferOwnership, PlanInv, EditsExclude
<1> QED BY <1>4, <1>5, <1>6, <1>7 DEF PlanInv

LEMMA CreateTripKeeps ==
    ASSUME PlanInv, NEW t \in Trips, NEW d \in Days, NEW names \in SUBSET Names, CreateTrip(t, d, names)
    PROVE  PlanInv'
<1> DEFINE row == [names |-> names, fields |-> [f \in Fields |-> 1], version |-> 1]
           link == IF FirstName \in names THEN FirstName ELSE Unsaid
<1>0. PlanTypeOK
    BY DEF PlanInv
<1>1. row \in TripRow /\ [trip |-> t, link |-> link] \in DayRow
    BY VersionIsBounded DEF TripRow, DayRow, Versions
<1>2. /\ \A u \in Trips : trip'[u] = IF u = t THEN row ELSE trip[u]
      /\ \A e \in Days : day'[e] = IF e = d THEN [trip |-> t, link |-> link] ELSE day[e]
      /\ trip[t] = Unborn /\ day[d] = Unborn
      /\ UNCHANGED <<meal, item, req>>
    BY <1>0 DEF PlanTypeOK, CreateTrip
<1>3. PlanTypeOK'
    BY <1>0, <1>1 DEF PlanTypeOK, CreateTrip
<1>4. /\ \A u \in Trips : TripExists(u)' <=> (TripExists(u) \/ u = t)
      /\ \A e \in Days : DayExists(e)' <=> (DayExists(e) \/ e = d)
    BY <1>1, <1>2, RowIsNoNull DEF TripExists, DayExists
<1>5. LinksHaveNames'
  <2> SUFFICES ASSUME NEW e \in Days, DayExists(e)', day'[e].link # Unsaid
               PROVE  day'[e].link \in trip'[day'[e].trip].names
      BY DEF LinksHaveNames
  <2>1. CASE e = d
      BY <2>1, <1>2
  <2>2. CASE e # d
    <3>1. day'[e] = day[e] /\ DayExists(e) /\ day[e].trip \in Trips /\ TripExists(day[e].trip)
        BY <2>2, <1>0, <1>2, <1>4, DayTyped DEF PlanInv, PlanBelongs
    <3>2. day[e].trip # t
        BY <3>1, <1>2 DEF TripExists
    <3> QED BY <3>1, <3>2, <1>2 DEF PlanInv, LinksHaveNames
  <2> QED BY <2>1, <2>2
<1>6. PlanBelongs'
  <2>1. \A e \in Days : DayExists(e) => day[e].trip \in Trips
      BY <1>0, DayTyped
  <2>2. /\ \A m \in Meals : meal'[m] = meal[m] /\ (MealExists(m)' <=> MealExists(m))
        /\ \A i \in Items : item'[i] = item[i]
      BY <1>2 DEF MealExists
  <2> QED BY <1>0, <1>2, <1>4, <2>1, <2>2 DEF PlanInv, PlanTypeOK, PlanBelongs, MealRow, MealExists
<1>7. EditsLoaded'
  <2> SUFFICES ASSUME NEW s \in Requests, req[s].op \in {"edit", "editing"}
               PROVE  req[s].trip \in Trips /\ trip'[req[s].trip] = trip[req[s].trip]
      BY <1>2 DEF PlanInv, EditsLoaded, TripExists, VersionHolds
  <2>1. req[s].trip \in Trips
      BY <1>0, RequestKinds DEF PlanTypeOK, Editing
  <2>2. trip[req[s].trip] # Unborn
      BY DEF PlanInv, EditsLoaded
  <2> QED BY <2>1, <2>2, <1>2
<1>8. LinksLoaded'
  <2> SUFFICES ASSUME NEW s \in Requests, req[s].op \in {"addDay", "updateDay"}
               PROVE  req[s].trip \in Trips /\ trip'[req[s].trip] = trip[req[s].trip]
      BY <1>2 DEF PlanInv, LinksLoaded, TripExists
  <2>1. req[s].trip \in Trips
      BY <1>0, RequestKinds DEF PlanTypeOK, AddingDay, UpdatingDay
  <2>2. trip[req[s].trip] # Unborn
      BY DEF PlanInv, LinksLoaded
  <2> QED BY <2>1, <2>2, <1>2
<1>9. EditsExclude'
    BY <1>2 DEF PlanInv, EditsExclude
<1> QED BY <1>3, <1>5, <1>6, <1>7, <1>8, <1>9 DEF PlanInv

LEMMA UpdateTripWriteKeeps ==
    ASSUME PlanInv, NEW r \in Requests, UpdateTripWrite(r)
    PROVE  PlanInv'
<1> DEFINE q == [req[r] EXCEPT !.op = "editing", !.unlink = Unlinked(req[r].trip, req[r].edit.names)]
<1>0. PlanTypeOK
    BY DEF PlanInv
<1>1. req[r] \in Editing /\ req[r].trip \in Trips
    BY <1>0, RequestKinds DEF UpdateTripWrite, PlanTypeOK, Editing
<1>2. q \in Editing /\ q \in Request
    BY <1>1 DEF Editing, Request, Unlinked, DaysOf
<1>3. /\ req' = [req EXCEPT ![r] = q]
      /\ UNCHANGED <<trip, day, meal, item>>
      /\ TripExists(q.trip) /\ q.edit.base \in {Unsaid, trip[q.trip].version}
      /\ trip[q.trip].version < MaxVersion
      /\ \A s \in Requests : req[s].op = "editing" => req[s].trip # q.trip
    BY <1>1 DEF UpdateTripWrite, Editing, Locked, VersionHolds
<1>4. /\ \A s \in Requests : req'[s] = IF s = r THEN q ELSE req[s]
      /\ q.trip = req[r].trip /\ q.row = req[r].row /\ q.edit = req[r].edit /\ q.op = "editing"
    BY <1>0, <1>1, <1>3 DEF PlanTypeOK, Editing
<1>5. PlanTypeOK'
    BY <1>0, <1>2, <1>3 DEF PlanTypeOK
<1>6. LinksHaveNames' /\ PlanBelongs'
    BY <1>3 DEF PlanInv, LinksHaveNames, PlanBelongs, TripExists, DayExists, MealExists
<1>7. EditsLoaded'
  <2>1. req[r].op = "edit"
      BY DEF UpdateTripWrite
  <2> QED BY <2>1, <1>3, <1>4 DEF PlanInv, EditsLoaded, TripExists, VersionHolds
<1>8. EditsExclude'
    BY <1>3, <1>4 DEF PlanInv, EditsExclude
<1>9. LinksLoaded'
    BY <1>3, <1>4 DEF PlanInv, LinksLoaded, TripExists
<1> QED BY <1>5, <1>6, <1>7, <1>8, <1>9 DEF PlanInv

LEMMA UpdateTripCommitKeeps ==
    ASSUME PlanInv, NEW r \in Requests, UpdateTripCommit(r)
    PROVE  /\ PlanInv'
           /\ LET q == req[r] IN
              q.edit.base # Unsaid =>
                 /\ trip[q.trip].version = q.edit.base
                 /\ \A f \in Fields \ q.edit.fields : trip'[q.trip].fields[f] = trip[q.trip].fields[f]
<1> DEFINE q == req[r]
           t == q.trip
           v == trip[t].version
<1>0. PlanTypeOK
    BY DEF PlanInv
<1>1. q \in Editing /\ t \in Trips /\ q.edit \in Edit /\ q.row \in TripRow /\ q.unlink \in SUBSET Days
    BY <1>0, RequestKinds DEF UpdateTripCommit, PlanTypeOK, Editing
<1>2. /\ TripExists(t)
      /\ q.edit.base \in {Unsaid, v}
      /\ q.edit.base # Unsaid => q.edit.base <= q.row.version
      /\ q.row.names = trip[t].names
      /\ q.row.version <= v
      /\ q.row.version = v => q.row = trip[t]
      /\ v < MaxVersion
    BY DEF UpdateTripCommit, PlanInv, EditsLoaded, VersionHolds
<1>3. /\ trip[t] \in TripRow /\ v \in Int /\ v \in Versions /\ q.row.version \in Int
      /\ \A f \in Fields : q.row.fields[f] \in Versions /\ q.row.fields[f] <= q.row.version
    BY <1>0, <1>1, <1>2, TripTyped, VersionIsBounded DEF TripRow, Versions
<1>4. Written(q) \in TripRow /\ Written(q).names = trip[t].names /\ Written(q).version = v + 1
  <2>1. v + 1 \in Versions
      BY <1>2, <1>3, VersionIsBounded DEF Versions
  <2>2. \A f \in Fields : q.row.fields[f] <= v + 1
      BY <1>2, <1>3, VersionIsBounded DEF Versions
  <2> QED BY <1>1, <1>2, <1>3, <2>1, <2>2 DEF Written, WrittenWithVersion, NamesWritten, TripRow
<1>5. /\ req' \in [Requests -> Request]
      /\ \A s \in Requests : req'[s] = IF s = r THEN Idle ELSE req[s]
      /\ EditsExclude'
    BY FinishKeeps DEF UpdateTripCommit
<1>6. /\ trip' = [trip EXCEPT ![t] = Written(q)]
      /\ \A s \in Requests : req'[s] = req[s] \/ req'[s] = Idle
      /\ \A s \in Requests : req'[s].op = "editing" => req'[s].trip # t
    BY <1>5 DEF UpdateTripCommit, PlanInv, EditsExclude, Idle
<1>7. /\ trip' \in [Trips -> TripRow \union {Unborn, Gone}]
      /\ \A u \in Trips : TripExists(u)' <=> TripExists(u)
      /\ \A u \in Trips : TripExists(u) => trip'[u].names = trip[u].names
      /\ EditsLoaded'
      /\ LinksLoaded'
    BY <1>1, <1>2, <1>4, <1>6, NewVersionKeeps
<1>8. \A d \in Days :
          /\ DayExists(d)' <=> DayExists(d)
          /\ DayExists(d) => /\ day'[d] \in DayRow
                             /\ day'[d].trip = day[d].trip
                             /\ day'[d].link \in {day[d].link, Unsaid}
          /\ ~DayExists(d) => day'[d] = day[d]
  <2> SUFFICES ASSUME NEW d \in Days
               PROVE  /\ DayExists(d)' <=> DayExists(d)
                      /\ DayExists(d) => /\ day'[d] \in DayRow
                                         /\ day'[d].trip = day[d].trip
                                         /\ day'[d].link \in {day[d].link, Unsaid}
                      /\ ~DayExists(d) => day'[d] = day[d]
      OBVIOUS
  <2>1. day'[d] = IF d \in q.unlink THEN [day[d] EXCEPT !.link = Unsaid] ELSE day[d]
      BY DEF UpdateTripCommit
  <2>2. CASE d \in q.unlink
    <3>1. DayExists(d) /\ day[d] \in DayRow
        BY <2>2, <1>0, DayTyped DEF UpdateTripCommit
    <3>2. [day[d] EXCEPT !.link = Unsaid] \in DayRow
        BY <3>1 DEF DayRow
    <3>3. DayExists(d)'
        BY <2>1, <2>2, <3>2, RowIsNoNull DEF DayExists
    <3> QED BY <2>1, <2>2, <3>1, <3>2, <3>3 DEF DayRow
  <2>3. CASE d \notin q.unlink
      BY <2>1, <2>3, <1>0, DayTyped DEF DayExists
  <2> QED BY <2>2, <2>3
<1>9. PlanTypeOK'
  <2>1. day' = [d \in Days |-> day'[d]]
      BY DEF UpdateTripCommit
  <2>2. \A d \in Days : day'[d] \in DayRow \union {Unborn, Gone}
      BY <1>8 DEF DayExists
  <2> QED BY <1>0, <1>5, <1>7, <2>1, <2>2 DEF PlanTypeOK, UpdateTripCommit
<1>10. LinksHaveNames' /\ PlanBelongs'
  <2>1. UNCHANGED <<meal, item>>
      BY DEF UpdateTripCommit
  <2>2. \A d \in Days : DayExists(d) => day[d].trip \in Trips
      BY <1>0, DayTyped
  <2>3. LinksHaveNames'
      BY <1>7, <1>8, <2>2 DEF PlanInv, PlanBelongs, LinksHaveNames
  <2>4. PlanBelongs'
      BY <1>0, <1>7, <1>8, <2>1, <2>2 DEF PlanInv, PlanTypeOK, MealRow, PlanBelongs, MealExists
  <2> QED BY <2>3, <2>4
<1>11. ASSUME q.edit.base # Unsaid
       PROVE  v = q.edit.base /\ \A f \in Fields \ q.edit.fields : trip'[t].fields[f] = trip[t].fields[f]
  <2>1. v = q.edit.base /\ q.row = trip[t]
      BY <1>2, <1>3, <1>11
  <2>2. trip'[t] = Written(q)
      BY <1>0, <1>1, <1>6 DEF PlanTypeOK
  <2> QED BY <2>1, <2>2 DEF Written, WrittenWithVersion
<1> QED BY <1>5, <1>7, <1>9, <1>10, <1>11 DEF PlanInv

(* The rest starts no request: one ends, or has nothing to do with trips   *)
(* and links.                                                              *)
LEMMA OthersStay ==
    ASSUME PlanInv, UNCHANGED trip,
           \A s \in Requests : req'[s] = req[s] \/ req'[s].op \in {"idle", "replace"}
    PROVE  EditsLoaded' /\ EditsExclude' /\ LinksLoaded'
BY DEF PlanInv, EditsLoaded, EditsExclude, LinksLoaded, TripExists, VersionHolds

LEMMA DeleteTripKeeps ==
    ASSUME PlanInv, NEW r \in Requests, DeleteTripWrite(r)
    PROVE  PlanInv'
<1> DEFINE t == req[r].trip
<1>0. PlanTypeOK
    BY DEF PlanInv
<1>1. t \in Trips
    BY <1>0, RequestKinds DEF DeleteTripWrite, PlanTypeOK, Deleting
<1>2. /\ req' \in [Requests -> Request]
      /\ \A s \in Requests : req'[s] = IF s = r THEN Idle ELSE req[s]
      /\ EditsExclude'
    BY FinishKeeps DEF DeleteTripWrite
<1>3. /\ \A u \in Trips : trip'[u] = IF u = t THEN Gone ELSE trip[u]
      /\ \A d \in Days : day'[d] = IF d \in DaysOf(t) THEN Gone ELSE day[d]
      /\ \A m \in Meals : meal'[m] = IF m \in MealsOf(t) \union MealsIn(DaysOf(t)) THEN Gone ELSE meal[m]
      /\ \A i \in Items : item'[i] = IF item[i] = t THEN Gone ELSE item[i]
    BY <1>0 DEF DeleteTripWrite, MealsWithout, PlanTypeOK
<1>4. PlanTypeOK'
    BY <1>0, <1>2 DEF DeleteTripWrite, MealsWithout, PlanTypeOK
<1>5. /\ \A u \in Trips : TripExists(u)' <=> (TripExists(u) /\ u # t)
      /\ \A d \in Days : DayExists(d)' <=> (DayExists(d) /\ day[d].trip # t)
    BY <1>3 DEF TripExists, DayExists, DaysOf
<1>6. \A d \in Days : DayExists(d)' => day'[d] = day[d] /\ day[d].trip \in Trips
    BY <1>0, <1>3, <1>5, DayTyped DEF DaysOf
<1>7. LinksHaveNames'
    BY <1>3, <1>5, <1>6 DEF PlanInv, LinksHaveNames
<1>8. PlanBelongs'
  <2>1. ASSUME NEW d \in Days, DayExists(d)'
        PROVE  trip'[day'[d].trip] \notin {Unborn, Gone}
      BY <2>1, <1>5, <1>6 DEF PlanInv, PlanBelongs, TripExists
  <2>2. ASSUME NEW m \in Meals, MealExists(m)'
        PROVE  trip'[meal'[m].trip] \notin {Unborn, Gone} /\ day'[meal'[m].day] \notin {Unborn, Gone}
    <3>1. meal'[m] = meal[m] /\ MealExists(m) /\ m \notin MealsOf(t) \union MealsIn(DaysOf(t))
        BY <2>2, <1>3 DEF MealExists
    <3>2. meal[m].trip \in Trips /\ meal[m].day \in Days
        BY <3>1, <1>0 DEF PlanTypeOK, MealRow, MealExists
    <3>3. TripExists(meal[m].trip) /\ DayExists(meal[m].day)
        BY <3>1 DEF PlanInv, PlanBelongs
    <3>4. meal[m].trip # t /\ day[meal[m].day].trip # t
        BY <3>1, <3>2, <3>3 DEF MealsOf, MealsIn, DaysOf
    <3> QED BY <3>1, <3>2, <3>3, <3>4, <1>5 DEF TripExists, DayExists
  <2>3. ASSUME NEW i \in Items, item'[i] # Gone PROVE trip'[item'[i]] \notin {Unborn, Gone}
    <3>1. item'[i] = item[i] /\ item[i] # Gone /\ item[i] # t /\ item[i] \in Trips
        BY <2>3, <1>0, <1>3 DEF PlanTypeOK
    <3> QED BY <3>1, <1>5 DEF PlanInv, PlanBelongs, TripExists
  <2> QED BY <2>1, <2>2, <2>3 DEF PlanBelongs, TripExists, DayExists
<1>9. EditsLoaded'
  <2> SUFFICES ASSUME NEW s \in Requests, req'[s].op \in {"edit", "editing"}
               PROVE  LET p == req'[s] IN
                      /\ trip'[p.trip] # Unborn
                      /\ p.edit.base # Unsaid => p.edit.base <= p.row.version
                      /\ trip'[p.trip] \notin {Unborn, Gone} =>
                            /\ p.row.names = trip'[p.trip].names
                            /\ p.row.version <= trip'[p.trip].version
                            /\ p.row.version = trip'[p.trip].version => p.row = trip'[p.trip]
                      /\ p.op = "editing" => /\ trip'[p.trip] \notin {Unborn, Gone}
                                             /\ p.edit.base \in {Unsaid, trip'[p.trip].version}
                                             /\ trip'[p.trip].version < MaxVersion
      BY DEF EditsLoaded, TripExists, VersionHolds
  <2>1. req'[s] = req[s] /\ req[s].trip \in Trips
      BY <1>0, <1>2, RequestKinds DEF Idle, PlanTypeOK, Editing
  <2>2. req[s].op = "editing" => req[s].trip # t
      BY DEF DeleteTripWrite, Locked
  <2> QED BY <2>1, <2>2, <1>3, NullsAreNoData DEF PlanInv, EditsLoaded, TripExists, VersionHolds
<1>10. LinksLoaded'
  <2> SUFFICES ASSUME NEW s \in Requests, req'[s].op \in {"addDay", "updateDay"}
               PROVE  LET p == req'[s] IN
                      /\ trip'[p.trip] # Unborn
                      /\ p.link # Unsaid /\ trip'[p.trip] \notin {Unborn, Gone} => p.link \in trip'[p.trip].names
      BY DEF LinksLoaded, TripExists
  <2>1. req'[s] = req[s]
      BY <1>2 DEF Idle
  <2>2. req[s].trip \in Trips
      BY <1>0, <2>1, RequestKinds DEF PlanTypeOK, AddingDay, UpdatingDay
  <2> QED BY <2>1, <2>2, <1>3, NullsAreNoData DEF PlanInv, LinksLoaded, TripExists
<1> QED BY <1>2, <1>4, <1>7, <1>8, <1>9, <1>10 DEF PlanInv

-----------------------------------------------------------------------------
(* Meal days.                                                              *)
LEMMA AddDayKeeps ==
    ASSUME PlanInv, NEW r \in Requests, NEW d \in Days, AddMealPlanDayWrite(r, d)
    PROVE  PlanInv'
<1> DEFINE row == [trip |-> req[r].trip, link |-> req[r].link]
<1>0. PlanTypeOK
    BY DEF PlanInv
<1>1. row \in DayRow /\ row # Unborn /\ row # Gone
    BY <1>0, RequestKinds, RowIsNoNull DEF AddMealPlanDayWrite, PlanTypeOK, AddingDay, DayRow
<1>2. /\ req' \in [Requests -> Request]
      /\ \A s \in Requests : req'[s] = req[s] \/ req'[s].op \in {"idle", "replace"}
    BY FinishKeeps DEF AddMealPlanDayWrite, Idle
<1>3. /\ \A e \in Days : day'[e] = IF e = d THEN row ELSE day[e]
      /\ UNCHANGED <<trip, meal, item>>
      /\ TripExists(row.trip)
      /\ row.link # Unsaid => row.link \in trip[row.trip].names
    BY <1>0 DEF AddMealPlanDayWrite, TripReferred, PlanTypeOK, PlanInv, LinksLoaded
<1>4. PlanTypeOK'
    BY <1>0, <1>1, <1>2 DEF PlanTypeOK, AddMealPlanDayWrite
<1>5. LinksHaveNames' /\ PlanBelongs'
  <2>1. \A e \in Days : DayExists(e)' <=> (DayExists(e) \/ e = d)
      BY <1>1, <1>3 DEF DayExists
  <2>2. LinksHaveNames'
      BY <1>3, <2>1 DEF PlanInv, LinksHaveNames
  <2>3. PlanBelongs'
      BY <1>0, <1>3, <2>1 DEF PlanInv, PlanBelongs, PlanTypeOK, MealRow, TripExists, MealExists
  <2> QED BY <2>2, <2>3
<1>6. EditsLoaded' /\ EditsExclude' /\ LinksLoaded'
    BY <1>2, <1>3, OthersStay
<1> QED BY <1>4, <1>5, <1>6 DEF PlanInv

LEMMA UpdateDayKeeps ==
    ASSUME PlanInv, NEW r \in Requests, UpdateMealPlanDayWrite(r)
    PROVE  PlanInv'
<1> DEFINE d == req[r].day
           row == [day[d] EXCEPT !.link = req[r].link]
<1>0. PlanTypeOK
    BY DEF PlanInv
<1>1. d \in Days /\ req[r].link \in Names \union {Unsaid} /\ DayExists(d) /\ day[d].trip = req[r].trip
    BY <1>0, RequestKinds DEF UpdateMealPlanDayWrite, PlanTypeOK, UpdatingDay, DaysOf
<1>2. /\ row \in DayRow /\ row # Unborn /\ row # Gone
      /\ row.trip = day[d].trip /\ row.link = req[r].link
    BY <1>0, <1>1, DayTyped, RowIsNoNull DEF DayRow
<1>3. /\ req' \in [Requests -> Request]
      /\ \A s \in Requests : req'[s] = req[s] \/ req'[s].op \in {"idle", "replace"}
    BY FinishKeeps DEF UpdateMealPlanDayWrite, Idle
<1>4. /\ \A e \in Days : day'[e] = IF e = d THEN row ELSE day[e]
      /\ UNCHANGED <<trip, meal, item>>
    BY <1>0 DEF UpdateMealPlanDayWrite, PlanTypeOK
<1>5. PlanTypeOK'
    BY <1>0, <1>1, <1>2, <1>3 DEF PlanTypeOK, UpdateMealPlanDayWrite
<1>6. TripExists(day[d].trip) /\ (row.link # Unsaid => row.link \in trip[day[d].trip].names)
    BY <1>1, <1>2 DEF PlanInv, PlanBelongs, LinksLoaded, UpdateMealPlanDayWrite
<1>7. LinksHaveNames' /\ PlanBelongs'
  <2>1. \A e \in Days : DayExists(e)' <=> DayExists(e)
      BY <1>1, <1>2, <1>4 DEF DayExists
  <2>2. LinksHaveNames'
      BY <1>2, <1>4, <1>6, <2>1 DEF PlanInv, LinksHaveNames
  <2>3. PlanBelongs'
      BY <1>0, <1>2, <1>4, <1>6, <2>1 DEF PlanInv, PlanBelongs, PlanTypeOK, MealRow, TripExists, MealExists
  <2> QED BY <2>2, <2>3
<1>8. EditsLoaded' /\ EditsExclude' /\ LinksLoaded'
    BY <1>3, <1>4, OthersStay
<1> QED BY <1>5, <1>7, <1>8 DEF PlanInv

LEMMA DeleteDayKeeps ==
    ASSUME PlanInv, NEW r \in Requests, DeleteMealPlanDayWrite(r)
    PROVE  PlanInv'
<1> DEFINE d == req[r].day
<1>0. PlanTypeOK
    BY DEF PlanInv
<1>1. d \in Days
    BY <1>0, RequestKinds DEF DeleteMealPlanDayWrite, PlanTypeOK, DeletingDay
<1>2. /\ req' \in [Requests -> Request]
      /\ \A s \in Requests : req'[s] = req[s] \/ req'[s].op \in {"idle", "replace"}
    BY FinishKeeps DEF DeleteMealPlanDayWrite, Idle
<1>3. /\ \A e \in Days : day'[e] = IF e = d THEN Gone ELSE day[e]
      /\ \A m \in Meals : meal'[m] = IF MealExists(m) /\ meal[m].day = d THEN Gone ELSE meal[m]
      /\ UNCHANGED <<trip, item>>
    BY <1>0 DEF DeleteMealPlanDayWrite, MealsWithout, MealsIn, PlanTypeOK
<1>4. PlanTypeOK'
    BY <1>0, <1>2 DEF PlanTypeOK, DeleteMealPlanDayWrite, MealsWithout
<1>5. LinksHaveNames' /\ PlanBelongs'
  <2>1. \A e \in Days : DayExists(e)' <=> (DayExists(e) /\ e # d)
      BY <1>3 DEF DayExists
  <2>2. LinksHaveNames'
      BY <1>3, <2>1 DEF PlanInv, LinksHaveNames
  <2>3. PlanBelongs'
      BY <1>0, <1>3, <2>1 DEF PlanInv, PlanBelongs, PlanTypeOK, MealRow, TripExists, MealExists
  <2> QED BY <2>2, <2>3
<1>6. EditsLoaded' /\ EditsExclude' /\ LinksLoaded'
    BY <1>2, <1>3, OthersStay
<1> QED BY <1>4, <1>5, <1>6 DEF PlanInv

-----------------------------------------------------------------------------
(* Meals and itinerary.                                                    *)
LEMMA MealsKeep ==
    ASSUME PlanInv, UNCHANGED <<trip, day, item>>,
           req' \in [Requests -> Request],
           \A s \in Requests : req'[s] = req[s] \/ req'[s].op \in {"idle", "replace"},
           meal' \in [Meals -> MealRow \union {Gone}],
           \A m \in Meals : meal'[m] \in {meal[m], Gone} \/ (TripExists(meal'[m].trip) /\ DayExists(meal'[m].day))
    PROVE  PlanInv'
<1>1. PlanTypeOK'
    BY DEF PlanInv, PlanTypeOK
<1>2. LinksHaveNames' /\ PlanBelongs'
    BY DEF PlanInv, LinksHaveNames, PlanBelongs, TripExists, DayExists, MealExists
<1>3. EditsLoaded' /\ EditsExclude' /\ LinksLoaded'
    BY OthersStay
<1> QED BY <1>1, <1>2, <1>3 DEF PlanInv

LEMMA SingleMealsKeep ==
    ASSUME PlanInv, NEW m \in Meals, NEW t \in Trips, NEW d \in Days,
           CreateMeal(m, t, d) \/ UpdateMeal(m, t, d) \/ DeleteMeal(m, t)
    PROVE  PlanInv'
<1>0. PlanTypeOK /\ UNCHANGED <<trip, day, item, req>>
    BY DEF PlanInv, CreateMeal, UpdateMeal, DeleteMeal
<1>1. CASE CreateMeal(m, t, d)
  <2>1. meal' \in [Meals -> MealRow \union {Gone}]
      BY <1>0, <1>1 DEF CreateMeal, PlanTypeOK, MealRow
  <2>2. \A n \in Meals : meal'[n] = meal[n] \/ (TripExists(meal'[n].trip) /\ DayExists(meal'[n].day))
      BY <1>0, <1>1 DEF CreateMeal, TripReferred, PlanTypeOK
  <2> QED BY <1>0, <2>1, <2>2, MealsKeep DEF PlanTypeOK
<1>2. CASE UpdateMeal(m, t, d)
  <2> DEFINE row == [meal[m] EXCEPT !.day = d]
  <2>1. meal[m] \in MealRow /\ MealExists(m) /\ DayExists(d)
      BY <1>0, <1>2 DEF UpdateMeal, MealsOf, MealExists, PlanTypeOK
  <2>2. row \in MealRow /\ row.trip = meal[m].trip /\ row.day = d /\ TripExists(row.trip)
      BY <2>1 DEF MealRow, PlanInv, PlanBelongs
  <2>3. meal' = [meal EXCEPT ![m] = row]
      BY <1>2 DEF UpdateMeal
  <2>4. meal' \in [Meals -> MealRow \union {Gone}]
      BY <1>0, <2>2, <2>3 DEF PlanTypeOK
  <2>5. \A n \in Meals : meal'[n] = meal[n] \/ (TripExists(meal'[n].trip) /\ DayExists(meal'[n].day))
      BY <1>0, <2>1, <2>2, <2>3 DEF PlanTypeOK
  <2> QED BY <1>0, <2>4, <2>5, MealsKeep DEF PlanTypeOK
<1>3. CASE DeleteMeal(m, t)
  <2>1. meal' \in [Meals -> MealRow \union {Gone}] /\ \A n \in Meals : meal'[n] \in {meal[n], Gone}
      BY <1>0, <1>3 DEF DeleteMeal, MealsWithout, PlanTypeOK
  <2> QED BY <1>0, <2>1, MealsKeep DEF PlanTypeOK
<1> QED BY <1>1, <1>2, <1>3

LEMMA ReplaceMealsKeep ==
    ASSUME PlanInv, NEW r \in Requests, ReplaceMealsInsert(r)
    PROVE  PlanInv'
<1> DEFINE q == req[r]
           new == DOMAIN q.list
<1>0. PlanTypeOK /\ UNCHANGED <<trip, day, item>>
    BY DEF PlanInv, ReplaceMealsInsert
<1>1. q \in Replacing
    BY <1>0, RequestKinds DEF ReplaceMealsInsert, PlanTypeOK
<1>2. q.trip \in Trips /\ new \in SUBSET Meals /\ \A m \in new : q.list[m] \in Days
    BY <1>1 DEF Replacing, MealList
<1>3. \A s \in Requests : req'[s] \in Request /\ (req'[s] = req[s] \/ req'[s].op \in {"idle", "replace"})
  <2> SUFFICES ASSUME NEW s \in Requests
               PROVE  req'[s] \in Request /\ (req'[s] = req[s] \/ req'[s].op \in {"idle", "replace"})
      OBVIOUS
  <2>1. CASE s # r /\ req[s].op = "replace"
    <3>1. req'[s] = [req[s] EXCEPT !.seen = @ \ (q.seen \union new)]
        BY <2>1 DEF ReplaceMealsInsert
    <3>2. req[s] \in Replacing
        BY <2>1, <1>0, RequestKinds DEF PlanTypeOK
    <3>3. req'[s] \in Replacing
        BY <3>1, <3>2 DEF Replacing
    <3> QED BY <3>3 DEF Replacing, Request
  <2>2. CASE ~(s # r /\ req[s].op = "replace")
    <3>1. req'[s] = IF s = r THEN Idle ELSE req[s]
        BY <2>2 DEF ReplaceMealsInsert
    <3> QED BY <3>1, <1>0 DEF PlanTypeOK, Request, Idle
  <2> QED BY <2>1, <2>2
<1>4. req' \in [Requests -> Request]
    BY <1>3 DEF ReplaceMealsInsert
<1>5. \A m \in Meals : meal'[m] = IF m \in new THEN [trip |-> q.trip, day |-> q.list[m]]
                                  ELSE IF m \in q.seen THEN Gone ELSE meal[m]
    BY DEF ReplaceMealsInsert
<1>6. meal' \in [Meals -> MealRow \union {Gone}]
  <2>1. \A m \in Meals : meal'[m] \in MealRow \union {Gone}
    <3>1. \A m \in new : [trip |-> q.trip, day |-> q.list[m]] \in MealRow
        BY <1>2 DEF MealRow
    <3>2. \A m \in Meals : meal[m] \in MealRow \union {Gone}
        BY <1>0 DEF PlanTypeOK
    <3> HIDE DEF q, new
    <3> QED BY <3>1, <3>2, <1>5
  <2> QED BY <2>1 DEF ReplaceMealsInsert
<1>7. \A m \in Meals : meal'[m] \in {meal[m], Gone} \/ (TripExists(meal'[m].trip) /\ DayExists(meal'[m].day))
    BY <1>5 DEF ReplaceMealsInsert, TripReferred
<1> QED BY <1>0, <1>3, <1>4, <1>6, <1>7, MealsKeep

LEMMA ItineraryKeeps ==
    ASSUME PlanInv, NEW i \in Items, NEW t \in Trips, AddItineraryItem(i, t) \/ DeleteItineraryItem(i, t)
    PROVE  PlanInv'
<1>1. UNCHANGED <<trip, day, meal, req>>
    BY DEF AddItineraryItem, DeleteItineraryItem
<1>2. item' \in [Items -> Trips \union {Gone}]
      /\ \A j \in Items : item'[j] \in {item[j], Gone} \/ TripExists(item'[j])
    BY DEF AddItineraryItem, DeleteItineraryItem, TripReferred, PlanInv, PlanTypeOK
<1>3. PlanTypeOK'
    BY <1>1, <1>2 DEF PlanInv, PlanTypeOK
<1>4. LinksHaveNames' /\ PlanBelongs'
    BY <1>1, <1>2 DEF PlanInv, LinksHaveNames, PlanBelongs, TripExists, DayExists, MealExists
<1>5. EditsLoaded' /\ EditsExclude' /\ LinksLoaded'
    BY <1>1, OthersStay
<1> QED BY <1>3, <1>4, <1>5 DEF PlanInv

-----------------------------------------------------------------------------
LEMMA PlanInvStep == PlanInv /\ [Next]_vars => PlanInv'
<1> SUFFICES ASSUME PlanInv, [Next]_vars PROVE PlanInv'
    OBVIOUS
<1>1. CASE PostTrip \/ PostTransfer
    BY <1>1, CreateTripKeeps, TransferKeeps DEF PostTrip, PostTransfer
<1>2. CASE PostMeal \/ PutMeal
    BY <1>2, SingleMealsKeep DEF PostMeal, PutMeal
<1>3. CASE RemoveMeal
  <2>1. PICK m \in Meals, t \in Trips : DeleteMeal(m, t)
      BY <1>3 DEF RemoveMeal
  <2>2. meal[m] \in MealRow
      BY <2>1 DEF DeleteMeal, MealsOf, MealExists, PlanInv, PlanTypeOK
  <2>3. meal[m].day \in Days
      BY <2>2 DEF MealRow
  <2> QED BY <2>1, <2>3, SingleMealsKeep
<1>4. CASE PostItineraryItem \/ RemoveItineraryItem
    BY <1>4, ItineraryKeeps DEF PostItineraryItem, RemoveItineraryItem
<1>5. ASSUME NEW r \in Requests,
             PatchTrip(r) \/ RemoveTrip(r) \/ PostMealPlanDay(r) \/ PutMealPlanDay(r)
                 \/ RemoveMealPlanDay(r) \/ PutMeals(r)
      PROVE  PlanInv'
    BY <1>5, ChecksKeep
<1>6. ASSUME NEW r \in Requests, Write(r) PROVE PlanInv'
    BY <1>6, UpdateTripWriteKeeps, UpdateTripCommitKeeps, DeleteTripKeeps, AddDayKeeps, UpdateDayKeeps,
       DeleteDayKeeps, ReplaceMealsKeep, GiveUpKeeps DEF Write
<1>7. CASE UNCHANGED vars
    BY <1>7 DEF vars, PlanInv, PlanTypeOK, LinksHaveNames, PlanBelongs, EditsLoaded, EditsExclude,
                LinksLoaded, TripExists, DayExists, MealExists, VersionHolds
<1> QED BY <1>1, <1>2, <1>3, <1>4, <1>5, <1>6, <1>7 DEF Next

LEMMA PlanInvariant == Spec => []PlanInv
BY PlanInvInit, PlanInvStep, PTL DEF Spec

(* Rows and requests keep their types: no field is newer than its trip. *)
THEOREM PlanIsTyped == Spec => []PlanTypeOK
BY PlanInvariant, PTL DEF PlanInv

(* A linked meal day names a day of its trip, whatever requests overlap. *)
THEOREM LinksStayValid == Spec => []LinksHaveNames
BY PlanInvariant, PTL DEF PlanInv

(* Nothing of a plan outlives its trip, and no meal its day. *)
THEOREM NothingOutlivesItsTrip == Spec => []PlanBelongs
BY PlanInvariant, PTL DEF PlanInv

(* An edit guarded by last_updated_at loses nobody's change. *)
THEOREM GuardedEditsLoseNothing == Spec => GuardedEditsRevertNothing
<1> DEFINE Kept == \A r \in Requests :
               LET q == req[r] IN
               q.op = "editing" /\ q.edit.base # Unsaid /\ trip' # trip /\ req'[r] = Idle =>
                   /\ trip[q.trip].version = q.edit.base
                   /\ \A f \in Fields \ q.edit.fields : trip'[q.trip].fields[f] = trip[q.trip].fields[f]
<1>1. ASSUME PlanInv, [Next]_vars PROVE [Kept]_vars
  <2> SUFFICES ASSUME NEW r \in Requests, Next, req[r].op = "editing", trip' # trip, req'[r] = Idle
               PROVE  UpdateTripCommit(r)
      BY <1>1, UpdateTripCommitKeeps
  <2>1. req'[r] # req[r]
      BY DEF Idle
  <2>2. PICK s \in Requests :
            \/ PatchTrip(s) \/ RemoveTrip(s) \/ PostMealPlanDay(s) \/ PutMealPlanDay(s)
            \/ RemoveMealPlanDay(s) \/ PutMeals(s) \/ Write(s)
      BY <2>1 DEF Next, PostTrip, PostTransfer, CreateTrip, TransferOwnership, PostMeal, CreateMeal,
                  PutMeal, UpdateMeal, RemoveMeal, DeleteMeal, PostItineraryItem, AddItineraryItem,
                  RemoveItineraryItem, DeleteItineraryItem
  <2>3. UpdateTripCommit(s) \/ DeleteTripWrite(s)
      BY <2>2 DEF PatchTrip, UpdateTripCheck, RemoveTrip, DeleteTripCheck, PostMealPlanDay,
                  AddMealPlanDayCheck, PutMealPlanDay, UpdateMealPlanDayCheck, RemoveMealPlanDay,
                  DeleteMealPlanDayCheck, PutMeals, ReplaceMealsDelete, Write, UpdateTripWrite,
                  AddMealPlanDayWrite, UpdateMealPlanDayWrite, DeleteMealPlanDayWrite,
                  ReplaceMealsInsert, GiveUp
  <2>4. \A p \in Requests : req'[p] = IF p = s THEN Idle ELSE req[p]
      BY <1>1, <2>3, FinishKeeps DEF UpdateTripCommit, DeleteTripWrite
  <2>5. s = r
      BY <2>1, <2>4
  <2> QED BY <2>3, <2>5 DEF DeleteTripWrite
<1> QED BY <1>1, PlanInvariant, PTL DEF Spec, GuardedEditsRevertNothing
=============================================================================
