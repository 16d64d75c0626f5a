------------------------------ MODULE TripPlan ------------------------------
(***************************************************************************)
(* What a trip is made of besides its members (backend/internal/trip): its *)
(* fields and day names, the meal days linked to day names, meals and      *)
(* itinerary.  Who may do what is TripMembers' part; here every request    *)
(* comes from somebody who may make it.                                    *)
(*                                                                         *)
(* A `...Check' reads, a `...Write' is the statement or transaction that   *)
(* follows at READ COMMITTED.  The operations that are a single statement  *)
(* after the access check are one step.  A check that fails answers with   *)
(* an error and changes nothing, so it is no step.                         *)
(***************************************************************************)
EXTENDS Integers

CONSTANTS Trips, Days, Meals, Items,  \* ids of trips, meal days, meals, itinerary items
          Names,       \* names of days
          FirstName,   \* "D1"
          Fields,      \* columns of a trip
          FieldSets,   \* the sets of columns one edit may set
          Requests,    \* requests the server works on at the same time
          MaxVersion,  \* bound on the edits of one trip
          Unsaid,      \* in the place of an optional value of a request
          Unborn,      \* in the place of a row that has not been inserted
          Gone         \* in the place of a deleted row

ASSUME FieldSetsAreFields == FieldSets \subseteq SUBSET Fields
ASSUME VersionIsBounded == MaxVersion \in Nat \ {0}

VARIABLES
    trip,  \* trips: day_names, updated_at, and which version set each field
    day,   \* trip_meal_plan_days: the trip and linked_itinerary_day
    meal,  \* meal_items: the trip and the meal day
    item,  \* itinerary_items: the trip
    req    \* what each running request has read

vars == <<trip, day, meal, item, req>>

Versions == 0 .. MaxVersion
TripRow == {row \in [names : SUBSET Names, fields : [Fields -> Versions], version : Versions] :
                \A f \in Fields : row.fields[f] <= row.version}
DayRow == [trip : Trips, link : Names \union {Unsaid}]
MealRow == [trip : Trips, day : Days]
MealList == UNION {[S -> Days] : S \in SUBSET Meals}

ASSUME NullsAreNoData ==
    /\ Unborn # Gone
    /\ \A n \in Names : n # Unsaid
    /\ \A v \in Versions : v # Unsaid
    /\ \A names \in SUBSET Names : names # Unsaid
    /\ \A row \in TripRow \union DayRow \union MealRow \union Trips : row # Unborn /\ row # Gone

Idle == [op |-> "idle"]
(* PATCH of a trip: the fields it sets, the day names it wants and         *)
(* last_updated_at, both optional.                                         *)
Edit == [fields : FieldSets, names : (SUBSET Names) \union {Unsaid},
         base : Versions \union {Unsaid}]
Editing == [op : {"edit", "editing"}, trip : Trips, edit : Edit, row : TripRow, unlink : SUBSET Days]
Deleting == [op : {"delete"}, trip : Trips]
AddingDay == [op : {"addDay"}, trip : Trips, link : Names \union {Unsaid}]
UpdatingDay == [op : {"updateDay"}, trip : Trips, day : Days, link : Names \union {Unsaid}]
DeletingDay == [op : {"deleteDay"}, trip : Trips, day : Days]
Replacing == [op : {"replace"}, trip : Trips, list : MealList, seen : SUBSET Meals]
Request == Editing \union Deleting \union AddingDay \union UpdatingDay \union DeletingDay
               \union Replacing \union {Idle}

PlanTypeOK ==
    /\ trip \in [Trips -> TripRow \union {Unborn, Gone}]
    /\ day \in [Days -> DayRow \union {Unborn, Gone}]
    /\ meal \in [Meals -> MealRow \union {Gone}]
    /\ item \in [Items -> Trips \union {Gone}]
    /\ req \in [Requests -> Request]

Init ==
    /\ trip = [t \in Trips |-> Unborn]
    /\ day = [d \in Days |-> Unborn]
    /\ meal = [m \in Meals |-> Gone]
    /\ item = [i \in Items |-> Gone]
    /\ req = [r \in Requests |-> Idle]

TripExists(t) == trip[t] \notin {Unborn, Gone}
DayExists(d) == day[d] \notin {Unborn, Gone}
MealExists(m) == meal[m] # Gone
DaysOf(t) == {d \in Days : DayExists(d) /\ day[d].trip = t}
MealsOf(t) == {m \in Meals : MealExists(m) /\ meal[m].trip = t}
MealsIn(days) == {m \in Meals : MealExists(m) /\ meal[m].day \in days}

(* An UPDATE of the row holds it until its transaction ends. *)
Locked(t) == \E r \in Requests : req[r].op = "editing" /\ req[r].trip = t

Start(r, request) == req[r] = Idle /\ req' = [req EXCEPT ![r] = request]
Finish(r) == req' = [req EXCEPT ![r] = Idle]

-----------------------------------------------------------------------------
(* Trips.                                                                  *)

(* A trip comes with a meal day, linked if there is a day of that name. *)
CreateTrip(t, d, names) ==
    /\ trip[t] = Unborn
    /\ day[d] = Unborn
    /\ trip' = [trip EXCEPT ![t] = [names |-> names, fields |-> [f \in Fields |-> 1], version |-> 1]]
    /\ day' = [day EXCEPT ![d] = [trip |-> t,
                                  link |-> IF FirstName \in names THEN FirstName ELSE Unsaid]]
    /\ UNCHANGED <<meal, item, req>>

UpdateTripCheck(r, t, edit) ==
    /\ TripExists(t)
    /\ edit.base \in (1 .. trip[t].version) \union {Unsaid}
    /\ Start(r, [op |-> "edit", trip |-> t, edit |-> edit, row |-> trip[t], unlink |-> {}])
    /\ UNCHANGED <<trip, day, meal, item>>

(* AND updated_at = $10; and compared with what was loaded.                *)
LoadedVersion(r) == req[r].edit.base \in {Unsaid, req[r].row.version}
VersionHolds(r) == req[r].edit.base \in {Unsaid, trip[req[r].trip].version}

(* The days to unlink are read after the row of the trip is written.       *)
Unlinked(t, names) ==
    IF names = Unsaid THEN {}
    ELSE {d \in DaysOf(t) : day[d].link \notin names \union {Unsaid}}

UpdateTripWrite(r) ==
    LET t == req[r].trip IN
    /\ req[r].op = "edit"
    /\ TripExists(t)
    /\ ~Locked(t)
    /\ trip[t].version < MaxVersion
    /\ VersionHolds(r)
    /\ req' = [req EXCEPT ![r].op = "editing", ![r].unlink = Unlinked(t, req[r].edit.names)]
    /\ UNCHANGED <<trip, day, meal, item>>

(* All columns are written, those the request does not set as they were    *)
(* loaded.  The day names are assigned only after that, so they stay; and  *)
(* with the names assigned before.                                         *)
StoresRequestedNames(q) == IF q.edit.names = Unsaid THEN q.row.names ELSE q.edit.names
NamesWritten(q) == q.row.names

(* And without a new updated_at.                                           *)
WrittenWithVersion(q, version) ==
    [names |-> NamesWritten(q),
     fields |-> [f \in Fields |-> IF f \in q.edit.fields THEN trip[q.trip].version + 1
                                                          ELSE q.row.fields[f]],
     version |-> version]
Written(q) == WrittenWithVersion(q, trip[q.trip].version + 1)

(* A day that is gone when it is to be unlinked fails the whole update.    *)
UpdateTripCommit(r) ==
    LET q == req[r] IN
    /\ q.op = "editing"
    /\ \A d \in q.unlink : DayExists(d)
    /\ trip' = [trip EXCEPT ![q.trip] = Written(q)]
    /\ day' = [d \in Days |-> IF d \in q.unlink THEN [day[d] EXCEPT !.link = Unsaid] ELSE day[d]]
    /\ Finish(r)
    /\ UNCHANGED <<meal, item>>

(* UpdateOwner writes the owner and updated_at. *)
TransferOwnership(t) ==
    /\ TripExists(t)
    /\ ~Locked(t)
    /\ trip[t].version < MaxVersion
    /\ trip' = [trip EXCEPT ![t].version = @ + 1]
    /\ UNCHANGED <<day, meal, item, req>>

DeleteTripCheck(r, t) ==
    /\ TripExists(t)
    /\ Start(r, [op |-> "delete", trip |-> t])
    /\ UNCHANGED <<trip, day, meal, item>>

(* What goes by ON DELETE CASCADE: everything of the trip, and of a meal   *)
(* day its meals; and without the meals.                                   *)
KeepMeals(gone) == meal
MealsWithout(gone) == [m \in Meals |-> IF m \in gone THEN Gone ELSE meal[m]]

DeleteTripWrite(r) ==
    LET t == req[r].trip IN
    /\ req[r].op = "delete"
    /\ ~Locked(t)
    /\ trip' = [trip EXCEPT ![t] = Gone]
    /\ day' = [d \in Days |-> IF d \in DaysOf(t) THEN Gone ELSE day[d]]
    /\ meal' = MealsWithout(MealsOf(t) \union MealsIn(DaysOf(t)))
    /\ item' = [i \in Items |-> IF item[i] = t THEN Gone ELSE item[i]]
    /\ Finish(r)

-----------------------------------------------------------------------------
(* Meal days.                                                              *)

(* A link names a day of the trip as it is loaded.                         *)
LinkFound(t, link) == link = Unsaid \/ link \in trip[t].names

AddMealPlanDayCheck(r, t, link) ==
    /\ TripExists(t)
    /\ LinkFound(t, link)
    /\ Start(r, [op |-> "addDay", trip |-> t, link |-> link])
    /\ UNCHANGED <<trip, day, meal, item>>

(* The row refers to a trip. *)
TripReferred(t) == TripExists(t)

AddMealPlanDayWrite(r, d) ==
    /\ req[r].op = "addDay"
    /\ day[d] = Unborn
    /\ TripReferred(req[r].trip)
    /\ day' = [day EXCEPT ![d] = [trip |-> req[r].trip, link |-> req[r].link]]
    /\ Finish(r)
    /\ UNCHANGED <<trip, meal, item>>

UpdateMealPlanDayCheck(r, t, d, link) ==
    /\ TripExists(t)
    /\ d \in DaysOf(t)
    /\ LinkFound(t, link)
    /\ Start(r, [op |-> "updateDay", trip |-> t, day |-> d, link |-> link])
    /\ UNCHANGED <<trip, day, meal, item>>

UpdateMealPlanDayWrite(r) ==
    LET d == req[r].day IN
    /\ req[r].op = "updateDay"
    /\ d \in DaysOf(req[r].trip)
    /\ day' = [day EXCEPT ![d].link = req[r].link]
    /\ Finish(r)
    /\ UNCHANGED <<trip, meal, item>>

(* A linked day is deleted by taking its name off the trip. *)
DeleteMealPlanDayCheck(r, t, d) ==
    /\ TripExists(t)
    /\ d \in DaysOf(t)
    /\ day[d].link = Unsaid
    /\ Start(r, [op |-> "deleteDay", trip |-> t, day |-> d])
    /\ UNCHANGED <<trip, day, meal, item>>

DeleteMealPlanDayWrite(r) ==
    LET d == req[r].day IN
    /\ req[r].op = "deleteDay"
    /\ d \in DaysOf(req[r].trip)
    /\ day' = [day EXCEPT ![d] = Gone]
    /\ meal' = MealsWithout(MealsIn({d}))
    /\ Finish(r)
    /\ UNCHANGED <<trip, item>>

-----------------------------------------------------------------------------
(* Meals and itinerary: one statement after the access check.              *)

(* A meal refers to a trip and a meal day.  Nothing asks that the day is   *)
(* of the same trip.  Ids are given once, so not that of a meal which is   *)
(* just being replaced.                                                    *)
CreateMeal(m, t, d) ==
    /\ ~MealExists(m)
    /\ \A r \in Requests : req[r].op = "replace" => m \notin req[r].seen
    /\ TripReferred(t)
    /\ DayExists(d)
    /\ meal' = [meal EXCEPT ![m] = [trip |-> t, day |-> d]]
    /\ UNCHANGED <<trip, day, item, req>>

UpdateMeal(m, t, d) ==
    /\ m \in MealsOf(t)
    /\ DayExists(d)
    /\ meal' = [meal EXCEPT ![m].day = d]
    /\ UNCHANGED <<trip, day, item, req>>

DeleteMeal(m, t) ==
    /\ m \in MealsOf(t)
    /\ meal' = MealsWithout({m})
    /\ UNCHANGED <<trip, day, item, req>>

(* DELETE takes the rows committed when it starts, and the list is         *)
(* inserted with the ids of the client, which may be in use by another     *)
(* trip or by a list that was faster.                                      *)
ReplaceMealsDelete(r, t, list) ==
    /\ TripExists(t)
    /\ Start(r, [op |-> "replace", trip |-> t, list |-> list, seen |-> MealsOf(t)])
    /\ UNCHANGED <<trip, day, meal, item>>

ReplaceMealsInsert(r) ==
    LET q == req[r]
        new == DOMAIN q.list
    IN
    /\ q.op = "replace"
    /\ \A m \in new : ~MealExists(m) \/ m \in q.seen
    /\ \A m \in new : DayExists(q.list[m])
    /\ new # {} => TripReferred(q.trip)
    /\ meal' = [m \in Meals |-> IF m \in new THEN [trip |-> q.trip, day |-> q.list[m]]
                                ELSE IF m \in q.seen THEN Gone ELSE meal[m]]
    /\ req' = [s \in Requests |->
                  IF s = r THEN Idle
                  ELSE IF req[s].op = "replace" THEN [req[s] EXCEPT !.seen = @ \ (q.seen \union new)]
                  ELSE req[s]]
    /\ UNCHANGED <<trip, day, item>>

AddItineraryItem(i, t) ==
    /\ item[i] = Gone
    /\ TripReferred(t)
    /\ item' = [item EXCEPT ![i] = t]
    /\ UNCHANGED <<trip, day, meal, req>>

DeleteItineraryItem(i, t) ==
    /\ item[i] = t
    /\ item' = [item EXCEPT ![i] = Gone]
    /\ UNCHANGED <<trip, day, meal, req>>

(* Refused, timed out or rolled back. *)
GiveUp(r) ==
    /\ req[r] # Idle
    /\ Finish(r)
    /\ UNCHANGED <<trip, day, meal, item>>

-----------------------------------------------------------------------------
(* The requests of the API, one per handler.                               *)
PostTrip == \E t \in Trips, d \in Days, names \in SUBSET Names : CreateTrip(t, d, names)
PatchTrip(r) == \E t \in Trips, edit \in Edit : UpdateTripCheck(r, t, edit)
RemoveTrip(r) == \E t \in Trips : DeleteTripCheck(r, t)
PostTransfer == \E t \in Trips : TransferOwnership(t)

PostMealPlanDay(r) ==
    \E t \in Trips, link \in Names \union {Unsaid} : AddMealPlanDayCheck(r, t, link)
PutMealPlanDay(r) ==
    \E t \in Trips, d \in Days, link \in Names \union {Unsaid} : UpdateMealPlanDayCheck(r, t, d, link)
RemoveMealPlanDay(r) == \E t \in Trips, d \in Days : DeleteMealPlanDayCheck(r, t, d)

PostMeal == \E m \in Meals, t \in Trips, d \in Days : CreateMeal(m, t, d)
PutMeal == \E m \in Meals, t \in Trips, d \in Days : UpdateMeal(m, t, d)
RemoveMeal == \E m \in Meals, t \in Trips : DeleteMeal(m, t)
PutMeals(r) == \E t \in Trips, list \in MealList : ReplaceMealsDelete(r, t, list)

PostItineraryItem == \E i \in Items, t \in Trips : AddItineraryItem(i, t)
RemoveItineraryItem == \E i \in Items, t \in Trips : DeleteItineraryItem(i, t)

Write(r) ==
    \/ UpdateTripWrite(r)
    \/ UpdateTripCommit(r)
    \/ DeleteTripWrite(r)
    \/ \E d \in Days : AddMealPlanDayWrite(r, d)
    \/ UpdateMealPlanDayWrite(r)
    \/ DeleteMealPlanDayWrite(r)
    \/ ReplaceMealsInsert(r)
    \/ GiveUp(r)

Next ==
    \/ PostTrip \/ PostTransfer
    \/ PostMeal \/ PutMeal \/ RemoveMeal
    \/ PostItineraryItem \/ RemoveItineraryItem
    \/ \E r \in Requests :
          \/ PatchTrip(r) \/ RemoveTrip(r)
          \/ PostMealPlanDay(r) \/ PutMealPlanDay(r) \/ RemoveMealPlanDay(r)
          \/ PutMeals(r)
          \/ Write(r)

Spec == Init /\ [][Next]_vars

-----------------------------------------------------------------------------
(* A meal day is linked only to a day its trip has, however edits of the   *)
(* trip, additions and new links overlap (AddMealPlanDay,                  *)
(* UpdateMealPlanDay, UpdateTrip).                                         *)
LinksHaveNames ==
    \A d \in Days : DayExists(d) /\ day[d].link # Unsaid => day[d].link \in trip[day[d].trip].names

(* Days, meals and itinerary never outlive their trip, nor a meal its      *)
(* day, with deletions of both under running requests.                     *)
PlanBelongs ==
    /\ \A d \in Days : DayExists(d) => TripExists(day[d].trip)
    /\ \A m \in Meals : MealExists(m) => TripExists(meal[m].trip) /\ DayExists(meal[m].day)
    /\ \A i \in Items : item[i] # Gone => TripExists(item[i])

(* An edit that names the version its client has seen replaces that very   *)
(* version and leaves the fields it does not set as they are, whoever      *)
(* writes between its load and its write (UpdateTrip, repository Update).  *)
GuardedEditsRevertNothing ==
    [][\A r \in Requests :
          LET q == req[r] IN
          q.op = "editing" /\ q.edit.base # Unsaid /\ trip' # trip /\ req'[r] = Idle =>
              /\ trip[q.trip].version = q.edit.base
              /\ \A f \in Fields \ q.edit.fields : trip'[q.trip].fields[f] = trip[q.trip].fields[f]]_vars

(* What a running edit relies on: it has loaded a version the trip has     *)
(* had, of which the client's is no later one; the day names are still     *)
(* those; and once the row is written nobody else writes it.               *)
EditsLoaded ==
    \A r \in Requests :
        LET q == req[r] IN
        q.op \in {"edit", "editing"} =>
            /\ trip[q.trip] # Unborn
            /\ q.edit.base # Unsaid => q.edit.base <= q.row.version
            /\ TripExists(q.trip) =>
                  /\ q.row.names = trip[q.trip].names
                  /\ q.row.version <= trip[q.trip].version
                  /\ q.row.version = trip[q.trip].version => q.row = trip[q.trip]
            /\ q.op = "editing" => /\ TripExists(q.trip)
                                   /\ VersionHolds(r)
                                   /\ trip[q.trip].version < MaxVersion

EditsExclude ==
    \A r, s \in Requests :
        req[r].op = "editing" /\ req[s].op = "editing" /\ req[r].trip = req[s].trip => r = s

(* What a running change of a meal day relies on.                          *)
LinksLoaded ==
    \A r \in Requests :
        LET q == req[r] IN
        q.op \in {"addDay", "updateDay"} =>
            /\ trip[q.trip] # Unborn
            /\ q.link # Unsaid /\ TripExists(q.trip) => q.link \in trip[q.trip].names

(* The inductive strengthening.                                            *)
PlanInv ==
    /\ PlanTypeOK
    /\ LinksHaveNames
    /\ PlanBelongs
    /\ EditsLoaded
    /\ EditsExclude
    /\ LinksLoaded
=============================================================================
