----------------------------- MODULE GearLists -----------------------------
(***************************************************************************)
(* The lists a client may upload as a whole: the gear and the meal library *)
(* of a user (backend/internal/library) and the gear of a trip             *)
(* (backend/internal/trip, TripGear...), whose items may refer to the gear *)
(* library.                                                                *)
(*                                                                         *)
(* An upload is a DELETE of what the owner has and INSERTs with the ids of *)
(* the client in one transaction.  The DELETE takes the rows committed     *)
(* when it starts; a row another transaction deletes first is dropped from *)
(* what it takes.  An upload of a library succeeds only if it is empty:    *)
(* an INSERT there fails, and with it the whole upload.                    *)
(***************************************************************************)
CONSTANTS People,        \* users, the owners of libraries
          GearTrips,     \* trips, the owners of gear lists
          LibraryGear,   \* ids of gear_library_items
          LibraryMeals,  \* ids of meal_library_items
          TripGear,      \* ids of gear_items
          Uploads,       \* uploads the server works on at the same time
          NoEntry        \* in the place of a row that is not there, or of a reference

VARIABLES
    ownerOf,   \* of every entry: the user or the trip
    reference, \* library_item_id of the gear of trips
    upload     \* the running uploads

listVars == <<ownerOf, reference, upload>>

Entries == LibraryGear \union LibraryMeals \union TripGear
ListOwners == People \union GearTrips
References == LibraryGear \union {NoEntry}
UploadIdle == [op |-> "idle"]
Upload == [op : {"upload"}, owner : ListOwners, ids : SUBSET Entries,
           references : [TripGear -> References], seen : SUBSET Entries] \union {UploadIdle}

ASSUME NoEntryIsNoData == NoEntry \notin Entries \union ListOwners

ListsTypeOK ==
    /\ ownerOf \in [Entries -> ListOwners \union {NoEntry}]
    /\ reference \in [TripGear -> References]
    /\ upload \in [Uploads -> Upload]

ListsInit ==
    /\ ownerOf = [i \in Entries |-> NoEntry]
    /\ reference = [i \in TripGear |-> NoEntry]
    /\ upload = [r \in Uploads |-> UploadIdle]

Listed(i) == ownerOf[i] # NoEntry
OwnedBy(o, table) == {i \in table : ownerOf[i] = o}
Uploading(r) == upload[r].op = "upload"

(* Deleted by a transaction that has not ended.                            *)
Held(i) == \E r \in Uploads : Uploading(r) /\ i \in upload[r].seen
(* The server makes ids that nobody has. *)
NewEntry(i) ==
    /\ ~Listed(i)
    /\ \A r \in Uploads : Uploading(r) => i \notin upload[r].ids

(* library_item_id REFERENCES gear_library_items ... *)
MayRefer(l) == l # NoEntry => Listed(l) /\ ~Held(l)
(* ... ON DELETE SET NULL; and without.                                    *)
ReferencesKept(gone) == reference
ReferencesWithout(gone) ==
    [i \in TripGear |-> IF i \in gone \/ reference[i] \in gone THEN NoEntry ELSE reference[i]]

-----------------------------------------------------------------------------
CreateEntry(o, i) ==
    /\ NewEntry(i)
    /\ ownerOf' = [ownerOf EXCEPT ![i] = o]
    /\ UNCHANGED upload

(* DELETE ... WHERE id = and the owner =.                                  *)
DeleteEntry(o, i) ==
    /\ ownerOf[i] = o
    /\ ~Held(i)
    /\ ownerOf' = [ownerOf EXCEPT ![i] = NoEntry]
    /\ reference' = ReferencesWithout({i})
    /\ UNCHANGED upload

ReplaceDelete(r, o, table, ids, references) ==
    /\ upload[r] = UploadIdle
    /\ upload' = [upload EXCEPT ![r] =
          [op |-> "upload", owner |-> o, ids |-> ids, references |-> references,
           seen |-> OwnedBy(o, table)]]
    /\ UNCHANGED <<ownerOf, reference>>

(* The primary key: an id in use, by this owner or another, fails the      *)
(* whole upload; and were the row taken over instead.                      *)
TakesOver(r, i) == TRUE
MayInsert(r, i) == ~Listed(i) \/ i \in upload[r].seen

(* created_by is a user's id.  The service fills it in for the gear of a    *)
(* trip and leaves it empty for a library, of which no row is inserted.    *)
NameCreator(ids) == ids \subseteq TripGear

ReplaceInsert(r) ==
    LET q == upload[r] IN
    /\ Uploading(r)
    /\ NameCreator(q.ids)
    /\ \A i \in q.ids : MayInsert(r, i)
    /\ \A i \in q.ids \intersect TripGear : MayRefer(q.references[i])
    /\ ownerOf' = [i \in Entries |-> IF i \in q.ids THEN q.owner
                                    ELSE IF i \in q.seen THEN NoEntry ELSE ownerOf[i]]
    /\ reference' = [i \in TripGear |-> IF i \in q.ids THEN q.references[i]
                                       ELSE ReferencesWithout(q.seen)[i]]
    /\ upload' = [s \in Uploads |->
                     IF s = r THEN UploadIdle
                     ELSE IF Uploading(s) THEN [upload[s] EXCEPT !.seen = @ \ (q.seen \union q.ids)]
                     ELSE upload[s]]

(* Refused, timed out or rolled back. *)
UploadFails(r) ==
    /\ Uploading(r)
    /\ upload' = [upload EXCEPT ![r] = UploadIdle]
    /\ UNCHANGED <<ownerOf, reference>>
-----------------------------------------------------------------------------
(* The three tables.                                                       *)
NoReferences == [i \in TripGear |-> NoEntry]
SameReferences == UNCHANGED reference

AddLibraryGear(u, i) == CreateEntry(u, i) /\ SameReferences
ReplaceLibraryGear(r, u, ids) == ReplaceDelete(r, u, LibraryGear, ids, NoReferences)

AddLibraryMeal(u, i) == CreateEntry(u, i) /\ SameReferences
RemoveLibraryMeal(u, i) == DeleteEntry(u, i)
ReplaceLibraryMeals(r, u, ids) == ReplaceDelete(r, u, LibraryMeals, ids, NoReferences)

AddTripGear(t, i, l) ==
    /\ MayRefer(l)
    /\ CreateEntry(t, i)
    /\ reference' = [reference EXCEPT ![i] = l]

UpdateTripGear(t, i, l) ==
    /\ ownerOf[i] = t
    /\ ~Held(i)
    /\ MayRefer(l)
    /\ reference' = [reference EXCEPT ![i] = l]
    /\ UNCHANGED <<ownerOf, upload>>

RemoveTripGear(t, i) == DeleteEntry(t, i)
ReplaceTripGear(r, t, ids, references) == ReplaceDelete(r, t, TripGear, ids, references)

-----------------------------------------------------------------------------
(* The requests of the API, one per handler.                               *)
PostGearLibrary == \E u \in People, i \in LibraryGear : AddLibraryGear(u, i)
RemoveGearLibrary == \E u \in People, i \in LibraryGear : DeleteEntry(u, i)
PutGearLibrary(r) == \E u \in People, ids \in SUBSET LibraryGear : ReplaceLibraryGear(r, u, ids)

PostMealLibrary == \E u \in People, i \in LibraryMeals : AddLibraryMeal(u, i)
RemoveMealLibrary == \E u \in People, i \in LibraryMeals : RemoveLibraryMeal(u, i)
PutMealLibrary(r) == \E u \in People, ids \in SUBSET LibraryMeals : ReplaceLibraryMeals(r, u, ids)

PostTripGear == \E t \in GearTrips, i \in TripGear, l \in References : AddTripGear(t, i, l)
PutTripGearItem == \E t \in GearTrips, i \in TripGear, l \in References : UpdateTripGear(t, i, l)
RemoveTripGearItem == \E t \in GearTrips, i \in TripGear : RemoveTripGear(t, i)
PutTripGear(r) ==
    \E t \in GearTrips, ids \in SUBSET TripGear :
        \E chosen \in [ids -> References] :
            ReplaceTripGear(r, t, ids, [i \in TripGear |-> IF i \in ids THEN chosen[i] ELSE NoEntry])

ListsNext ==
    \/ PostGearLibrary \/ RemoveGearLibrary
    \/ PostMealLibrary \/ RemoveMealLibrary
    \/ PostTripGear \/ PutTripGearItem \/ RemoveTripGearItem
    \/ \E r \in Uploads :
          \/ PutGearLibrary(r) \/ PutMealLibrary(r) \/ PutTripGear(r)
          \/ ReplaceInsert(r)
          \/ UploadFails(r)

ListsSpec == ListsInit /\ [][ListsNext]_listVars

-----------------------------------------------------------------------------
(* The gear of a trip refers to library entries that are there, although   *)
(* the library may be emptied by an upload, or an entry deleted, while an  *)
(* upload or an update of the trip's gear that refers to it is under way   *)
(* (ReplaceAll of the library and of the trip).                            *)
ReferencesAreListed ==
    \A i \in TripGear : reference[i] # NoEntry => Listed(i) /\ Listed(reference[i])

(* Ids of an upload are the client's.  Whatever it sends, an entry that    *)
(* stays keeps its owner (ReplaceAll and the primary keys).                *)
EntriesKeepOwners ==
    [][\A i \in Entries : Listed(i) /\ Listed(i)' => ownerOf'[i] = ownerOf[i]]_listVars

(* What a running upload has seen and not lost is its owner's.             *)
SeenIsOwned ==
    \A r \in Uploads : Uploading(r) => \A i \in upload[r].seen : ownerOf[i] = upload[r].owner

(* The inductive strengthening.                                            *)
ListsInv == ListsTypeOK /\ ReferencesAreListed /\ SeenIsOwned
=============================================================================
