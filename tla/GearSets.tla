------------------------------ MODULE GearSets ------------------------------
(***************************************************************************)
(* Published gear sets (backend/internal/gearset): a header with totals    *)
(* over the items of the set, and the items and meals, which an update     *)
(* replaces.  The header stands for the totals by the items they were      *)
(* computed over.                                                          *)
(*                                                                         *)
(* Ids of sets and of their rows are made by the server, once each.        *)
(***************************************************************************)
CONSTANTS Owners,       \* users
          Sets,         \* ids of gear sets
          SetItems,     \* ids of items of sets
          SetMeals,     \* ids of meals of sets
          SetRequests,  \* requests the server works on at the same time
          NoSet,        \* in the place of a set that has not been inserted
          NoRow         \* in the place of a deleted set or row

VARIABLES
    set,     \* gear_sets: the owner and what total_weight and item_count are over
    rowOf,   \* gear_set_items, gear_set_meals: the set
    setReq   \* what each running request has read

setVars == <<set, rowOf, setReq>>

SetRows == SetItems \union SetMeals
SetHeader == [owner : Owners, totals : SUBSET SetItems]
SetIdle == [op |-> "idle"]
SetRequest ==
    [op : {"update", "updating"}, set : Sets, rows : SUBSET SetRows, seen : SUBSET SetRows]
        \union [op : {"delete"}, set : Sets] \union {SetIdle}

ASSUME AbsentIsNoSet ==
    /\ NoSet # NoRow
    /\ \A h \in SetHeader : h # NoSet /\ h # NoRow
    /\ \A s \in Sets : s # NoRow

GearSetTypeOK ==
    /\ set \in [Sets -> SetHeader \union {NoSet, NoRow}]
    /\ rowOf \in [SetRows -> Sets \union {NoRow}]
    /\ setReq \in [SetRequests -> SetRequest]

SetsInit ==
    /\ set = [s \in Sets |-> NoSet]
    /\ rowOf = [i \in SetRows |-> NoRow]
    /\ setReq = [r \in SetRequests |-> SetIdle]

SetExists(s) == set[s] \notin {NoSet, NoRow}
RowsOfSet(s) == {i \in SetRows : rowOf[i] = s}
UpdatingSet(r) == setReq[r].op \in {"update", "updating"}

(* Not in a table, and not given to a running request. *)
NewRows(rows) ==
    /\ \A i \in rows : rowOf[i] = NoRow
    /\ \A r \in SetRequests : UpdatingSet(r) => rows \intersect setReq[r].rows = {}

(* The UPDATE of the header waits for the transaction that has written it; *)
(* and did it not.                                                         *)
NeverHeld(s) == FALSE
HeaderHeld(s) == \E r \in SetRequests : setReq[r].op = "updating" /\ setReq[r].set = s

StartOnSet(r, request) == setReq[r] = SetIdle /\ setReq' = [setReq EXCEPT ![r] = request]
FinishOnSet(r) == setReq' = [setReq EXCEPT ![r] = SetIdle]

-----------------------------------------------------------------------------
(* Header, items and meals are one transaction. *)
CreateGearSet(u, s, rows) ==
    /\ set[s] = NoSet
    /\ NewRows(rows)
    /\ set' = [set EXCEPT ![s] = [owner |-> u, totals |-> rows \intersect SetItems]]
    /\ rowOf' = [i \in SetRows |-> IF i \in rows THEN s ELSE rowOf[i]]
    /\ UNCHANGED setReq

(* The set is loaded, the owner compared, and the totals are computed.     *)
UpdateGearSetCheck(r, u, s, rows) ==
    /\ SetExists(s)
    /\ set[s].owner = u
    /\ NewRows(rows)
    /\ StartOnSet(r, [op |-> "update", set |-> s, rows |-> rows, seen |-> {}])
    /\ UNCHANGED <<set, rowOf>>

(* The header first, then the DELETEs.  A header that is gone by now is    *)
(* not noticed.                                                            *)
UpdateGearSetHeader(r) ==
    LET s == setReq[r].set IN
    /\ setReq[r].op = "update"
    /\ ~HeaderHeld(s)
    /\ setReq' = [setReq EXCEPT ![r].op = "updating", ![r].seen = RowsOfSet(s)]
    /\ UNCHANGED <<set, rowOf>>

(* The new rows refer to the set.                                          *)
UpdateGearSetCommit(r) ==
    LET q == setReq[r] IN
    /\ q.op = "updating"
    /\ q.rows # {} => SetExists(q.set)
    /\ set' = IF SetExists(q.set)
              THEN [set EXCEPT ![q.set].totals = q.rows \intersect SetItems] ELSE set
    /\ rowOf' = [i \in SetRows |-> IF i \in q.rows THEN q.set
                                  ELSE IF i \in q.seen THEN NoRow ELSE rowOf[i]]
    /\ FinishOnSet(r)

DeleteGearSetCheck(r, u, s) ==
    /\ SetExists(s)
    /\ set[s].owner = u
    /\ StartOnSet(r, [op |-> "delete", set |-> s])
    /\ UNCHANGED <<set, rowOf>>

(* Items and meals go with the set. *)
DeleteGearSetWrite(r) ==
    LET s == setReq[r].set IN
    /\ setReq[r].op = "delete"
    /\ SetExists(s)
    /\ ~HeaderHeld(s)
    /\ set' = [set EXCEPT ![s] = NoRow]
    /\ rowOf' = [i \in SetRows |-> IF rowOf[i] = s THEN NoRow ELSE rowOf[i]]
    /\ FinishOnSet(r)

(* Refused, timed out or rolled back. *)
GiveUpOnSet(r) ==
    /\ setReq[r] # SetIdle
    /\ FinishOnSet(r)
    /\ UNCHANGED <<set, rowOf>>

-----------------------------------------------------------------------------
(* The requests of the API, one per handler.                               *)
PostGearSet == \E u \in Owners, s \in Sets, rows \in SUBSET SetRows : CreateGearSet(u, s, rows)
PutGearSet(r) ==
    \E u \in Owners, s \in Sets, rows \in SUBSET SetRows : UpdateGearSetCheck(r, u, s, rows)
RemoveGearSet(r) == \E u \in Owners, s \in Sets : DeleteGearSetCheck(r, u, s)

SetsNext ==
    \/ PostGearSet
    \/ \E r \in SetRequests :
          \/ PutGearSet(r) \/ RemoveGearSet(r)
          \/ UpdateGearSetHeader(r) \/ UpdateGearSetCommit(r)
          \/ DeleteGearSetWrite(r)
          \/ GiveUpOnSet(r)

SetsSpec == SetsInit /\ [][SetsNext]_setVars

-----------------------------------------------------------------------------
(* The totals in the header of a set are over the items it has, and every  *)
(* item and meal has its set, whatever updates and deletions of the set    *)
(* overlap (gearset repository Create, Update, Delete).                    *)
SetsAreWhole ==
    /\ \A s \in Sets : SetExists(s) => RowsOfSet(s) \intersect SetItems = set[s].totals
    /\ \A i \in SetRows : rowOf[i] # NoRow => SetExists(rowOf[i])

(* What a running update relies on: its set has been there, its rows are   *)
(* its own, and what it has seen under the header it holds is all there is.*)
UpdatesPrepared ==
    \A r \in SetRequests :
        UpdatingSet(r) =>
            /\ set[setReq[r].set] # NoSet
            /\ \A i \in setReq[r].rows : rowOf[i] = NoRow
            /\ \A s \in SetRequests \ {r} :
                  UpdatingSet(s) => setReq[r].rows \intersect setReq[s].rows = {}
            /\ setReq[r].op = "updating" => setReq[r].seen = RowsOfSet(setReq[r].set)

HeadersExclude ==
    \A r, s \in SetRequests :
        setReq[r].op = "updating" /\ setReq[s].op = "updating" /\ setReq[r].set = setReq[s].set => r = s

(* The inductive strengthening.                                            *)
SetsInv == GearSetTypeOK /\ SetsAreWhole /\ UpdatesPrepared /\ HeadersExclude
=============================================================================
