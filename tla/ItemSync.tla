------------------------------ MODULE ItemSync ------------------------------
(***************************************************************************)
(* Offline-first synchronisation of the itinerary items of a trip, on one  *)
(* device: the user writes to the local table (itinerary_repository.dart), *)
(* a cycle of the engine pushes what is not synced and then pulls and      *)
(* merges (base_sync_adapter.dart with itinerary_sync_adapter.dart, of     *)
(* which gear_sync_adapter.dart is a copy), and other devices write to the *)
(* server meanwhile.                                                       *)
(*                                                                         *)
(* Dart runs one piece of code at a time and switches at every await: the  *)
(* user's operation reads and then writes, a push sends an item and later  *)
(* marks it, a merge reads a row and later writes it.                      *)
(***************************************************************************)
EXTENDS Integers, FiniteSets

CONSTANTS TempIds,     \* ids the device gives to what it creates
          ServerIds,   \* ids the server gives
          Tolerance,   \* conflictToleranceSeconds, in ticks of the clock
          MaxClock     \* bound on the writes and waits of a behaviour

ASSUME IdsDiffer == TempIds \intersect ServerIds = {}
ASSUME IdsAreNoWords == {"none", "ok", "failed"} \intersect (TempIds \union ServerIds) = {}
ASSUME ToleranceIsTime == Tolerance \in Nat
ASSUME MaxClockIsTime == MaxClock \in Nat

VARIABLES
    local,    \* the table on the device
    remote,   \* the table on the server
    clock,    \* the time, and the content written at that time
    sync,     \* where the cycle of the engine is and what it holds
    form,     \* the user's operation between its read and its write
    used,     \* history: ids given out
    stored    \* history: contents the server has had

vars == <<local, remote, clock, sync, form, used, stored>>

Ids == TempIds \union ServerIds
Pending == {"pendingCreate", "pendingUpdate", "pendingDelete", "conflict", "error"}
Times == 0..MaxClock

Absent == [status |-> "absent", ver |-> 0, time |-> 0]
Gone == [ver |-> 0, time |-> 0]
Row == [status : Pending \union {"synced"}, ver : Times \ {0}, time : Times \ {0}]
          \union {Absent}
RemoteRow == [ver : Times \ {0}, time : Times \ {0}] \union {Gone}

Nothing == [i \in Ids |-> Absent]
Resting == [pc |-> "rest", queue |-> Nothing, id |-> "none", reply |-> "none",
            fetched |-> [s \in ServerIds |-> Gone], row |-> Absent]
NoForm == [op |-> "none", id |-> "none", seen |-> Absent]

SyncTypeOK ==
    /\ local \in [Ids -> Row]
    /\ remote \in [ServerIds -> RemoteRow]
    /\ clock \in Times
    /\ sync \in [pc : {"rest", "push", "sent", "pull", "sweep", "merge", "read"},
                 queue : [Ids -> Row], id : Ids \union {"none"},
                 reply : ServerIds \union {"none", "ok", "failed"},
                 fetched : [ServerIds -> RemoteRow], row : Row]
    /\ form \in [op : {"none", "edit", "delete"}, id : Ids \union {"none"}, seen : Row]
    /\ used \in SUBSET Ids
    /\ stored \in SUBSET Times

SyncInit ==
    /\ local = Nothing
    /\ remote = [s \in ServerIds |-> Gone]
    /\ clock = 0
    /\ sync = Resting
    /\ form = NoForm
    /\ used = {}
    /\ stored = {}

Here(i) == local[i] # Absent
There(s) == remote[s] # Gone

(* The writes of people happen at a time of their own each; the server     *)
(* stamps what a push brings with the time it is.                          *)
Now == clock + 1
Tick == clock < MaxClock /\ clock' = Now

-----------------------------------------------------------------------------
(* The user. *)

Add(i) ==
    /\ i \notin used
    /\ Tick
    /\ local' = [local EXCEPT ![i] = [status |-> "pendingCreate", ver |-> Now, time |-> Now]]
    /\ used' = used \union {i}
    /\ UNCHANGED <<remote, sync, form, stored>>

Open(op, i) ==
    /\ form = NoForm
    /\ Here(i)
    /\ form' = [op |-> op, id |-> i, seen |-> local[i]]
    /\ UNCHANGED <<local, remote, clock, sync, used, stored>>

(* UPDATE of the whole row: without a row nothing happens. *)
Replace(table, i, row) == IF table[i] = Absent THEN table ELSE [table EXCEPT ![i] = row]

(* What was never pushed stays to be created.  toggleCheckIn writes the    *)
(* same way.                                                               *)
EditWrite ==
    /\ form.op = "edit"
    /\ Tick
    /\ local' = Replace(local, form.id,
                   [status |-> IF form.seen.status = "pendingCreate"
                                 THEN "pendingCreate" ELSE "pendingUpdate",
                    ver |-> Now, time |-> Now])
    /\ form' = NoForm
    /\ UNCHANGED <<remote, sync, used, stored>>

(* What was never pushed is simply removed. *)
DeleteWrite ==
    /\ form.op = "delete"
    /\ IF form.seen.status = "pendingCreate"
         THEN local' = [local EXCEPT ![form.id] = Absent] /\ UNCHANGED clock
         ELSE /\ Tick
              /\ local' = Replace(local, form.id,
                             [form.seen EXCEPT !.status = "pendingDelete", !.time = Now])
    /\ form' = NoForm
    /\ UNCHANGED <<remote, sync, used, stored>>

-----------------------------------------------------------------------------
(* Other devices, and the passing of time. *)

RemoteWrite(s) ==
    /\ There(s) \/ s \notin used
    /\ Tick
    /\ remote' = [remote EXCEPT ![s] = [ver |-> Now, time |-> Now]]
    /\ used' = used \union {s}
    /\ stored' = stored \union {Now}
    /\ UNCHANGED <<local, sync, form>>

RemoteDelete(s) ==
    /\ There(s)
    /\ remote' = [remote EXCEPT ![s] = Gone]
    /\ UNCHANGED <<local, clock, sync, form, used, stored>>

Wait == Tick /\ UNCHANGED <<local, remote, sync, form, used, stored>>

-----------------------------------------------------------------------------
(* Push: the items that are not synced, as they are now; deletions last. *)

PushStart ==
    /\ sync.pc = "rest"
    /\ sync' = [Resting EXCEPT !.pc = "push",
                  !.queue = [i \in Ids |-> IF local[i].status \in Pending
                                             THEN local[i] ELSE Absent]]
    /\ UNCHANGED <<local, remote, clock, form, used, stored>>

Queued == {i \in Ids : sync.queue[i] # Absent}
NextInLine ==
    LET first == {i \in Queued : sync.queue[i].status # "pendingDelete"}
    IN  IF first # {} THEN first ELSE Queued

Sent(i, reply) ==
    sync' = [sync EXCEPT !.pc = "sent", !.id = i, !.row = sync.queue[i],
                         !.queue[i] = Absent, !.reply = reply]

(* The server creates a new row, whose id the answer carries. *)
SendCreate(i, s, answered) ==
    /\ sync.pc = "push" /\ i \in NextInLine
    /\ sync.queue[i].status = "pendingCreate"
    /\ s \notin used
    /\ remote' = [remote EXCEPT ![s] = [ver |-> sync.queue[i].ver, time |-> clock]]
    /\ used' = used \union {s}
    /\ stored' = stored \union {sync.queue[i].ver}
    /\ Sent(i, IF answered THEN s ELSE "failed")
    /\ UNCHANGED <<local, clock, form>>

(* The server writes the row whatever it has become, unless it is gone.    *)
SendUpdate(i, answered) ==
    /\ sync.pc = "push" /\ i \in NextInLine
    /\ sync.queue[i].status \in {"pendingUpdate", "conflict"}
    /\ i \in ServerIds /\ There(i)
    /\ remote' = [remote EXCEPT ![i] = [ver |-> sync.queue[i].ver, time |-> clock]]
    /\ stored' = stored \union {sync.queue[i].ver}
    /\ Sent(i, IF answered THEN "ok" ELSE "failed")
    /\ UNCHANGED <<local, clock, form, used>>

SendDelete(i, answered) ==
    /\ sync.pc = "push" /\ i \in NextInLine
    /\ sync.queue[i].status = "pendingDelete"
    /\ i \in ServerIds /\ There(i)
    /\ remote' = [remote EXCEPT ![i] = Gone]
    /\ Sent(i, IF answered THEN "ok" ELSE "failed")
    /\ UNCHANGED <<local, clock, form, used, stored>>

(* An item in error is no case of pushOne: nothing is sent and no error is *)
(* raised.  And with an exception for what it does not know, or with       *)
(* conflict forgotten.                                                     *)
RaisesForError(i) == FALSE
SkipsConflict(i) == sync.queue[i].status \in {"error", "conflict"}
Skips(i) == sync.queue[i].status = "error"

(* The row is gone on the server, or the request never gets there.         *)
SendFails(i) ==
    /\ sync.pc = "push" /\ i \in NextInLine
    /\ ~Skips(i)
    /\ Sent(i, "failed")
    /\ UNCHANGED <<local, remote, clock, form, used, stored>>

SendNothing(i) ==
    /\ sync.pc = "push" /\ i \in NextInLine
    /\ Skips(i)
    /\ Sent(i, "ok")
    /\ UNCHANGED <<local, remote, clock, form, used, stored>>

Mark(table, i, status) == Replace(table, i, [table[i] EXCEPT !.status = status])

(* The row takes the id of the server; when it is gone, so be it.  And with *)
(* the row under the old id left behind.                                   *)
MigrateCopy(table, i, s) ==
    IF table[i] = Absent THEN table
    ELSE [table EXCEPT ![s] = [table[i] EXCEPT !.status = "synced"]]
Migrate(table, i, s) ==
    IF table[i] = Absent THEN table
    ELSE [table EXCEPT ![s] = [table[i] EXCEPT !.status = "synced"], ![i] = Absent]

(* What is marked is the row as it is when the answer arrives. *)
Receive ==
    /\ sync.pc = "sent"
    /\ local' =
          IF sync.reply = "failed" THEN Mark(local, sync.id, "error")
          ELSE IF sync.reply \in ServerIds THEN Migrate(local, sync.id, sync.reply)
          ELSE IF sync.row.status = "pendingDelete"
                 THEN [local EXCEPT ![sync.id] = Absent]
                 ELSE Mark(local, sync.id, "synced")
    /\ sync' = [sync EXCEPT !.pc = "push", !.id = "none", !.reply = "none", !.row = Absent]
    /\ UNCHANGED <<remote, clock, form, used, stored>>

-----------------------------------------------------------------------------
(* Pull: fetch, remove what the server has no more, merge row by row. *)

Fetch ==
    /\ sync.pc = "push" /\ Queued = {}
    /\ sync' = [Resting EXCEPT !.pc = "pull", !.fetched = remote]
    /\ UNCHANGED <<local, remote, clock, form, used, stored>>

FetchFails ==
    /\ sync.pc = "push" /\ Queued = {}
    /\ sync' = Resting
    /\ UNCHANGED <<local, remote, clock, form, used, stored>>

(* Only rows with changes of the user are compared with what was fetched.  *)
Sweep ==
    /\ sync.pc = "pull"
    /\ sync' = [sync EXCEPT !.pc = "sweep",
          !.queue = [i \in Ids |->
             IF /\ local[i].status \in {"pendingUpdate", "conflict"}
                /\ i \in ServerIds => sync.fetched[i] = Gone
               THEN local[i] ELSE Absent]]
    /\ UNCHANGED <<local, remote, clock, form, used, stored>>

RemoveSwept(i) ==
    /\ sync.pc = "sweep" /\ i \in Queued
    /\ local' = [local EXCEPT ![i] = Absent]
    /\ sync' = [sync EXCEPT !.queue[i] = Absent]
    /\ UNCHANGED <<remote, clock, form, used, stored>>

EndSweep ==
    /\ sync.pc = "sweep" /\ Queued = {}
    /\ sync' = [sync EXCEPT !.pc = "merge"]
    /\ UNCHANGED <<local, remote, clock, form, used, stored>>

(* One row of the answer at a time; and with rows that it does not have.   *)
MergeReadAny(s) ==
    /\ sync.pc = "merge"
    /\ sync' = [sync EXCEPT !.pc = "read", !.id = s, !.row = local[s]]
    /\ UNCHANGED <<local, remote, clock, form, used, stored>>
MergeRead(s) ==
    /\ sync.pc = "merge" /\ sync.fetched[s] # Gone
    /\ sync' = [sync EXCEPT !.pc = "read", !.id = s, !.row = local[s]]
    /\ UNCHANGED <<local, remote, clock, form, used, stored>>

(* Newer by more than the tolerance; and only farther apart than that.     *)
FartherApart(row, other) ==
    other.time - row.time > Tolerance \/ row.time - other.time > Tolerance
RemoteIsNewer(row, other) == other.time - row.time > Tolerance

(* What the merge makes of the row it has read and the one it has fetched: *)
(* the remote row when the user changed nothing or the remote one is newer,*)
(* else the local one, to be pushed again.                                 *)
Merged(row, other) ==
    IF row.status \in {"absent", "synced"} \/ RemoteIsNewer(row, other)
      THEN [status |-> "synced", ver |-> other.ver, time |-> other.time]
      ELSE [row EXCEPT !.status = "conflict"]

(* INSERT where no row was read, else UPDATE.  An id of the server cannot  *)
(* have come to the table in between.                                      *)
MergeWrite ==
    LET s == sync.id IN
    /\ sync.pc = "read"
    /\ local' = IF sync.row = Absent
                  THEN [local EXCEPT ![s] = Merged(sync.row, sync.fetched[s])]
                  ELSE Replace(local, s, Merged(sync.row, sync.fetched[s]))
    /\ sync' = [sync EXCEPT !.pc = "merge", !.id = "none", !.row = Absent,
                            !.fetched[s] = Gone]
    /\ UNCHANGED <<remote, clock, form, used, stored>>

EndCycle ==
    /\ sync.pc = "merge" /\ \A s \in ServerIds : sync.fetched[s] = Gone
    /\ sync' = Resting
    /\ UNCHANGED <<local, remote, clock, form, used, stored>>

(* Nothing is left to do in the part of the cycle that ends it, or which   *)
(* ends it when the fetch fails.                                           *)
LastStep ==
    \/ sync.pc = "push" /\ Queued = {}
    \/ sync.pc = "merge" /\ \A s \in ServerIds : sync.fetched[s] = Gone

(* The app is killed: only the table is on disk.  In the last step of a    *)
(* cycle it might as well have ended.                                      *)
Kill ==
    /\ form # NoForm \/ (sync # Resting /\ ~LastStep)
    /\ sync' = Resting
    /\ form' = NoForm
    /\ UNCHANGED <<local, remote, clock, used, stored>>

-----------------------------------------------------------------------------
UserStep ==
    \/ \E i \in TempIds : Add(i)
    \/ \E i \in Ids : Open("edit", i) \/ Open("delete", i)
    \/ EditWrite
    \/ DeleteWrite

RemoteStep == Wait \/ \E s \in ServerIds : RemoteWrite(s) \/ RemoteDelete(s)

EngineStep ==
    \/ PushStart
    \/ \E i \in Ids, answered \in BOOLEAN :
          \/ \E s \in ServerIds : SendCreate(i, s, answered)
          \/ SendUpdate(i, answered)
          \/ SendDelete(i, answered)
    \/ \E i \in Ids : SendFails(i) \/ SendNothing(i)
    \/ Receive
    \/ Fetch \/ FetchFails
    \/ Sweep \/ (\E i \in Ids : RemoveSwept(i)) \/ EndSweep
    \/ (\E s \in ServerIds : MergeRead(s)) \/ MergeWrite
    \/ EndCycle

SyncNext == UserStep \/ RemoteStep \/ EngineStep \/ Kill

SyncSpec == SyncInit /\ [][SyncNext]_vars

(* The timer of the engine starts cycles for ever, and a cycle goes on to  *)
(* its end.                                                                *)
FairSyncSpec == SyncSpec /\ WF_vars(EngineStep)

-----------------------------------------------------------------------------
(* Restrictions of the surroundings: the user's operation never holds a    *)
(* row the cycle holds; every request is answered, and refused only when   *)
(* the row is gone.                                                        *)

Apart == form.id \notin {"none"} => form.id \notin Queued \union {sync.id}

Answered ==
    /\ sync'.reply = "failed" => sync'.id \in ServerIds /\ ~There(sync'.id)
    /\ ~Kill

CalmSpec == SyncInit /\ [][SyncNext /\ Apart' /\ Answered]_vars

(* What counts as synced is something the server has had, unless the item  *)
(* was deleted there.                                                      *)
SyncedWasStored ==
    \A i \in Ids :
        local[i].status = "synced" /\ (i \in used \intersect ServerIds => There(i))
            => local[i].ver \in stored

(* No item is there twice, on the device or on the server. *)
NoDoubles ==
    /\ \A i, j \in Ids : Here(i) /\ Here(j) /\ local[i].ver = local[j].ver => i = j
    /\ \A s, t \in ServerIds : There(s) /\ There(t) /\ remote[s].ver = remote[t].ver => s = t

(* A pull replaces an edit of the user only by a newer one, and removes it *)
(* only when the item was deleted on the server.                           *)
PullKeepsEdits ==
    [][\A i \in Ids :
          /\ sync.pc \in {"sweep", "read"}
          /\ local[i].status \in {"pendingCreate", "pendingUpdate", "conflict"}
          /\ local'[i].ver # local[i].ver
          /\ UNCHANGED <<clock, form>>
          => \/ local'[i].time > local[i].time + Tolerance
             \/ local'[i] = Absent /\ i \in ServerIds /\ ~There(i)
      ]_vars

-----------------------------------------------------------------------------
(* Why they hold.  In every behaviour: what a step of the cycle or of the  *)
(* user works on is an item, and nothing bears a version of the future.    *)
AtWork ==
    /\ sync.pc = "sent" => sync.id \in Ids
    /\ sync.pc = "read" => sync.id \in ServerIds /\ sync.fetched[sync.id] # Gone
    /\ form.op # "none" => form.id \in Ids /\ form.seen # Absent

Past ==
    /\ \A i \in Ids : local[i].ver <= clock /\ sync.queue[i].ver <= clock
    /\ \A s \in ServerIds : remote[s].ver <= clock /\ sync.fetched[s].ver <= clock
    /\ sync.row.ver <= clock /\ form.seen.ver <= clock

SyncInv == SyncTypeOK /\ AtWork /\ Past

(* In calm surroundings what cycle and user hold is the row as it is. *)
HeldIsHere ==
    /\ \A i \in Queued : sync.queue[i] = local[i]
    /\ sync.pc \in {"sent", "read"} => sync.row = local[sync.id]
    /\ sync.pc \notin {"sent", "read"} => sync.id = "none"
    /\ sync.pc = "sent" => sync.id \notin Queued
    /\ sync.pc \in {"rest", "pull", "merge", "read"} => Queued = {}
    /\ form.op # "none" => form.seen = local[form.id]
    /\ Apart

(* Ids are given once; what has one of the server is not to be created.    *)
IdsInUse ==
    /\ \A i \in Ids : Here(i) => i \in used
    /\ \A s \in ServerIds : There(s) \/ sync.fetched[s] # Gone => s \in used
    /\ \A i \in Ids : Here(i) => (i \in TempIds <=> local[i].status = "pendingCreate")

(* Only an item that is gone ends in error.                                *)
ErrorsAreGone == \A i \in Ids : local[i].status = "error" => i \in ServerIds /\ ~There(i)

(* What an answer on its way says of the row it was sent for.              *)
AnswersAreTrue ==
    sync.pc = "sent" =>
        /\ Here(sync.id)
        /\ sync.reply # "none"
        /\ sync.reply = "failed" => sync.id \in ServerIds /\ ~There(sync.id)
        /\ sync.reply \in ServerIds =>
               sync.id \in TempIds /\ ~Here(sync.reply) /\ sync.reply \in used
        /\ sync.reply = "ok" => sync.id \in ServerIds
        /\ sync.reply # "failed" /\ sync.row.status \notin {"pendingDelete", "error"}
               => sync.row.ver \in stored

(* What the server has, and what was fetched from it, it has had; an item  *)
(* that was not fetched is gone.                                           *)
FetchedIsKnown ==
    /\ \A s \in ServerIds : There(s) => remote[s].ver \in stored
    /\ \A s \in ServerIds : sync.fetched[s] # Gone => sync.fetched[s].ver \in stored
    /\ sync.pc \in {"pull", "sweep"} =>
          \A s \in ServerIds : Here(s) /\ sync.fetched[s] = Gone => ~There(s)
    /\ sync.pc = "sweep" =>
          \A i \in Queued : i \in ServerIds /\ sync.fetched[i] = Gone

(* A version is of one item, and between the server's creating it and the  *)
(* answer also of the item it is created for.                              *)
Bears(i, v) ==
    \/ local[i].ver = v
    \/ i \in ServerIds /\ (remote[i].ver = v \/ sync.fetched[i].ver = v)
OneItemEach ==
    \A i, j \in Ids, v \in Times \ {0} :
        Bears(i, v) /\ Bears(j, v) /\ i # j
            => sync.pc = "sent" /\ {i, j} = {sync.id, sync.reply}

CalmInv ==
    /\ SyncInv
    /\ HeldIsHere
    /\ IdsInUse
    /\ ErrorsAreGone
    /\ AnswersAreTrue
    /\ FetchedIsKnown
    /\ OneItemEach
    /\ SyncedWasStored

-----------------------------------------------------------------------------
(* Once people stop writing, which they do at the bound of the clock, the  *)
(* app is left running and requests are answered, everything is synced.    *)
Settled == \A i \in Ids : local[i].status \in {"synced", "absent"}
Settles == <>[][Answered]_vars => <>[]Settled
=============================================================================
