--------------------------- MODULE ItemSyncProofs ---------------------------
(***************************************************************************)
(* What ItemSync promises of the synchronisation of items, for any number  *)
(* of them.  SyncInv holds in every behaviour; CalmInv holds in calm       *)
(* surroundings (CalmSpec), where it carries the properties of the items.  *)
(***************************************************************************)
EXTENDS ItemSync, TLAPS

-----------------------------------------------------------------------------
(* Rows and records. *)

(* No word of the records is an id. *)
LEMMA NoWordIsAnId == "none" \notin Ids /\ "ok" \notin Ids /\ "failed" \notin Ids
BY IdsAreNoWords DEF Ids

(* What a row is: the absent one, or one with a status and past times. *)
LEMMA RowFields ==
    ASSUME NEW row \in Row
    PROVE  /\ row.status \in Pending \union {"synced", "absent"}
           /\ row.ver \in Times /\ row.time \in Times
           /\ row # Absent <=> row.status # "absent"
           /\ row = Absent <=> row.ver = 0
BY MaxClockIsTime DEF Row, Absent, Pending, Times

LEMMA RemoteRowFields ==
    ASSUME NEW row \in RemoteRow
    PROVE  /\ row.ver \in Times /\ row.time \in Times
           /\ row = Gone <=> row.ver = 0
BY MaxClockIsTime DEF RemoteRow, Gone, Times

LEMMA RowMade ==
    ASSUME NEW st \in Pending \union {"synced"}, NEW v \in Times \ {0}, NEW t \in Times \ {0}
    PROVE  [status |-> st, ver |-> v, time |-> t] \in Row
BY DEF Row

(* A row that is there stays one when its status is set. *)
LEMMA RowMarked ==
    ASSUME NEW row \in Row, row # Absent, NEW st \in Pending \union {"synced"}
    PROVE  /\ [row EXCEPT !.status = st] \in Row
           /\ [row EXCEPT !.status = st] # Absent
           /\ [row EXCEPT !.status = st].status = st
           /\ [row EXCEPT !.status = st].ver = row.ver
           /\ [row EXCEPT !.status = st].time = row.time
BY DEF Row, Absent, Pending

LEMMA AbsentIsARow == Absent \in Row /\ Absent.ver = 0 /\ Absent.status = "absent"
BY DEF Row, Absent

LEMMA GoneIsARow == Gone \in RemoteRow /\ Gone.ver = 0
BY DEF RemoteRow, Gone

LEMMA NothingIsQueued == Nothing \in [Ids -> Row] /\ \A i \in Ids : Nothing[i] = Absent
BY AbsentIsARow DEF Nothing

(* The records of the cycle, of the user's operation. *)
SyncRecord ==
    [pc : {"rest", "push", "sent", "pull", "sweep", "merge", "read"},
     queue : [Ids -> Row], id : Ids \union {"none"},
     reply : ServerIds \union {"none", "ok", "failed"},
     fetched : [ServerIds -> RemoteRow], row : Row]
FormRecord == [op : {"none", "edit", "delete"}, id : Ids \union {"none"}, seen : Row]

LEMMA SyncFields ==
    ASSUME SyncTypeOK
    PROVE  /\ sync.pc \in {"rest", "push", "sent", "pull", "sweep", "merge", "read"}
           /\ sync.queue \in [Ids -> Row]
           /\ sync.id \in Ids \union {"none"}
           /\ sync.reply \in ServerIds \union {"none", "ok", "failed"}
           /\ sync.fetched \in [ServerIds -> RemoteRow]
           /\ sync.row \in Row
           /\ form.op \in {"none", "edit", "delete"}
           /\ form.id \in Ids \union {"none"}
           /\ form.seen \in Row
           /\ clock \in Nat
           /\ \A i \in Ids : local[i] \in Row /\ sync.queue[i] \in Row
           /\ \A s \in ServerIds : remote[s] \in RemoteRow /\ sync.fetched[s] \in RemoteRow
BY MaxClockIsTime DEF SyncTypeOK, Times

LEMMA RestingFields ==
    /\ Resting \in SyncRecord
    /\ Resting.pc = "rest" /\ Resting.queue = Nothing /\ Resting.id = "none"
    /\ Resting.reply = "none" /\ Resting.row = Absent
    /\ \A s \in ServerIds : Resting.fetched[s] = Gone
    /\ NoForm \in FormRecord
    /\ NoForm.op = "none" /\ NoForm.id = "none" /\ NoForm.seen = Absent
BY NothingIsQueued, AbsentIsARow, GoneIsARow
   DEF Resting, NoForm, SyncRecord, FormRecord

(* Replacing a row keeps the table a table. *)
LEMMA ReplacedTable ==
    ASSUME NEW table \in [Ids -> Row], NEW i \in Ids, NEW row \in Row
    PROVE  /\ Replace(table, i, row) \in [Ids -> Row]
           /\ Replace(table, i, row)[i] = IF table[i] = Absent THEN Absent ELSE row
           /\ \A j \in Ids : j # i => Replace(table, i, row)[j] = table[j]
BY DEF Replace

LEMMA MarkedTable ==
    ASSUME NEW table \in [Ids -> Row], NEW i \in Ids, NEW st \in Pending \union {"synced"}
    PROVE  /\ Mark(table, i, st) \in [Ids -> Row]
           /\ table[i] = Absent => Mark(table, i, st) = table
           /\ table[i] # Absent =>
                 /\ Mark(table, i, st)[i].status = st
                 /\ Mark(table, i, st)[i].ver = table[i].ver
                 /\ Mark(table, i, st)[i] # Absent
           /\ \A j \in Ids : Mark(table, i, st)[j].ver = table[j].ver
           /\ \A j \in Ids : j # i => Mark(table, i, st)[j] = table[j]
<1>1. CASE table[i] = Absent
  BY <1>1 DEF Mark, Replace
<1>2. CASE table[i] # Absent
  <2> DEFINE new == [table[i] EXCEPT !.status = st]
  <2>1. /\ new \in Row /\ new # Absent /\ new.status = st /\ new.ver = table[i].ver
    BY <1>2, RowMarked
  <2>2. Mark(table, i, st) = [table EXCEPT ![i] = new]
    BY <1>2 DEF Mark, Replace
  <2> HIDE DEF new
  <2> QED BY <1>2, <2>1, <2>2
<1> QED BY <1>1, <1>2

LEMMA MigratedTable ==
    ASSUME NEW table \in [Ids -> Row], NEW i \in Ids, NEW s \in Ids
    PROVE  /\ Migrate(table, i, s) \in [Ids -> Row]
           /\ table[i] = Absent => Migrate(table, i, s) = table
           /\ table[i] # Absent =>
                 /\ Migrate(table, i, s)[i] = Absent
                 /\ i # s => /\ Migrate(table, i, s)[s].status = "synced"
                             /\ Migrate(table, i, s)[s].ver = table[i].ver
                             /\ Migrate(table, i, s)[s] # Absent
           /\ \A j \in Ids \ {i, s} : Migrate(table, i, s)[j] = table[j]
           /\ \A j \in Ids :
                 Migrate(table, i, s)[j].ver \in {table[j].ver, table[i].ver, 0}
<1>1. CASE table[i] = Absent
  BY <1>1 DEF Migrate
<1>2. CASE table[i] # Absent
  <2> DEFINE new == [table[i] EXCEPT !.status = "synced"]
  <2>1. /\ new \in Row /\ new # Absent /\ new.status = "synced" /\ new.ver = table[i].ver
    BY <1>2, RowMarked
  <2>2. Migrate(table, i, s) = [table EXCEPT ![s] = new, ![i] = Absent]
    BY <1>2 DEF Migrate
  <2> HIDE DEF new
  <2> QED BY <1>2, <2>1, <2>2, AbsentIsARow
<1> QED BY <1>1, <1>2

(* What a merge makes of a row it read and one it fetched. *)
LEMMA MergedRow ==
    ASSUME NEW row \in Row, NEW other \in RemoteRow, other # Gone
    PROVE  /\ Merged(row, other) \in Row
           /\ Merged(row, other) # Absent
           /\ \/ /\ Merged(row, other).status = "synced"
                 /\ Merged(row, other).ver = other.ver
                 /\ Merged(row, other).time = other.time
                 /\ row.status \in {"absent", "synced"} \/ other.time > row.time + Tolerance
              \/ /\ Merged(row, other).status = "conflict"
                 /\ Merged(row, other).ver = row.ver
                 /\ row # Absent
                 /\ row.status # "synced"
<1>1. CASE row.status \in {"absent", "synced"} \/ RemoteIsNewer(row, other)
  <2>1. Merged(row, other) = [status |-> "synced", ver |-> other.ver, time |-> other.time]
    BY <1>1 DEF Merged
  <2>2. other.ver \in Times \ {0} /\ other.time \in Times \ {0}
    BY DEF RemoteRow
  <2>3. Merged(row, other) \in Row
    BY <2>1, <2>2, RowMade
  <2>4. row.status \in {"absent", "synced"} \/ other.time > row.time + Tolerance
    BY <1>1, RowFields, RemoteRowFields, ToleranceIsTime, MaxClockIsTime
       DEF RemoteIsNewer, Times
  <2> QED BY <2>1, <2>2, <2>3, <2>4 DEF Absent
<1>2. CASE ~(row.status \in {"absent", "synced"} \/ RemoteIsNewer(row, other))
  <2>1. row # Absent
    BY <1>2, RowFields
  <2> DEFINE new == [row EXCEPT !.status = "conflict"]
  <2>2. Merged(row, other) = new
    BY <1>2 DEF Merged
  <2>3. row.status # "synced"
    BY <1>2
  <2>4. new \in Row /\ new # Absent /\ new.status = "conflict" /\ new.ver = row.ver
    BY <2>1, RowMarked DEF Pending
  <2> HIDE DEF new
  <2> QED BY <2>1, <2>2, <2>3, <2>4
<1> QED BY <1>1, <1>2

-----------------------------------------------------------------------------
(* What each step of the cycle does to the record of the cycle. *)

LEMMA SentDoes ==
    ASSUME SyncTypeOK, NEW i \in Ids, NEW reply \in ServerIds \union {"ok", "failed"},
           Sent(i, reply)
    PROVE  /\ sync' \in SyncRecord
           /\ sync'.pc = "sent" /\ sync'.id = i /\ sync'.reply = reply
           /\ sync'.row = sync.queue[i]
           /\ sync'.queue[i] = Absent
           /\ \A j \in Ids : j # i => sync'.queue[j] = sync.queue[j]
           /\ sync'.fetched = sync.fetched
BY AbsentIsARow DEF SyncTypeOK, Sent, SyncRecord

LEMMA ReceiveDoes ==
    ASSUME SyncTypeOK, Receive
    PROVE  /\ sync' \in SyncRecord
           /\ sync'.pc = "push" /\ sync'.id = "none" /\ sync'.reply = "none"
           /\ sync'.row = Absent
           /\ sync'.queue = sync.queue /\ sync'.fetched = sync.fetched
BY AbsentIsARow DEF SyncTypeOK, Receive, SyncRecord

LEMMA PushStartDoes ==
    ASSUME SyncTypeOK, PushStart
    PROVE  /\ sync' \in SyncRecord
           /\ sync'.pc = "push" /\ sync'.id = "none" /\ sync'.reply = "none"
           /\ sync'.row = Absent
           /\ \A i \in Ids : sync'.queue[i] = Absent \/ sync'.queue[i] = local[i]
           /\ \A s \in ServerIds : sync'.fetched[s] = Gone
<1> DEFINE q == [i \in Ids |-> IF local[i].status \in Pending THEN local[i] ELSE Absent]
<1>1. q \in [Ids -> Row] /\ \A i \in Ids : q[i] = Absent \/ q[i] = local[i]
  BY AbsentIsARow DEF SyncTypeOK
<1>2. sync' = [Resting EXCEPT !.pc = "push", !.queue = q]
  BY DEF PushStart
<1> HIDE DEF q
<1> QED BY <1>1, <1>2, RestingFields DEF SyncRecord

LEMMA FetchDoes ==
    ASSUME SyncTypeOK, Fetch
    PROVE  /\ sync' \in SyncRecord
           /\ sync'.pc = "pull" /\ sync'.id = "none" /\ sync'.reply = "none"
           /\ sync'.row = Absent
           /\ \A i \in Ids : sync'.queue[i] = Absent
           /\ sync'.fetched = remote
<1>1. sync' = [Resting EXCEPT !.pc = "pull", !.fetched = remote]
  BY DEF Fetch
<1> QED BY <1>1, RestingFields, NothingIsQueued DEF SyncTypeOK, SyncRecord

LEMMA SweepDoes ==
    ASSUME SyncTypeOK, Sweep
    PROVE  /\ sync' \in SyncRecord
           /\ sync'.pc = "sweep" /\ sync'.id = sync.id /\ sync'.reply = sync.reply
           /\ sync'.row = sync.row
           /\ \A i \in Ids :
                 \/ sync'.queue[i] = Absent
                 \/ /\ sync'.queue[i] = local[i]
                    /\ local[i].status \in {"pendingUpdate", "conflict"}
                    /\ i \in ServerIds => sync.fetched[i] = Gone
           /\ sync'.fetched = sync.fetched
<1> DEFINE q == [i \in Ids |->
                   IF /\ local[i].status \in {"pendingUpdate", "conflict"}
                      /\ i \in ServerIds => sync.fetched[i] = Gone
                     THEN local[i] ELSE Absent]
<1>1. /\ q \in [Ids -> Row]
      /\ \A i \in Ids : \/ q[i] = Absent
                        \/ /\ q[i] = local[i]
                           /\ local[i].status \in {"pendingUpdate", "conflict"}
                           /\ i \in ServerIds => sync.fetched[i] = Gone
  BY AbsentIsARow DEF SyncTypeOK
<1>2. sync' = [sync EXCEPT !.pc = "sweep", !.queue = q]
  BY DEF Sweep
<1> HIDE DEF q
<1> QED BY <1>1, <1>2 DEF SyncTypeOK, SyncRecord

LEMMA RemoveSweptDoes ==
    ASSUME SyncTypeOK, NEW i \in Ids, RemoveSwept(i)
    PROVE  /\ sync' \in SyncRecord
           /\ sync'.pc = "sweep" /\ sync'.id = sync.id /\ sync'.reply = sync.reply
           /\ sync'.row = sync.row
           /\ sync'.queue[i] = Absent
           /\ \A j \in Ids : j # i => sync'.queue[j] = sync.queue[j]
           /\ sync'.fetched = sync.fetched
BY AbsentIsARow DEF SyncTypeOK, RemoveSwept, SyncRecord

LEMMA EndSweepDoes ==
    ASSUME SyncTypeOK, EndSweep
    PROVE  /\ sync' \in SyncRecord
           /\ sync'.pc = "merge" /\ sync'.id = sync.id /\ sync'.reply = sync.reply
           /\ sync'.row = sync.row
           /\ sync'.queue = sync.queue /\ sync'.fetched = sync.fetched
BY DEF SyncTypeOK, EndSweep, SyncRecord

LEMMA MergeReadDoes ==
    ASSUME SyncTypeOK, NEW s \in ServerIds, MergeRead(s)
    PROVE  /\ sync' \in SyncRecord
           /\ sync'.pc = "read" /\ sync'.id = s /\ sync'.reply = sync.reply
           /\ sync'.row = local[s]
           /\ sync'.queue = sync.queue /\ sync'.fetched = sync.fetched
BY DEF SyncTypeOK, MergeRead, SyncRecord, Ids

LEMMA MergeWriteDoes ==
    ASSUME SyncTypeOK, sync.id \in ServerIds, MergeWrite
    PROVE  /\ sync' \in SyncRecord
           /\ sync'.pc = "merge" /\ sync'.id = "none" /\ sync'.reply = sync.reply
           /\ sync'.row = Absent
           /\ sync'.queue = sync.queue
           /\ sync'.fetched[sync.id] = Gone
           /\ \A s \in ServerIds : s # sync.id => sync'.fetched[s] = sync.fetched[s]
BY AbsentIsARow, GoneIsARow DEF SyncTypeOK, MergeWrite, SyncRecord

(* The cycle ends, or is killed. *)
LEMMA RestDoes ==
    ASSUME sync' = Resting
    PROVE  /\ sync' \in SyncRecord
           /\ sync'.pc = "rest" /\ sync'.id = "none" /\ sync'.reply = "none"
           /\ sync'.row = Absent
           /\ \A i \in Ids : sync'.queue[i] = Absent
           /\ \A s \in ServerIds : sync'.fetched[s] = Gone
BY RestingFields, NothingIsQueued

-----------------------------------------------------------------------------
(* Every behaviour: the types, what is at work, no version of the future.  *)

LEMMA SyncInvInit == SyncInit => SyncInv
<1> SUFFICES ASSUME SyncInit PROVE SyncInv
  OBVIOUS
<1> USE DEF SyncInit
<1>1. local \in [Ids -> Row] /\ \A i \in Ids : local[i] = Absent
  BY NothingIsQueued
<1>2. remote \in [ServerIds -> RemoteRow] /\ \A s \in ServerIds : remote[s] = Gone
  BY GoneIsARow
<1>3. SyncTypeOK
  BY <1>1, <1>2, RestingFields, MaxClockIsTime
     DEF SyncTypeOK, SyncRecord, FormRecord, Times
<1>4. AtWork
  BY RestingFields DEF AtWork
<1>5. Past
  BY <1>1, <1>2, RestingFields, NothingIsQueued, AbsentIsARow, GoneIsARow DEF Past
<1> QED BY <1>3, <1>4, <1>5 DEF SyncInv

(* The present is a time that no row there is can be without. *)
LEMMA NowIsATime ==
    ASSUME SyncTypeOK, Tick
    PROVE  /\ Now \in Times \ {0} /\ clock' = Now /\ clock' \in Times
           /\ clock < Now
           /\ \A n \in Int : n <= clock => n <= Now
BY MaxClockIsTime DEF SyncTypeOK, Tick, Now, Times

(* The user's steps. *)
LEMMA AddDoes ==
    ASSUME SyncTypeOK, NEW i \in TempIds, Add(i)
    PROVE  /\ local' \in [Ids -> Row]
           /\ local'[i] # Absent /\ local'[i].ver = Now
           /\ local'[i].status = "pendingCreate"
           /\ \A j \in Ids : j # i => local'[j] = local[j]
           /\ used' = used \union {i} /\ i \notin used
           /\ UNCHANGED <<remote, sync, form, stored>>
<1> DEFINE new == [status |-> "pendingCreate", ver |-> Now, time |-> Now]
<1>1. new \in Row /\ new.status = "pendingCreate" /\ new.ver = Now /\ new # Absent
  BY NowIsATime, RowMade DEF Add, Pending, Absent
<1>2. local' = [local EXCEPT ![i] = new]
  BY DEF Add
<1> HIDE DEF new
<1> QED BY <1>1, <1>2 DEF Add, SyncTypeOK, Ids

LEMMA OpenDoes ==
    ASSUME SyncTypeOK, NEW op \in {"edit", "delete"}, NEW i \in Ids, Open(op, i)
    PROVE  /\ form' \in FormRecord /\ form'.op = op /\ form'.id = i
           /\ form'.seen = local[i] /\ local[i] # Absent
           /\ UNCHANGED <<local, remote, clock, sync, used, stored>>
BY DEF SyncTypeOK, Open, Here, FormRecord

LEMMA EditWriteDoes ==
    ASSUME SyncTypeOK, AtWork, EditWrite
    PROVE  /\ form.op = "edit" /\ form.id \in Ids
           /\ local' \in [Ids -> Row]
           /\ local[form.id] = Absent => local'[form.id] = Absent
           /\ local[form.id] # Absent =>
                 /\ local'[form.id] # Absent
                 /\ local'[form.id].ver = Now
                 /\ local'[form.id].status =
                       IF form.seen.status = "pendingCreate"
                         THEN "pendingCreate" ELSE "pendingUpdate"
           /\ \A j \in Ids : j # form.id => local'[j] = local[j]
           /\ form' = NoForm /\ Tick
           /\ UNCHANGED <<remote, sync, used, stored>>
<1> DEFINE st == IF form.seen.status = "pendingCreate" THEN "pendingCreate" ELSE "pendingUpdate"
           new == [status |-> st, ver |-> Now, time |-> Now]
<1>1. st \in Pending \union {"synced"}
  BY DEF Pending
<1>2. form.op = "edit" /\ form.id \in Ids
  BY DEF EditWrite, AtWork
<1>3. local' = Replace(local, form.id, new)
  BY DEF EditWrite
<1>4. new.status = st /\ new.ver = Now
  OBVIOUS
<1>5. new \in Row /\ new # Absent
  <2> HIDE DEF st
  <2> QED BY <1>1, NowIsATime, RowMade DEF EditWrite, Absent, Pending
<1>6. Tick /\ form' = NoForm /\ UNCHANGED <<remote, sync, used, stored>>
  BY DEF EditWrite
<1> HIDE DEF new
<1>7. /\ local' \in [Ids -> Row]
      /\ local'[form.id] = IF local[form.id] = Absent THEN Absent ELSE new
      /\ \A j \in Ids : j # form.id => local'[j] = local[j]
  <2>1. local \in [Ids -> Row]
    BY DEF SyncTypeOK
  <2> QED BY <2>1, <1>2, <1>3, <1>5, ReplacedTable
<1> HIDE DEF st
<1> QED BY <1>2, <1>4, <1>5, <1>6, <1>7 DEF EditWrite, st

LEMMA DeleteWriteDoes ==
    ASSUME SyncTypeOK, AtWork, DeleteWrite
    PROVE  /\ form.op = "delete" /\ form.id \in Ids
           /\ local' \in [Ids -> Row]
           /\ \/ local'[form.id] = Absent
              \/ /\ form.seen.status # "pendingCreate"
                 /\ local[form.id] # Absent
                 /\ local'[form.id] # Absent
                 /\ local'[form.id].ver = form.seen.ver
                 /\ local'[form.id].status = "pendingDelete"
           /\ \A j \in Ids : j # form.id => local'[j] = local[j]
           /\ form' = NoForm /\ (Tick \/ UNCHANGED clock)
           /\ UNCHANGED <<remote, sync, used, stored>>
<1>1. form.op = "delete" /\ form.id \in Ids /\ form.seen # Absent /\ form.seen \in Row
  BY SyncFields DEF DeleteWrite, AtWork
<1>2. form' = NoForm /\ UNCHANGED <<remote, sync, used, stored>>
  BY DEF DeleteWrite
<1>3. CASE form.seen.status = "pendingCreate"
  <2>1. local' = [local EXCEPT ![form.id] = Absent] /\ UNCHANGED clock
    BY <1>3 DEF DeleteWrite
  <2> QED BY <1>1, <1>2, <2>1, AbsentIsARow DEF SyncTypeOK
<1>4. CASE form.seen.status # "pendingCreate"
  <2> DEFINE new == [form.seen EXCEPT !.status = "pendingDelete", !.time = Now]
  <2>1. Tick /\ local' = Replace(local, form.id, new)
    BY <1>4 DEF DeleteWrite
  <2>2. /\ new \in Row /\ new # Absent
        /\ new.status = "pendingDelete" /\ new.ver = form.seen.ver
    BY <1>1, <2>1, NowIsATime DEF Row, Absent, Pending
  <2> HIDE DEF new
  <2>3. /\ local' \in [Ids -> Row]
        /\ local'[form.id] = IF local[form.id] = Absent THEN Absent ELSE new
        /\ \A j \in Ids : j # form.id => local'[j] = local[j]
    <3>1. local \in [Ids -> Row]
      BY DEF SyncTypeOK
    <3> QED BY <3>1, <1>1, <2>1, <2>2, ReplacedTable
  <2> QED BY <1>1, <1>2, <1>4, <2>1, <2>2, <2>3
<1> QED BY <1>3, <1>4

(* The steps of the server: what other devices do, and what a push does.   *)
LEMMA RemoteWriteDoes ==
    ASSUME SyncTypeOK, NEW s \in ServerIds, RemoteWrite(s)
    PROVE  /\ remote' \in [ServerIds -> RemoteRow]
           /\ remote'[s].ver = Now /\ remote'[s] # Gone
           /\ \A t \in ServerIds : t # s => remote'[t] = remote[t]
           /\ There(s) \/ s \notin used
           /\ used' = used \union {s} /\ stored' = stored \union {Now}
           /\ UNCHANGED <<local, sync, form>>
<1>1. Now \in Times \ {0}
  BY NowIsATime DEF RemoteWrite
<1>2. [ver |-> Now, time |-> Now] \in RemoteRow /\ [ver |-> Now, time |-> Now] # Gone
  BY <1>1 DEF RemoteRow, Gone
<1> QED BY <1>2 DEF RemoteWrite, SyncTypeOK

LEMMA RemoteDeleteDoes ==
    ASSUME SyncTypeOK, NEW s \in ServerIds, RemoteDelete(s)
    PROVE  /\ remote' \in [ServerIds -> RemoteRow]
           /\ remote'[s] = Gone
           /\ \A t \in ServerIds : t # s => remote'[t] = remote[t]
           /\ UNCHANGED <<local, clock, sync, form, used, stored>>
BY GoneIsARow DEF RemoteDelete, SyncTypeOK

LEMMA StampedRow ==
    ASSUME SyncTypeOK, Past, NEW i \in Ids, sync.queue[i] # Absent
    PROVE  /\ [ver |-> sync.queue[i].ver, time |-> clock] \in RemoteRow \ {Gone}
           /\ sync.queue[i].ver \in Times \ {0}
<1>1. sync.queue[i].ver \in Times \ {0}
  BY SyncFields, RowFields
<1>2. clock \in Times \ {0}
  BY <1>1, MaxClockIsTime DEF Past, SyncTypeOK, Times
<1> QED BY <1>1, <1>2 DEF RemoteRow, Gone

LEMMA SendCreateDoes ==
    ASSUME SyncTypeOK, Past, NEW i \in Ids, NEW s \in ServerIds, NEW answered \in BOOLEAN,
           SendCreate(i, s, answered)
    PROVE  /\ sync.pc = "push" /\ sync.queue[i].status = "pendingCreate" /\ s \notin used
           /\ sync.queue[i] # Absent
           /\ remote' \in [ServerIds -> RemoteRow]
           /\ remote'[s] # Gone /\ remote'[s].ver = sync.queue[i].ver
           /\ \A t \in ServerIds : t # s => remote'[t] = remote[t]
           /\ used' = used \union {s} /\ stored' = stored \union {sync.queue[i].ver}
           /\ Sent(i, IF answered THEN s ELSE "failed")
           /\ UNCHANGED <<local, clock, form>>
<1>1. sync.queue[i].status = "pendingCreate" /\ sync.queue[i] # Absent
  BY DEF SendCreate, Absent
<1>2. [ver |-> sync.queue[i].ver, time |-> clock] \in RemoteRow \ {Gone}
  BY <1>1, StampedRow
<1> QED BY <1>1, <1>2 DEF SendCreate, SyncTypeOK

LEMMA SendUpdateDoes ==
    ASSUME SyncTypeOK, Past, NEW i \in Ids, NEW answered \in BOOLEAN,
           SendUpdate(i, answered)
    PROVE  /\ sync.pc = "push" /\ sync.queue[i].status \in {"pendingUpdate", "conflict"}
           /\ i \in ServerIds /\ There(i) /\ sync.queue[i] # Absent
           /\ remote' \in [ServerIds -> RemoteRow]
           /\ remote'[i] # Gone /\ remote'[i].ver = sync.queue[i].ver
           /\ \A t \in ServerIds : t # i => remote'[t] = remote[t]
           /\ stored' = stored \union {sync.queue[i].ver}
           /\ Sent(i, IF answered THEN "ok" ELSE "failed")
           /\ UNCHANGED <<local, clock, form, used>>
<1>1. sync.queue[i].status \in {"pendingUpdate", "conflict"} /\ sync.queue[i] # Absent
  BY DEF SendUpdate, Absent
<1>2. [ver |-> sync.queue[i].ver, time |-> clock] \in RemoteRow \ {Gone}
  BY <1>1, StampedRow
<1> QED BY <1>1, <1>2 DEF SendUpdate, SyncTypeOK

LEMMA SendDeleteDoes ==
    ASSUME SyncTypeOK, NEW i \in Ids, NEW answered \in BOOLEAN, SendDelete(i, answered)
    PROVE  /\ sync.pc = "push" /\ sync.queue[i].status = "pendingDelete"
           /\ i \in ServerIds /\ There(i) /\ sync.queue[i] # Absent
           /\ remote' \in [ServerIds -> RemoteRow]
           /\ remote'[i] = Gone
           /\ \A t \in ServerIds : t # i => remote'[t] = remote[t]
           /\ Sent(i, IF answered THEN "ok" ELSE "failed")
           /\ UNCHANGED <<local, clock, form, used, stored>>
BY GoneIsARow DEF SendDelete, SyncTypeOK, Absent

(* The steps of the cycle that write to the table of the device. *)
LEMMA ReceiveWrites ==
    ASSUME SyncTypeOK, AtWork, Receive
    PROVE  /\ sync.pc = "sent" /\ sync.id \in Ids
           /\ local' \in [Ids -> Row]
           /\ sync.reply = "failed" => local' = Mark(local, sync.id, "error")
           /\ sync.reply \in ServerIds => local' = Migrate(local, sync.id, sync.reply)
           /\ sync.reply \notin ServerIds \union {"failed"} =>
                 \/ /\ sync.row.status = "pendingDelete"
                    /\ local' = [local EXCEPT ![sync.id] = Absent]
                 \/ /\ sync.row.status # "pendingDelete"
                    /\ local' = Mark(local, sync.id, "synced")
           /\ UNCHANGED <<remote, clock, form, used, stored>>
<1>1. sync.pc = "sent" /\ sync.id \in Ids /\ UNCHANGED <<remote, clock, form, used, stored>>
  BY DEF Receive, AtWork
<1>2. local \in [Ids -> Row]
  BY DEF SyncTypeOK
<1>3. CASE sync.reply = "failed"
  <2>1. local' = Mark(local, sync.id, "error") /\ sync.reply \notin ServerIds
    BY <1>3, NoWordIsAnId DEF Receive, Ids
  <2>2. local' \in [Ids -> Row]
    BY <1>1, <1>2, <2>1, MarkedTable DEF Pending
  <2> QED BY <1>1, <1>3, <2>1, <2>2
<1>4. CASE sync.reply \in ServerIds
  <2>1. local' = Migrate(local, sync.id, sync.reply) /\ sync.reply # "failed"
    BY <1>4, NoWordIsAnId DEF Receive, Ids
  <2>2. local' \in [Ids -> Row]
    BY <1>1, <1>2, <1>4, <2>1, MigratedTable DEF Ids
  <2> QED BY <1>1, <1>4, <2>1, <2>2
<1>5. CASE sync.reply \notin ServerIds \union {"failed"} /\ sync.row.status = "pendingDelete"
  BY <1>1, <1>2, <1>5, AbsentIsARow DEF Receive
<1>6. CASE sync.reply \notin ServerIds \union {"failed"} /\ sync.row.status # "pendingDelete"
  <2>1. local' = Mark(local, sync.id, "synced")
    BY <1>6 DEF Receive
  <2>2. local' \in [Ids -> Row]
    BY <1>1, <1>2, <2>1, MarkedTable
  <2> QED BY <1>1, <1>6, <2>1, <2>2
<1> QED BY <1>3, <1>4, <1>5, <1>6

LEMMA ReceiveVersions ==
    ASSUME SyncTypeOK, AtWork, Receive, NEW j \in Ids
    PROVE  local'[j].ver \in {local[j].ver, local[sync.id].ver, 0}
<1>1. local \in [Ids -> Row] /\ sync.id \in Ids
  BY ReceiveWrites DEF SyncTypeOK
<1>2. CASE sync.reply = "failed"
  <2>1. local' = Mark(local, sync.id, "error")
    BY <1>2, ReceiveWrites
  <2> QED BY <1>1, <2>1, MarkedTable DEF Pending
<1>3. CASE sync.reply \in ServerIds
  <2>1. local' = Migrate(local, sync.id, sync.reply) /\ sync.reply \in Ids
    BY <1>3, ReceiveWrites DEF Ids
  <2> QED BY <1>1, <2>1, MigratedTable
<1>4. CASE sync.reply \notin ServerIds \union {"failed"}
  <2>1. CASE local' = [local EXCEPT ![sync.id] = Absent]
    BY <1>1, <2>1, AbsentIsARow
  <2>2. CASE local' = Mark(local, sync.id, "synced")
    BY <1>1, <2>2, MarkedTable
  <2> QED BY <1>4, <2>1, <2>2, ReceiveWrites
<1> QED BY <1>2, <1>3, <1>4

LEMMA MergeWrites ==
    ASSUME SyncTypeOK, AtWork, MergeWrite
    PROVE  /\ sync.pc = "read" /\ sync.id \in ServerIds
           /\ local' \in [Ids -> Row]
           /\ local'[sync.id] =
                 IF sync.row # Absent /\ local[sync.id] = Absent THEN Absent
                 ELSE Merged(sync.row, sync.fetched[sync.id])
           /\ \A j \in Ids : j # sync.id => local'[j] = local[j]
           /\ UNCHANGED <<remote, clock, form, used, stored>>
<1>1. /\ sync.pc = "read" /\ sync.id \in ServerIds /\ sync.id \in Ids
      /\ UNCHANGED <<remote, clock, form, used, stored>>
  BY DEF MergeWrite, AtWork, Ids
<1> DEFINE new == Merged(sync.row, sync.fetched[sync.id])
<1>2. new \in Row
  BY <1>1, MergedRow, SyncFields DEF AtWork
<1>3. local \in [Ids -> Row]
  BY DEF SyncTypeOK
<1>4. local' = IF sync.row = Absent THEN [local EXCEPT ![sync.id] = new]
               ELSE Replace(local, sync.id, new)
  BY DEF MergeWrite
<1> HIDE DEF new
<1>5. CASE sync.row = Absent
  BY <1>1, <1>2, <1>3, <1>4, <1>5 DEF new
<1>6. CASE sync.row # Absent
  <2>1. local' = Replace(local, sync.id, new)
    BY <1>4, <1>6
  <2>2. /\ local' \in [Ids -> Row]
        /\ local'[sync.id] = IF local[sync.id] = Absent THEN Absent ELSE new
        /\ \A j \in Ids : j # sync.id => local'[j] = local[j]
    BY <2>1, <1>1, <1>2, <1>3, ReplacedTable
  <2> QED BY <1>1, <1>6, <2>2 DEF new
<1> QED BY <1>5, <1>6

-----------------------------------------------------------------------------
(* SyncInv from fields: what every step below has to show. *)
LEMMA VersionsAreTimes ==
    ASSUME SyncTypeOK
    PROVE  /\ clock \in Nat
           /\ \A i \in Ids : local[i].ver \in Nat /\ sync.queue[i].ver \in Nat
           /\ \A s \in ServerIds : remote[s].ver \in Nat /\ sync.fetched[s].ver \in Nat
           /\ sync.row.ver \in Nat /\ form.seen.ver \in Nat
           /\ Absent.ver = 0 /\ Gone.ver = 0
           /\ NoForm.seen.ver = 0 /\ NoForm.op = "none" /\ NoForm \in FormRecord
BY SyncFields, RowFields, RemoteRowFields, AbsentIsARow, GoneIsARow, RestingFields,
   MaxClockIsTime DEF Times

LEMMA UserKeepsSyncInv == SyncInv /\ UserStep => SyncInv'
<1> SUFFICES ASSUME SyncInv, UserStep PROVE SyncInv'
  OBVIOUS
<1> USE VersionsAreTimes DEF SyncInv
<1>1. ASSUME NEW i \in TempIds, Add(i) PROVE SyncInv'
  <2>1. Tick
    BY <1>1 DEF Add
  <2>2. SyncTypeOK'
    BY <1>1, <2>1, AddDoes, NowIsATime DEF SyncTypeOK, Ids
  <2>3. AtWork'
    BY <1>1, AddDoes DEF AtWork
  <2>4. Past'
    BY <1>1, <2>1, AddDoes, NowIsATime DEF Past, Times
  <2> QED BY <2>2, <2>3, <2>4
<1>2. ASSUME NEW op \in {"edit", "delete"}, NEW i \in Ids, Open(op, i) PROVE SyncInv'
  <2>2. SyncTypeOK'
    BY <1>2, OpenDoes DEF SyncTypeOK, FormRecord
  <2>3. AtWork'
    BY <1>2, OpenDoes DEF AtWork
  <2>4. Past'
    BY <1>2, OpenDoes DEF Past
  <2> QED BY <2>2, <2>3, <2>4
<1>3. CASE EditWrite
  <2>2. SyncTypeOK'
    BY <1>3, EditWriteDoes, NowIsATime DEF SyncTypeOK, FormRecord
  <2>3. AtWork'
    BY <1>3, EditWriteDoes DEF AtWork
  <2>4. Past'
    BY <1>3, EditWriteDoes, NowIsATime DEF Past, Times
  <2> QED BY <2>2, <2>3, <2>4
<1>4. CASE DeleteWrite
  <2>1. clock' \in Times /\ clock <= clock'
    BY <1>4, DeleteWriteDoes, NowIsATime DEF Times, SyncTypeOK
  <2>2. SyncTypeOK'
    BY <1>4, <2>1, DeleteWriteDoes DEF SyncTypeOK, FormRecord
  <2>3. AtWork'
    BY <1>4, DeleteWriteDoes DEF AtWork
  <2>4. Past'
    BY <1>4, <2>1, DeleteWriteDoes DEF Past, Times
  <2> QED BY <2>2, <2>3, <2>4
<1> QED BY <1>1, <1>2, <1>3, <1>4 DEF UserStep

LEMMA RemoteKeepsSyncInv == SyncInv /\ RemoteStep => SyncInv'
<1> SUFFICES ASSUME SyncInv, RemoteStep PROVE SyncInv'
  OBVIOUS
<1> USE VersionsAreTimes DEF SyncInv
<1>1. CASE Wait
  BY <1>1, NowIsATime DEF Wait, SyncTypeOK, AtWork, Past
<1>2. ASSUME NEW s \in ServerIds, RemoteWrite(s) PROVE SyncInv'
  <2>1. Tick
    BY <1>2 DEF RemoteWrite
  <2>2. SyncTypeOK'
    BY <1>2, <2>1, RemoteWriteDoes, NowIsATime DEF SyncTypeOK, Ids
  <2>3. AtWork'
    BY <1>2, RemoteWriteDoes DEF AtWork
  <2>4. Past'
    BY <1>2, <2>1, RemoteWriteDoes, NowIsATime DEF Past, Times
  <2> QED BY <2>2, <2>3, <2>4
<1>3. ASSUME NEW s \in ServerIds, RemoteDelete(s) PROVE SyncInv'
  BY <1>3, RemoteDeleteDoes DEF SyncTypeOK, AtWork, Past
<1> QED BY <1>1, <1>2, <1>3 DEF RemoteStep

(* Sending: the record of the cycle, then what the server makes of it. *)
LEMMA SentKeeps ==
    ASSUME SyncInv, NEW i \in Ids, NEW reply \in ServerIds \union {"ok", "failed"},
           Sent(i, reply), UNCHANGED <<local, clock, form>>,
           remote' \in [ServerIds -> RemoteRow], used' \subseteq Ids, stored' \subseteq Times,
           \A s \in ServerIds : remote'[s].ver <= clock
    PROVE  SyncInv'
<1> USE VersionsAreTimes DEF SyncInv
<1>1. SyncTypeOK'
  BY SentDoes DEF SyncTypeOK, SyncRecord
<1>2. AtWork'
  BY SentDoes DEF AtWork
<1>3. Past'
  BY SentDoes DEF Past
<1> QED BY <1>1, <1>2, <1>3

LEMMA PushKeepsSyncInv ==
    ASSUME SyncInv, NEW i \in Ids, NEW answered \in BOOLEAN,
           \/ \E s \in ServerIds : SendCreate(i, s, answered)
           \/ SendUpdate(i, answered)
           \/ SendDelete(i, answered)
           \/ SendFails(i)
           \/ SendNothing(i)
    PROVE  SyncInv'
<1> USE VersionsAreTimes DEF SyncInv
<1>1. ASSUME NEW s \in ServerIds, SendCreate(i, s, answered) PROVE SyncInv'
  <2>1. /\ sync.queue[i] # Absent
        /\ remote' \in [ServerIds -> RemoteRow] /\ remote'[s].ver = sync.queue[i].ver
        /\ \A t \in ServerIds : t # s => remote'[t] = remote[t]
        /\ stored' = stored \union {sync.queue[i].ver} /\ used' = used \union {s}
        /\ Sent(i, IF answered THEN s ELSE "failed")
        /\ UNCHANGED <<local, clock, form>>
    BY <1>1, SendCreateDoes
  <2>2. sync.queue[i].ver \in Times
    BY <2>1, StampedRow
  <2>3. stored' \subseteq Times /\ used' \subseteq Ids
    BY <2>1, <2>2 DEF SyncTypeOK, Ids
  <2>4. \A t \in ServerIds : remote'[t].ver <= clock
    BY <2>1 DEF Past
  <2> QED BY <2>1, <2>3, <2>4, SentKeeps
<1>2. CASE SendUpdate(i, answered)
  <2>1. /\ i \in ServerIds /\ sync.queue[i] # Absent
        /\ remote' \in [ServerIds -> RemoteRow] /\ remote'[i].ver = sync.queue[i].ver
        /\ \A t \in ServerIds : t # i => remote'[t] = remote[t]
        /\ stored' = stored \union {sync.queue[i].ver}
        /\ Sent(i, IF answered THEN "ok" ELSE "failed")
        /\ UNCHANGED <<local, clock, form, used>>
    BY <1>2, SendUpdateDoes
  <2>2. sync.queue[i].ver \in Times
    BY <2>1, StampedRow
  <2>3. stored' \subseteq Times /\ used' \subseteq Ids
    BY <2>1, <2>2 DEF SyncTypeOK
  <2>4. \A s \in ServerIds : remote'[s].ver <= clock
    BY <2>1 DEF Past
  <2> QED BY <2>1, <2>3, <2>4, SentKeeps
<1>3. CASE SendDelete(i, answered)
  <2>1. /\ i \in ServerIds /\ remote' \in [ServerIds -> RemoteRow] /\ remote'[i] = Gone
        /\ \A t \in ServerIds : t # i => remote'[t] = remote[t]
        /\ Sent(i, IF answered THEN "ok" ELSE "failed")
        /\ UNCHANGED <<local, clock, form, used, stored>>
    BY <1>3, SendDeleteDoes
  <2>2. stored' \subseteq Times /\ used' \subseteq Ids
    BY <2>1 DEF SyncTypeOK
  <2>3. \A s \in ServerIds : remote'[s].ver <= clock
    BY <2>1 DEF Past
  <2> QED BY <2>1, <2>2, <2>3, SentKeeps
<1>4. CASE SendFails(i)
  BY <1>4, SentKeeps DEF SendFails, SyncTypeOK, Past
<1>5. CASE SendNothing(i)
  BY <1>5, SentKeeps DEF SendNothing, SyncTypeOK, Past
<1> QED BY <1>1, <1>2, <1>3, <1>4, <1>5

(* The steps that leave the server alone, and time. *)
LEMMA CycleKeeps ==
    ASSUME SyncInv, UNCHANGED <<remote, clock, form, used, stored>>,
           sync' \in SyncRecord, sync'.pc # "sent",
           local' \in [Ids -> Row],
           \A i \in Ids : local'[i].ver <= clock /\ sync'.queue[i].ver <= clock,
           \A s \in ServerIds : sync'.fetched[s].ver <= clock,
           sync'.row.ver <= clock,
           sync'.pc = "read" => sync'.id \in ServerIds /\ sync'.fetched[sync'.id] # Gone
    PROVE  SyncInv'
<1> USE DEF SyncInv
<1>1. SyncTypeOK'
  BY DEF SyncTypeOK, SyncRecord
<1>2. AtWork'
  BY DEF AtWork
<1>3. Past'
  BY DEF Past
<1> QED BY <1>1, <1>2, <1>3

LEMMA CycleKeepsSyncInv ==
    ASSUME SyncInv,
           \/ PushStart \/ Receive \/ Fetch \/ FetchFails \/ Sweep
           \/ (\E i \in Ids : RemoveSwept(i))
           \/ EndSweep
           \/ (\E s \in ServerIds : MergeRead(s))
           \/ MergeWrite \/ EndCycle
    PROVE  SyncInv'
<1> USE VersionsAreTimes DEF SyncInv
<1>0. local \in [Ids -> Row]
  BY DEF SyncTypeOK
<1>1. CASE PushStart
  <2>1. UNCHANGED <<local, remote, clock, form, used, stored>>
    BY <1>1 DEF PushStart
  <2> QED BY <1>0, <1>1, <2>1, PushStartDoes, CycleKeeps DEF Past
<1>2. CASE Receive
  <2>1. \A i \in Ids : local'[i].ver <= clock
    BY <1>2, ReceiveVersions, ReceiveWrites DEF Past
  <2>2. local' \in [Ids -> Row] /\ UNCHANGED <<remote, clock, form, used, stored>>
    BY <1>2, ReceiveWrites
  <2> QED BY <1>2, <2>1, <2>2, ReceiveDoes, CycleKeeps DEF Past
<1>3. CASE Fetch
  <2>1. UNCHANGED <<local, remote, clock, form, used, stored>>
    BY <1>3 DEF Fetch
  <2> QED BY <1>0, <1>3, <2>1, FetchDoes, CycleKeeps DEF Past
<1>4. CASE FetchFails \/ EndCycle
  <2>1. UNCHANGED <<local, remote, clock, form, used, stored>> /\ sync' = Resting
    BY <1>4 DEF FetchFails, EndCycle
  <2> QED BY <1>0, <2>1, RestDoes, CycleKeeps DEF Past
<1>5. CASE Sweep
  <2>1. UNCHANGED <<local, remote, clock, form, used, stored>>
    BY <1>5 DEF Sweep
  <2> QED BY <1>0, <1>5, <2>1, SweepDoes, CycleKeeps DEF Past
<1>6. ASSUME NEW i \in Ids, RemoveSwept(i) PROVE SyncInv'
  <2>1. /\ UNCHANGED <<remote, clock, form, used, stored>>
        /\ local' = [local EXCEPT ![i] = Absent]
    BY <1>6 DEF RemoveSwept
  <2>2. local' \in [Ids -> Row] /\ \A j \in Ids : local'[j].ver <= clock
    BY <1>0, <2>1, AbsentIsARow DEF Past
  <2> QED BY <1>6, <2>1, <2>2, RemoveSweptDoes, CycleKeeps DEF Past
<1>7. CASE EndSweep
  <2>1. UNCHANGED <<local, remote, clock, form, used, stored>>
    BY <1>7 DEF EndSweep
  <2> QED BY <1>0, <1>7, <2>1, EndSweepDoes, CycleKeeps DEF Past
<1>8. ASSUME NEW s \in ServerIds, MergeRead(s) PROVE SyncInv'
  <2>1. UNCHANGED <<local, remote, clock, form, used, stored>> /\ sync.fetched[s] # Gone
    BY <1>8 DEF MergeRead
  <2> QED BY <1>0, <1>8, <2>1, MergeReadDoes, CycleKeeps DEF Past, Ids
<1>9. CASE MergeWrite
  <2>1. /\ UNCHANGED <<remote, clock, form, used, stored>>
        /\ local' \in [Ids -> Row] /\ sync.id \in ServerIds /\ sync.pc = "read"
    BY <1>9, MergeWrites
  <2>2. Merged(sync.row, sync.fetched[sync.id]).ver <= clock
    BY <2>1, MergedRow, SyncFields DEF AtWork, Past
  <2>3. \A i \in Ids : local'[i].ver <= clock
    BY <1>9, <2>2, MergeWrites DEF Past
  <2> QED BY <1>9, <2>1, <2>3, MergeWriteDoes, CycleKeeps DEF Past
<1> QED BY <1>1, <1>2, <1>3, <1>4, <1>5, <1>6, <1>7, <1>8, <1>9

LEMMA SyncInvStep == SyncInv /\ [SyncNext]_vars => SyncInv'
<1> SUFFICES ASSUME SyncInv, [SyncNext]_vars PROVE SyncInv'
  OBVIOUS
<1>1. CASE UserStep
  BY <1>1, UserKeepsSyncInv
<1>2. CASE RemoteStep
  BY <1>2, RemoteKeepsSyncInv
<1>3. CASE EngineStep
  BY <1>3, PushKeepsSyncInv, CycleKeepsSyncInv DEF EngineStep
<1>4. CASE Kill
  <2>1. sync' = Resting /\ form' = NoForm /\ UNCHANGED <<local, remote, clock, used, stored>>
    BY <1>4 DEF Kill
  <2> USE VersionsAreTimes, RestDoes DEF SyncInv
  <2>2. SyncTypeOK'
    BY <2>1 DEF SyncTypeOK, SyncRecord, FormRecord
  <2>3. AtWork' /\ Past'
    BY <2>1 DEF AtWork, Past
  <2> QED BY <2>2, <2>3
<1>5. CASE UNCHANGED vars
  BY <1>5 DEF vars, SyncInv, SyncTypeOK, AtWork, Past
<1> QED BY <1>1, <1>2, <1>3, <1>4, <1>5 DEF SyncNext

(* The tables, the cycle and the form of the device are always what their  *)
(* types say: for one, a merge never writes a row without a content, and   *)
(* an answer is never marked on an id that is none.                        *)
THEOREM SyncTypeInvariant == SyncSpec => []SyncTypeOK
<1>1. SyncSpec => []SyncInv
  BY SyncInvInit, SyncInvStep, PTL DEF SyncSpec
<1>2. SyncInv => SyncTypeOK
  BY DEF SyncInv
<1> QED BY <1>1, <1>2, PTL

-----------------------------------------------------------------------------
(* Calm surroundings.  First: who bears what. *)

(* No item comes to bear a version that it did not bear. *)
LEMMA NobodyBearsMore ==
    ASSUME OneItemEach,
           \A i \in Ids, v \in Times \ {0} : Bears(i, v)' => Bears(i, v),
           sync.pc = "sent" => sync'.pc = "sent" /\ sync'.id = sync.id /\ sync'.reply = sync.reply
    PROVE  OneItemEach'
BY DEF OneItemEach

(* One item comes to bear a version that nobody could bear. *)
LEMMA OneBearsNow ==
    ASSUME SyncInv, OneItemEach, NEW k \in Ids,
           \A i \in Ids, v \in Times \ {0} : Bears(i, v)' => Bears(i, v) \/ (i = k /\ v = Now),
           sync.pc = "sent" => sync'.pc = "sent" /\ sync'.id = sync.id /\ sync'.reply = sync.reply
    PROVE  OneItemEach'
<1>1. \A i \in Ids, v \in Times \ {0} : Bears(i, v) => v # Now
  BY VersionsAreTimes DEF SyncInv, Past, Bears, Now
<1> QED BY <1>1 DEF OneItemEach

(* The parts of CalmInv as they are used below. *)
LEMMA CalmFacts ==
    ASSUME CalmInv
    PROVE  /\ SyncTypeOK /\ AtWork /\ Past /\ SyncInv
           /\ HeldIsHere /\ IdsInUse /\ ErrorsAreGone /\ AnswersAreTrue
           /\ FetchedIsKnown /\ OneItemEach /\ SyncedWasStored
           /\ \A i \in Ids : i \in TempIds <=> i \notin ServerIds
           /\ TempIds \subseteq Ids /\ ServerIds \subseteq Ids
BY IdsDiffer DEF CalmInv, SyncInv, Ids

LEMMA CalmAdd ==
    ASSUME CalmInv, SyncInv', Apart', NEW i \in TempIds, Add(i)
    PROVE  CalmInv'
<1> USE CalmFacts
<1>1. /\ i \in Ids /\ local'[i] # Absent /\ local'[i].ver = Now
      /\ local'[i].status = "pendingCreate"
      /\ \A j \in Ids : j # i => local'[j] = local[j]
      /\ used' = used \union {i} /\ i \notin used
      /\ UNCHANGED <<remote, sync, form, stored>>
      /\ local[i] = Absent
  BY AddDoes DEF IdsInUse, Here
<1>2. HeldIsHere'
  BY <1>1 DEF HeldIsHere, Queued, AtWork, AnswersAreTrue, IdsInUse, Here
<1>3. IdsInUse'
  BY <1>1 DEF IdsInUse, Here, There
<1>4. ErrorsAreGone'
  BY <1>1 DEF ErrorsAreGone, There
<1>8. AnswersAreTrue'
  BY <1>1 DEF AnswersAreTrue, AtWork, Here, There
<1>5. FetchedIsKnown'
  BY <1>1 DEF FetchedIsKnown, Here, There, Queued
<1>6. OneItemEach'
  BY <1>1, OneBearsNow DEF Bears
<1>7. SyncedWasStored'
  BY <1>1, VersionsAreTimes, SyncFields DEF SyncedWasStored, There
<1> QED BY <1>2, <1>3, <1>4, <1>5, <1>6, <1>7, <1>8 DEF CalmInv

LEMMA CalmOpen ==
    ASSUME CalmInv, SyncInv', Apart', NEW op \in {"edit", "delete"}, NEW i \in Ids, Open(op, i)
    PROVE  CalmInv'
<1> USE CalmFacts
<1>1. /\ form'.op = op /\ form'.id = i /\ form'.seen = local[i]
      /\ UNCHANGED <<local, remote, clock, sync, used, stored>>
  BY OpenDoes
<1>2. HeldIsHere'
  BY <1>1 DEF HeldIsHere, Queued
<1>3. IdsInUse' /\ ErrorsAreGone' /\ AnswersAreTrue'
  BY <1>1 DEF IdsInUse, ErrorsAreGone, AnswersAreTrue, Here, There
<1>4. FetchedIsKnown' /\ SyncedWasStored'
  BY <1>1 DEF FetchedIsKnown, SyncedWasStored, Here, There, Queued
<1>5. OneItemEach'
  BY <1>1, NobodyBearsMore DEF Bears
<1> QED BY <1>2, <1>3, <1>4, <1>5 DEF CalmInv

(* The user's write finds the row that was read, and nobody else holds it. *)
LEMMA CalmForm ==
    ASSUME CalmInv, form.op # "none"
    PROVE  /\ form.id \in Ids /\ form.seen = local[form.id] /\ local[form.id] # Absent
           /\ form.id # sync.id /\ form.id \notin Queued
           /\ form.id \in TempIds <=> form.seen.status = "pendingCreate"
BY CalmFacts, NoWordIsAnId DEF HeldIsHere, AtWork, Apart, IdsInUse, Here

LEMMA CalmEditWrite ==
    ASSUME CalmInv, SyncInv', Apart', EditWrite
    PROVE  CalmInv'
<1> USE CalmFacts
<1> DEFINE i == form.id
<1>0. form.op = "edit" /\ i \in Ids
  BY EditWriteDoes
<1>1. /\ local[i] # Absent /\ i # sync.id /\ sync.queue[i] = Absent
      /\ i \in TempIds <=> local'[i].status = "pendingCreate"
      /\ local'[i].status \in {"pendingCreate", "pendingUpdate"}
      /\ local'[i] # Absent /\ local'[i].ver = Now
      /\ \A j \in Ids : j # i => local'[j] = local[j]
      /\ form' = NoForm
      /\ UNCHANGED <<remote, sync, used, stored>>
  BY <1>0, EditWriteDoes, CalmForm DEF Queued
<1> HIDE DEF i
<1>2. HeldIsHere'
  BY <1>0, <1>1, RestingFields DEF HeldIsHere, Queued, AtWork, Ids
<1>3. IdsInUse'
  BY <1>0, <1>1 DEF IdsInUse, Here, There
<1>4. ErrorsAreGone'
  BY <1>0, <1>1 DEF ErrorsAreGone, There
<1>5. AnswersAreTrue'
  BY <1>0, <1>1 DEF AnswersAreTrue, AtWork, Here, There
<1>6. FetchedIsKnown'
  BY <1>0, <1>1 DEF FetchedIsKnown, Here, There, Queued
<1>7. OneItemEach'
  BY <1>0, <1>1, OneBearsNow DEF Bears
<1>8. SyncedWasStored'
  BY <1>0, <1>1 DEF SyncedWasStored, There
<1> QED BY <1>2, <1>3, <1>4, <1>5, <1>6, <1>7, <1>8 DEF CalmInv

LEMMA CalmDeleteWrite ==
    ASSUME CalmInv, SyncInv', Apart', DeleteWrite
    PROVE  CalmInv'
<1> USE CalmFacts
<1> DEFINE i == form.id
<1>0. form.op = "delete" /\ i \in Ids
  BY DeleteWriteDoes
<1>1. /\ local[i] # Absent /\ i # sync.id /\ sync.queue[i] = Absent
      /\ \/ local'[i] = Absent
         \/ /\ i \notin TempIds
            /\ local'[i] # Absent /\ local'[i].ver = local[i].ver
            /\ local'[i].status = "pendingDelete"
      /\ \A j \in Ids : j # i => local'[j] = local[j]
      /\ form' = NoForm
      /\ UNCHANGED <<remote, sync, used, stored>>
  BY <1>0, DeleteWriteDoes, CalmForm DEF Queued
<1> HIDE DEF i
<1>2. HeldIsHere'
  BY <1>0, <1>1, RestingFields DEF HeldIsHere, Queued, AtWork, Ids
<1>3. IdsInUse'
  BY <1>0, <1>1 DEF IdsInUse, Here, There
<1>4. ErrorsAreGone'
  BY <1>0, <1>1, AbsentIsARow DEF ErrorsAreGone, There
<1>5. AnswersAreTrue'
  BY <1>0, <1>1 DEF AnswersAreTrue, AtWork, Here, There
<1>6. FetchedIsKnown'
  BY <1>0, <1>1 DEF FetchedIsKnown, Here, There, Queued
<1>7. OneItemEach'
  BY <1>0, <1>1, NobodyBearsMore, AbsentIsARow DEF Bears
<1>8. SyncedWasStored'
  BY <1>0, <1>1, AbsentIsARow DEF SyncedWasStored, There
<1> QED BY <1>2, <1>3, <1>4, <1>5, <1>6, <1>7, <1>8 DEF CalmInv

(* The server's rows change, and the device knows nothing of it. *)
LEMMA CalmRemoteWrite ==
    ASSUME CalmInv, SyncInv', Apart', NEW s \in ServerIds, RemoteWrite(s)
    PROVE  CalmInv'
<1> USE CalmFacts
<1>0. s \in Ids
  OBVIOUS
<1>1. /\ remote'[s].ver = Now /\ remote'[s] # Gone
      /\ \A t \in ServerIds : t # s => remote'[t] = remote[t]
      /\ There(s) \/ s \notin used
      /\ used' = used \union {s} /\ stored' = stored \union {Now}
      /\ UNCHANGED <<local, sync, form>>
  BY RemoteWriteDoes
<1>2. HeldIsHere'
  BY <1>1 DEF HeldIsHere, Queued
<1>3. IdsInUse'
  BY <1>1 DEF IdsInUse, Here, There
<1>4. ErrorsAreGone'
  BY <1>1, AbsentIsARow DEF ErrorsAreGone, IdsInUse, Here, There
<1>5. AnswersAreTrue'
  BY <1>1 DEF AnswersAreTrue, IdsInUse, Here, There
<1>6. FetchedIsKnown'
  BY <1>1 DEF FetchedIsKnown, IdsInUse, Here, There, Queued
<1>7. OneItemEach'
  BY <1>0, <1>1, OneBearsNow DEF Bears
<1>8. SyncedWasStored'
  BY <1>1, AbsentIsARow DEF SyncedWasStored, IdsInUse, Here, There
<1> QED BY <1>2, <1>3, <1>4, <1>5, <1>6, <1>7, <1>8 DEF CalmInv

LEMMA CalmRemoteDelete ==
    ASSUME CalmInv, SyncInv', Apart', NEW s \in ServerIds, RemoteDelete(s)
    PROVE  CalmInv'
<1> USE CalmFacts
<1>1. /\ remote'[s] = Gone
      /\ \A t \in ServerIds : t # s => remote'[t] = remote[t]
      /\ UNCHANGED <<local, clock, sync, form, used, stored>>
  BY RemoteDeleteDoes
<1>2. HeldIsHere'
  BY <1>1 DEF HeldIsHere, Queued
<1>3. IdsInUse' /\ ErrorsAreGone' /\ AnswersAreTrue'
  BY <1>1 DEF IdsInUse, ErrorsAreGone, AnswersAreTrue, Here, There
<1>6. FetchedIsKnown'
  BY <1>1 DEF FetchedIsKnown, Here, There, Queued
<1>7. OneItemEach'
  BY <1>1, NobodyBearsMore, GoneIsARow DEF Bears
<1>8. SyncedWasStored'
  BY <1>1 DEF SyncedWasStored, There
<1> QED BY <1>2, <1>3, <1>6, <1>7, <1>8 DEF CalmInv

-----------------------------------------------------------------------------
(* The push.  What is sent is the row as it is, and a temporary id is sent *)
(* only to be created.                                                     *)
LEMMA CalmQueue ==
    ASSUME CalmInv, NEW i \in Ids, sync.queue[i] # Absent, sync.pc = "push"
    PROVE  /\ sync.queue[i] = local[i] /\ local[i] # Absent /\ i \in used
           /\ i \in TempIds <=> local[i].status = "pendingCreate"
           /\ local[i].ver \in Times \ {0}
BY CalmFacts, SyncFields, RowFields DEF HeldIsHere, Queued, IdsInUse, Here

(* A request was sent, and the server did with one row what it is for. *)
LEMMA CalmSent ==
    ASSUME CalmInv, SyncInv', Apart', sync.pc = "push",
           NEW i \in Ids, sync.queue[i] # Absent,
           NEW reply \in ServerIds \union {"ok", "failed"},
           Sent(i, reply), UNCHANGED <<local, clock, form>>,
           IdsInUse', ErrorsAreGone', SyncedWasStored',
           \A s \in ServerIds : remote'[s] # Gone => remote'[s].ver \in stored',
           stored \subseteq stored',
           reply = "failed" => i \in ServerIds /\ ~There(i)',
           reply = "ok" => i \in ServerIds,
           reply \in ServerIds => i \in TempIds /\ ~Here(reply) /\ reply \in used',
           reply # "failed" /\ local[i].status \notin {"pendingDelete", "error"}
               => local[i].ver \in stored',
           OneItemEach'
    PROVE  CalmInv'
<1> USE CalmFacts
<1>1. /\ sync'.pc = "sent" /\ sync'.id = i /\ sync'.reply = reply
      /\ sync'.row = local[i] /\ sync'.queue[i] = Absent
      /\ \A j \in Ids : j # i => sync'.queue[j] = sync.queue[j]
      /\ sync'.fetched = sync.fetched
      /\ local[i] # Absent
  BY SentDoes, CalmQueue
<1>2. HeldIsHere'
  BY <1>1 DEF HeldIsHere, Queued
<1>3. AnswersAreTrue'
  BY <1>1, NoWordIsAnId DEF AnswersAreTrue, Here
<1>4. FetchedIsKnown'
  BY <1>1 DEF FetchedIsKnown, There
<1> QED BY <1>2, <1>3, <1>4 DEF CalmInv

LEMMA CalmSendCreate ==
    ASSUME CalmInv, SyncInv', Apart', Answered, NEW i \in Ids, NEW s \in ServerIds,
           NEW answered \in BOOLEAN, SendCreate(i, s, answered)
    PROVE  CalmInv'
<1> USE CalmFacts
<1>1. /\ sync.pc = "push" /\ s \notin used /\ sync.queue[i] # Absent
      /\ remote'[s] # Gone /\ remote'[s].ver = sync.queue[i].ver
      /\ \A t \in ServerIds : t # s => remote'[t] = remote[t]
      /\ used' = used \union {s} /\ stored' = stored \union {sync.queue[i].ver}
      /\ Sent(i, IF answered THEN s ELSE "failed")
      /\ UNCHANGED <<local, clock, form>>
      /\ sync.queue[i].status = "pendingCreate"
  BY SendCreateDoes
<1>2. /\ sync.queue[i] = local[i] /\ local[i] # Absent /\ i \in TempIds
      /\ i # s /\ local[i].ver # 0 /\ local[i].ver \in Times
  BY <1>1, CalmQueue
<1>3. answered
  <2>1. CASE ~answered
    <3>1. sync'.reply = "failed" /\ sync'.id = i
      BY <1>1, <2>1, SentDoes
    <3> QED BY <3>1, <1>2 DEF Answered
  <2> QED BY <2>1
<1>4. Sent(i, s)
  BY <1>1, <1>3
<1>5. IdsInUse'
  <2>1. sync'.fetched = sync.fetched
    BY <1>4, SentDoes
  <2> QED BY <1>1, <2>1 DEF IdsInUse, Here, There
<1>6. ErrorsAreGone' /\ SyncedWasStored'
  BY <1>1, AbsentIsARow DEF ErrorsAreGone, SyncedWasStored, IdsInUse, Here, There
<1>7. ~Here(s)
  BY <1>1 DEF IdsInUse
<1>8. \A t \in ServerIds : remote'[t] # Gone => remote'[t].ver \in stored'
  BY <1>1 DEF FetchedIsKnown, There
<1>9. OneItemEach'
  <2>1. sync'.pc = "sent" /\ sync'.id = i /\ sync'.reply = s /\ sync'.fetched = sync.fetched
    BY <1>4, SentDoes
  <2>2. \A j \in Ids, v \in Times \ {0} :
           Bears(j, v)' => Bears(j, v) \/ (j = s /\ v = local[i].ver)
    BY <1>1, <1>2, <2>1 DEF Bears
  <2>3. \A v \in Times \ {0} : ~Bears(s, v)
    BY <1>1, <1>7, GoneIsARow, AbsentIsARow DEF Bears, IdsInUse, Here, There
  <2>4. Bears(i, local[i].ver)
    BY DEF Bears
  <2>5. \A j, k \in Ids, v \in Times \ {0} : Bears(j, v) /\ Bears(k, v) => j = k
    BY <1>1 DEF OneItemEach
  <2>6. \A j \in Ids, v \in Times \ {0} :
           Bears(j, v)' => IF j = s THEN v = local[i].ver ELSE Bears(j, v)
    BY <2>2, <2>3
  <2>7. ASSUME NEW j \in Ids, NEW k \in Ids, NEW v \in Times \ {0},
               Bears(j, v)', Bears(k, v)', j # k
        PROVE  {j, k} = {i, s}
    BY <2>4, <2>5, <2>6, <2>7, <1>2
  <2> QED BY <2>1, <2>7 DEF OneItemEach
<1> QED BY <1>1, <1>2, <1>4, <1>5, <1>6, <1>7, <1>8, <1>9, CalmSent, NoWordIsAnId

LEMMA CalmSendUpdate ==
    ASSUME CalmInv, SyncInv', Apart', Answered, NEW i \in Ids, NEW answered \in BOOLEAN,
           SendUpdate(i, answered)
    PROVE  CalmInv'
<1> USE CalmFacts
<1>1. /\ sync.pc = "push" /\ i \in ServerIds /\ There(i) /\ sync.queue[i] # Absent
      /\ remote'[i] # Gone /\ remote'[i].ver = sync.queue[i].ver
      /\ \A t \in ServerIds : t # i => remote'[t] = remote[t]
      /\ stored' = stored \union {sync.queue[i].ver}
      /\ Sent(i, IF answered THEN "ok" ELSE "failed")
      /\ UNCHANGED <<local, clock, form, used>>
  BY SendUpdateDoes
<1>2. sync.queue[i] = local[i] /\ local[i] # Absent
  BY <1>1, CalmQueue
<1>3. Sent(i, "ok")
  <2>1. CASE ~answered
    <3>1. sync'.reply = "failed" /\ sync'.id = i
      BY <1>1, <2>1, SentDoes
    <3> QED BY <3>1, <1>1 DEF Answered
  <2> QED BY <1>1, <2>1
<1>4. sync'.fetched = sync.fetched
  BY <1>3, SentDoes
<1>5. IdsInUse' /\ ErrorsAreGone' /\ SyncedWasStored'
  BY <1>1, <1>4 DEF ErrorsAreGone, SyncedWasStored, IdsInUse, Here, There
<1>6. \A t \in ServerIds : remote'[t] # Gone => remote'[t].ver \in stored'
  BY <1>1 DEF FetchedIsKnown, There
<1>7. OneItemEach'
  <2>1. \A j \in Ids, v \in Times \ {0} : Bears(j, v)' => Bears(j, v)
    BY <1>1, <1>2, <1>4 DEF Bears
  <2> QED BY <1>1, <2>1, NobodyBearsMore
<1> QED BY <1>1, <1>2, <1>3, <1>5, <1>6, <1>7, CalmSent, NoWordIsAnId DEF Ids

LEMMA CalmSendDelete ==
    ASSUME CalmInv, SyncInv', Apart', Answered, NEW i \in Ids, NEW answered \in BOOLEAN,
           SendDelete(i, answered)
    PROVE  CalmInv'
<1> USE CalmFacts
<1>1. /\ sync.pc = "push" /\ i \in ServerIds /\ There(i) /\ sync.queue[i] # Absent
      /\ sync.queue[i].status = "pendingDelete"
      /\ remote'[i] = Gone
      /\ \A t \in ServerIds : t # i => remote'[t] = remote[t]
      /\ Sent(i, IF answered THEN "ok" ELSE "failed")
      /\ UNCHANGED <<local, clock, form, used, stored>>
  BY SendDeleteDoes
<1>2. sync.queue[i] = local[i] /\ local[i] # Absent
  BY <1>1, CalmQueue
<1>3. Sent(i, "ok")
  <2>1. CASE ~answered
    <3>1. sync'.reply = "failed" /\ sync'.id = i
      BY <1>1, <2>1, SentDoes
    <3> QED BY <3>1, <1>1 DEF Answered
  <2> QED BY <1>1, <2>1
<1>4. sync'.fetched = sync.fetched
  BY <1>3, SentDoes
<1>5. IdsInUse' /\ ErrorsAreGone' /\ SyncedWasStored'
  BY <1>1, <1>4 DEF ErrorsAreGone, SyncedWasStored, IdsInUse, Here, There
<1>6. \A t \in ServerIds : remote'[t] # Gone => remote'[t].ver \in stored'
  BY <1>1 DEF FetchedIsKnown, There
<1>7. OneItemEach'
  <2>1. \A j \in Ids, v \in Times \ {0} : Bears(j, v)' => Bears(j, v)
    BY <1>1, <1>2, <1>4, GoneIsARow DEF Bears
  <2> QED BY <1>1, <2>1, NobodyBearsMore
<1> QED BY <1>1, <1>2, <1>3, <1>5, <1>6, <1>7, CalmSent, NoWordIsAnId DEF Ids

LEMMA CalmSendFails ==
    ASSUME CalmInv, SyncInv', Apart', Answered, NEW i \in Ids, SendFails(i) \/ SendNothing(i)
    PROVE  CalmInv'
<1> USE CalmFacts
<1> DEFINE reply == IF SendFails(i) THEN "failed" ELSE "ok"
<1>1. /\ sync.pc = "push" /\ sync.queue[i] # Absent
      /\ Sent(i, reply) /\ reply \in {"ok", "failed"}
      /\ UNCHANGED <<local, remote, clock, form, used, stored>>
  BY DEF SendFails, SendNothing, NextInLine, Queued
<1>2. reply = "ok" => sync.queue[i].status = "error"
  BY DEF SendFails, SendNothing, Skips
<1> HIDE DEF reply
<1>3. sync.queue[i] = local[i] /\ local[i] # Absent
  BY <1>1, CalmQueue
<1>4. sync'.fetched = sync.fetched /\ sync'.id = i /\ sync'.reply = reply
  BY <1>1, SentDoes
<1>5. IdsInUse' /\ ErrorsAreGone' /\ SyncedWasStored'
  BY <1>1, <1>4 DEF ErrorsAreGone, SyncedWasStored, IdsInUse, Here, There
<1>6. \A t \in ServerIds : remote'[t] # Gone => remote'[t].ver \in stored'
  BY <1>1 DEF FetchedIsKnown, There
<1>7. reply = "failed" => i \in ServerIds /\ ~There(i)'
  BY <1>1, <1>4 DEF Answered, There
<1>8. reply = "ok" => i \in ServerIds /\ local[i].status = "error"
  BY <1>2, <1>3 DEF ErrorsAreGone
<1>9. OneItemEach'
  BY <1>1, <1>4, NobodyBearsMore DEF Bears
<1> QED BY <1>1, <1>3, <1>5, <1>6, <1>7, <1>8, <1>9, CalmSent, NoWordIsAnId DEF Ids

(* The answer finds the row as it was sent.  One row changes, or the row   *)
(* moves to the id of the server.                                          *)
LEMMA CalmReceiveMoves ==
    ASSUME CalmInv, SyncInv', Apart', Receive, sync.reply \in ServerIds
    PROVE  CalmInv'
<1> USE CalmFacts
<1> DEFINE i == sync.id
           s == sync.reply
<1>0. /\ sync.pc = "sent" /\ i \in Ids /\ s \in Ids /\ s \in ServerIds
      /\ i \in TempIds /\ i # s /\ local[i] # Absent /\ local[s] = Absent /\ s \in used
      /\ s # "failed"
  BY ReceiveWrites, NoWordIsAnId DEF AnswersAreTrue, Here
<1>1. /\ local'[i] = Absent /\ local'[s] # Absent
      /\ local'[s].status = "synced" /\ local'[s].ver = local[i].ver
      /\ \A j \in Ids \ {i, s} : local'[j] = local[j]
      /\ UNCHANGED <<remote, clock, form, used, stored>>
  <2>1. /\ local' = Migrate(local, i, s) /\ local \in [Ids -> Row]
        /\ UNCHANGED <<remote, clock, form, used, stored>>
    BY ReceiveWrites DEF SyncTypeOK
  <2> QED BY <2>1, <1>0, MigratedTable
<1>2. /\ sync'.pc = "push" /\ sync'.id = "none" /\ sync'.row = Absent
      /\ sync'.queue = sync.queue /\ sync'.fetched = sync.fetched
  BY ReceiveDoes
<1>3. local[i].ver \in stored
  BY <1>0 DEF AnswersAreTrue, HeldIsHere, IdsInUse, Here
<1>4. form.op # "none" => form.id \in Ids \ {i, s}
  BY <1>0, CalmForm
<1>5. i \notin Queued /\ s \notin Queued
  BY <1>0 DEF HeldIsHere, Queued
<1> HIDE DEF i, s
<1>6. HeldIsHere'
  BY <1>0, <1>1, <1>2, <1>4, <1>5 DEF HeldIsHere, Queued
<1>7. IdsInUse'
  BY <1>0, <1>1, <1>2 DEF IdsInUse, Here, There
<1>8. ErrorsAreGone'
  BY <1>0, <1>1, AbsentIsARow DEF ErrorsAreGone, There
<1>9. AnswersAreTrue' /\ FetchedIsKnown'
  BY <1>1, <1>2 DEF AnswersAreTrue, FetchedIsKnown, There
<1>10. SyncedWasStored'
  BY <1>0, <1>1, <1>3, AbsentIsARow DEF SyncedWasStored, There
<1>11. OneItemEach'
  <2>1. \A j \in Ids, v \in Times \ {0} :
           Bears(j, v)' => j # i /\ (Bears(j, v) \/ (j = s /\ v = local[i].ver))
    BY <1>0, <1>1, <1>2, AbsentIsARow DEF Bears
  <2>2. Bears(i, local[i].ver)
    BY DEF Bears
  <2>3. \A j, k \in Ids, v \in Times \ {0} :
           Bears(j, v) /\ Bears(k, v) /\ j # k => {j, k} = {i, s}
    BY DEF OneItemEach, i, s
  <2>4. ASSUME NEW j \in Ids, NEW k \in Ids, NEW v \in Times \ {0},
               Bears(j, v)', Bears(k, v)', j # k
        PROVE  FALSE
    BY <2>1, <2>2, <2>3, <2>4, <1>0
  <2> QED BY <2>4 DEF OneItemEach
<1> QED BY <1>6, <1>7, <1>8, <1>9, <1>10, <1>11 DEF CalmInv

LEMMA CalmReceiveMarks ==
    ASSUME CalmInv, SyncInv', Apart', Receive, sync.reply \notin ServerIds
    PROVE  CalmInv'
<1> USE CalmFacts
<1> DEFINE i == sync.id
<1>0. /\ sync.pc = "sent" /\ i \in Ids /\ local[i] # Absent /\ sync.row = local[i]
      /\ sync.reply \in {"ok", "failed"} /\ i \in ServerIds
      /\ local \in [Ids -> Row]
  BY ReceiveWrites, SyncFields DEF AnswersAreTrue, Here, HeldIsHere, SyncTypeOK
<1>1. /\ \/ local'[i] = Absent
         \/ /\ local'[i] # Absent /\ local'[i].ver = local[i].ver
            /\ \/ /\ local'[i].status = "error" /\ ~There(i)
               \/ /\ local'[i].status = "synced"
                  /\ local[i].ver \in stored \/ ~There(i)
      /\ \A j \in Ids : j # i => local'[j] = local[j]
  <2>1. CASE sync.reply = "failed"
    <3>1. local' = Mark(local, i, "error") /\ ~There(i)
      BY <2>1, ReceiveWrites, <1>0 DEF AnswersAreTrue
    <3> QED BY <3>1, <1>0, MarkedTable DEF Pending
  <2>2. CASE sync.reply = "ok" /\ sync.row.status = "pendingDelete"
    BY <2>2, <1>0, ReceiveWrites, NoWordIsAnId
  <2>3. CASE sync.reply = "ok" /\ sync.row.status # "pendingDelete"
    <3>1. local' = Mark(local, i, "synced")
      BY <2>3, <1>0, ReceiveWrites, NoWordIsAnId
    <3>2. local[i].ver \in stored \/ ~There(i)
      BY <2>3, <1>0 DEF AnswersAreTrue, ErrorsAreGone
    <3> QED BY <3>1, <3>2, <1>0, MarkedTable
  <2> QED BY <1>0, <2>1, <2>2, <2>3
<1>2. /\ sync'.pc = "push" /\ sync'.id = "none" /\ sync'.row = Absent
      /\ sync'.queue = sync.queue /\ sync'.fetched = sync.fetched
      /\ UNCHANGED <<remote, clock, form, used, stored>>
  BY ReceiveDoes, ReceiveWrites
<1>4. form.op # "none" => form.id \in Ids \ {i}
  BY CalmForm
<1>5. i \notin Queued
  BY <1>0 DEF HeldIsHere
<1> HIDE DEF i
<1>6. HeldIsHere'
  BY <1>0, <1>1, <1>2, <1>4, <1>5 DEF HeldIsHere, Queued
<1>7. IdsInUse'
  BY <1>0, <1>1, <1>2 DEF IdsInUse, Here, There
<1>8. ErrorsAreGone'
  BY <1>0, <1>1, <1>2, AbsentIsARow DEF ErrorsAreGone, There
<1>9. AnswersAreTrue' /\ FetchedIsKnown'
  BY <1>2 DEF AnswersAreTrue, FetchedIsKnown, There
<1>10. SyncedWasStored'
  BY <1>0, <1>1, <1>2, AbsentIsARow DEF SyncedWasStored, There, IdsInUse, Here
<1>11. OneItemEach'
  <2>1. \A j \in Ids, v \in Times \ {0} : Bears(j, v)' => Bears(j, v)
    BY <1>0, <1>1, <1>2, AbsentIsARow DEF Bears
  <2>2. \A j, k \in Ids : {j, k} = {sync.id, sync.reply} => j = k
    BY <1>0, NoWordIsAnId
  <2> QED BY <2>1, <2>2 DEF OneItemEach
<1> QED BY <1>6, <1>7, <1>8, <1>9, <1>10, <1>11 DEF CalmInv

-----------------------------------------------------------------------------
(* The cycle begins, turns to the pull, and ends: nobody's row changes.    *)
LEMMA CalmPhase ==
    ASSUME CalmInv, SyncInv', Apart', sync.pc # "sent", sync'.pc # "sent",
           UNCHANGED <<local, remote, clock, form, used, stored>>,
           HeldIsHere',
           \A s \in ServerIds : sync'.fetched[s] \in {Gone, remote[s], sync.fetched[s]},
           sync'.pc \in {"pull", "sweep"} =>
               \A s \in ServerIds : Here(s) /\ sync'.fetched[s] = Gone => ~There(s),
           sync'.pc = "sweep" =>
               \A i \in Queued' : i \in ServerIds /\ sync'.fetched[i] = Gone
    PROVE  CalmInv'
<1> USE CalmFacts
<1>1. IdsInUse' /\ ErrorsAreGone' /\ AnswersAreTrue' /\ SyncedWasStored'
  BY DEF IdsInUse, ErrorsAreGone, AnswersAreTrue, SyncedWasStored, Here, There
<1>2. FetchedIsKnown'
  BY DEF FetchedIsKnown, Here, There
<1>3. OneItemEach'
  BY NobodyBearsMore, GoneIsARow DEF Bears
<1> QED BY <1>1, <1>2, <1>3 DEF CalmInv

LEMMA CalmPhases ==
    ASSUME CalmInv, SyncInv', Apart',
           \/ PushStart \/ Fetch \/ FetchFails \/ Sweep \/ EndSweep
           \/ (\E s \in ServerIds : MergeRead(s))
           \/ EndCycle
    PROVE  CalmInv'
<1> USE CalmFacts
<1>1. CASE PushStart
  <2>1. UNCHANGED <<local, remote, clock, form, used, stored>> /\ sync.pc = "rest"
    BY <1>1 DEF PushStart
  <2>2. HeldIsHere'
    BY <1>1, <2>1, PushStartDoes DEF HeldIsHere, Queued
  <2> QED BY <1>1, <2>1, <2>2, PushStartDoes, CalmPhase
<1>2. CASE Fetch
  <2>1. UNCHANGED <<local, remote, clock, form, used, stored>> /\ sync.pc = "push"
    BY <1>2 DEF Fetch
  <2>2. HeldIsHere'
    BY <1>2, <2>1, FetchDoes DEF HeldIsHere, Queued
  <2> QED BY <1>2, <2>1, <2>2, FetchDoes, CalmPhase DEF There
<1>3. CASE FetchFails \/ EndCycle
  <2>1. /\ UNCHANGED <<local, remote, clock, form, used, stored>> /\ sync.pc # "sent"
        /\ sync' = Resting
    BY <1>3 DEF FetchFails, EndCycle
  <2>2. HeldIsHere'
    BY <2>1, RestDoes DEF HeldIsHere, Queued
  <2> QED BY <2>1, <2>2, RestDoes, CalmPhase
<1>4. CASE Sweep
  <2>1. UNCHANGED <<local, remote, clock, form, used, stored>> /\ sync.pc = "pull"
    BY <1>4 DEF Sweep
  <2>2. HeldIsHere'
    BY <1>4, <2>1, SweepDoes DEF HeldIsHere, Queued
  <2>3. \A i \in Queued' : i \in ServerIds /\ sync'.fetched[i] = Gone
    BY <1>4, SweepDoes, AbsentIsARow DEF Queued, IdsInUse, Here
  <2>4. \A s \in ServerIds : Here(s) /\ sync'.fetched[s] = Gone => ~There(s)
    BY <1>4, <2>1, SweepDoes DEF FetchedIsKnown
  <2> QED BY <1>4, <2>1, <2>2, <2>3, <2>4, SweepDoes, CalmPhase
<1>5. CASE EndSweep
  <2>1. /\ UNCHANGED <<local, remote, clock, form, used, stored>> /\ sync.pc = "sweep"
        /\ Queued = {}
    BY <1>5 DEF EndSweep
  <2>2. HeldIsHere'
    BY <1>5, <2>1, EndSweepDoes DEF HeldIsHere, Queued
  <2> QED BY <1>5, <2>1, <2>2, EndSweepDoes, CalmPhase
<1>6. ASSUME NEW s \in ServerIds, MergeRead(s) PROVE CalmInv'
  <2>1. UNCHANGED <<local, remote, clock, form, used, stored>> /\ sync.pc = "merge"
    BY <1>6 DEF MergeRead
  <2>2. HeldIsHere'
    BY <1>6, <2>1, MergeReadDoes DEF HeldIsHere, Queued
  <2> QED BY <1>6, <2>1, <2>2, MergeReadDoes, CalmPhase
<1> QED BY <1>1, <1>2, <1>3, <1>4, <1>5, <1>6

-----------------------------------------------------------------------------
(* The pull writes.  One row changes to what the server had, is marked, or *)
(* is removed.                                                             *)
LEMMA CalmPullWrites ==
    ASSUME CalmInv, SyncInv', Apart', sync.pc \in {"sweep", "read"},
           UNCHANGED <<remote, clock, form, used, stored>>,
           NEW s \in ServerIds, s = sync.id \/ s \in Queued,
           \A j \in Ids : j # s => local'[j] = local[j],
           sync'.pc \in {"sweep", "merge"}, sync'.id = "none",
           sync'.pc = "sweep" => sync.pc = "sweep",
           sync'.queue[s] = Absent,
           \A j \in Ids : j # s => sync'.queue[j] = sync.queue[j],
           \A t \in ServerIds : sync'.fetched[t] \in {Gone, sync.fetched[t]},
           sync'.pc = "sweep" => sync'.fetched = sync.fetched,
           sync'.pc = "merge" => sync.pc = "read",
           \/ local'[s] = Absent
           \/ /\ local'[s] # Absent /\ s \in used /\ sync'.pc = "merge"
              /\ local'[s].ver \in {local[s].ver, sync.fetched[s].ver}
              /\ \/ local'[s].status = "synced" /\ local'[s].ver \in stored
                 \/ local'[s].status = "conflict"
    PROVE  CalmInv'
<1> USE CalmFacts
<1>1. s \in Ids /\ s \notin TempIds
  OBVIOUS
<1>2. form.op # "none" => form.id # s /\ form.id \in Ids
  BY CalmForm
<1>3. sync'.pc = "merge" => Queued' = {}
  BY DEF HeldIsHere, Queued
<1>4. HeldIsHere'
  BY <1>1, <1>2, <1>3 DEF HeldIsHere, Queued
<1>5. IdsInUse'
  BY <1>1 DEF IdsInUse, Here, There
<1>6. ErrorsAreGone'
  BY <1>1, AbsentIsARow DEF ErrorsAreGone, There
<1>7. AnswersAreTrue'
  BY DEF AnswersAreTrue
<1>8. FetchedIsKnown'
  BY <1>1 DEF FetchedIsKnown, Here, There, Queued
<1>9. OneItemEach'
  <2>1. \A j \in Ids, v \in Times \ {0} : Bears(j, v)' => Bears(j, v)
    BY <1>1, AbsentIsARow, GoneIsARow DEF Bears
  <2> QED BY <2>1, NobodyBearsMore
<1>10. SyncedWasStored'
  BY <1>1, AbsentIsARow DEF SyncedWasStored, There
<1> QED BY <1>4, <1>5, <1>6, <1>7, <1>8, <1>9, <1>10 DEF CalmInv

LEMMA CalmRemoveSwept ==
    ASSUME CalmInv, SyncInv', Apart', NEW i \in Ids, RemoveSwept(i)
    PROVE  CalmInv'
<1> USE CalmFacts
<1>1. /\ sync.pc = "sweep" /\ i \in Queued /\ local' = [local EXCEPT ![i] = Absent]
      /\ UNCHANGED <<remote, clock, form, used, stored>>
  BY DEF RemoveSwept
<1>2. i \in ServerIds /\ sync.id = "none"
  BY <1>1 DEF FetchedIsKnown, HeldIsHere
<1>3. local'[i] = Absent /\ \A j \in Ids : j # i => local'[j] = local[j]
  BY <1>1 DEF SyncTypeOK
<1> QED BY <1>1, <1>2, <1>3, RemoveSweptDoes, CalmPullWrites

LEMMA CalmMergeWrite ==
    ASSUME CalmInv, SyncInv', Apart', MergeWrite
    PROVE  CalmInv'
<1> USE CalmFacts
<1> DEFINE s == sync.id
           other == sync.fetched[s]
<1>1. /\ sync.pc = "read" /\ s \in ServerIds /\ s \in Ids
      /\ other \in RemoteRow /\ other # Gone
      /\ sync.row = local[s] /\ local[s] \in Row
      /\ UNCHANGED <<remote, clock, form, used, stored>>
      /\ Queued = {} /\ s # "none"
  BY MergeWrites, SyncFields, NoWordIsAnId DEF AtWork, HeldIsHere
<1>2. /\ local'[s] = Merged(local[s], other)
      /\ \A j \in Ids : j # s => local'[j] = local[j]
  BY <1>1, MergeWrites
<1>3. s \in used /\ other.ver \in stored
  BY <1>1 DEF IdsInUse, FetchedIsKnown
<1>4. /\ local'[s] # Absent
      /\ local'[s].ver \in {local[s].ver, other.ver}
      /\ \/ local'[s].status = "synced" /\ local'[s].ver \in stored
         \/ local'[s].status = "conflict"
  BY <1>1, <1>2, <1>3, MergedRow
<1>5. /\ sync'.pc = "merge" /\ sync'.id = "none" /\ sync'.queue = sync.queue
      /\ \A t \in ServerIds : sync'.fetched[t] \in {Gone, sync.fetched[t]}
      /\ sync.queue[s] = Absent
  BY <1>1, MergeWriteDoes DEF Queued
<1> HIDE DEF s, other
<1> QED BY <1>1, <1>2, <1>3, <1>4, <1>5, CalmPullWrites DEF s, other

-----------------------------------------------------------------------------
CalmNext == SyncNext /\ Apart' /\ Answered

LEMMA CalmInvInit == SyncInit => CalmInv
<1> SUFFICES ASSUME SyncInit PROVE CalmInv
  OBVIOUS
<1>1. SyncInv
  BY SyncInvInit
<1>2. /\ sync = Resting /\ form = NoForm
      /\ \A i \in Ids : local[i] = Absent /\ sync.queue[i] = Absent
      /\ \A s \in ServerIds : remote[s] = Gone /\ sync.fetched[s] = Gone
  BY RestingFields, NothingIsQueued DEF SyncInit
<1>3. HeldIsHere /\ AnswersAreTrue
  BY <1>2, RestingFields DEF HeldIsHere, AnswersAreTrue, Queued, Apart
<1>4. IdsInUse /\ ErrorsAreGone /\ SyncedWasStored
  BY <1>2, AbsentIsARow DEF IdsInUse, ErrorsAreGone, SyncedWasStored, Here, There
<1>5. FetchedIsKnown
  BY <1>2, RestingFields DEF FetchedIsKnown, There
<1>6. OneItemEach
  BY <1>2, AbsentIsARow, GoneIsARow DEF OneItemEach, Bears
<1> QED BY <1>1, <1>3, <1>4, <1>5, <1>6 DEF CalmInv

(* Time passes, or nothing happens. *)
LEMMA CalmRest ==
    ASSUME CalmInv, SyncInv', UNCHANGED <<local, remote, sync, form, used, stored>>
    PROVE  CalmInv'
<1> USE CalmFacts
<1>1. HeldIsHere' /\ IdsInUse' /\ ErrorsAreGone' /\ AnswersAreTrue'
  BY DEF HeldIsHere, Apart, Queued, IdsInUse, ErrorsAreGone, AnswersAreTrue, Here, There
<1>2. FetchedIsKnown' /\ OneItemEach' /\ SyncedWasStored'
  BY DEF FetchedIsKnown, Queued, OneItemEach, Bears, SyncedWasStored, Here, There
<1> QED BY <1>1, <1>2 DEF CalmInv

LEMMA CalmInvStep == CalmInv /\ [CalmNext]_vars => CalmInv'
<1> SUFFICES ASSUME CalmInv, [CalmNext]_vars PROVE CalmInv'
  OBVIOUS
<1>1. CASE UNCHANGED vars
  <2>1. SyncInv'
    BY <1>1, CalmFacts, SyncInvStep
  <2> QED BY <1>1, <2>1, CalmRest DEF vars
<1>2. CASE CalmNext
  <2>1. SyncInv' /\ Apart' /\ Answered /\ ~Kill
    BY <1>2, CalmFacts, SyncInvStep DEF CalmNext, Answered
  <2>2. CASE UserStep
    BY <2>1, <2>2, CalmAdd, CalmOpen, CalmEditWrite, CalmDeleteWrite DEF UserStep
  <2>3. CASE Wait
    BY <2>1, <2>3, CalmRest DEF Wait
  <2>4. CASE \E s \in ServerIds : RemoteWrite(s) \/ RemoteDelete(s)
    BY <2>1, <2>4, CalmRemoteWrite, CalmRemoteDelete
  <2>5. ASSUME NEW i \in Ids, NEW answered \in BOOLEAN,
               \/ \E s \in ServerIds : SendCreate(i, s, answered)
               \/ SendUpdate(i, answered)
               \/ SendDelete(i, answered)
               \/ SendFails(i) \/ SendNothing(i)
        PROVE  CalmInv'
    BY <2>1, <2>5, CalmSendCreate, CalmSendUpdate, CalmSendDelete, CalmSendFails
  <2>6. CASE Receive
    BY <2>1, <2>6, CalmReceiveMoves, CalmReceiveMarks
  <2>7. CASE \/ PushStart \/ Fetch \/ FetchFails \/ Sweep \/ EndSweep
             \/ (\E s \in ServerIds : MergeRead(s))
             \/ EndCycle
    BY <2>1, <2>7, CalmPhases
  <2>8. CASE MergeWrite \/ \E i \in Ids : RemoveSwept(i)
    BY <2>1, <2>8, CalmMergeWrite, CalmRemoveSwept
  <2>9. CASE EngineStep
    BY <2>5, <2>6, <2>7, <2>8, <2>9 DEF EngineStep
  <2>10. CASE RemoteStep
    BY <2>3, <2>4, <2>10 DEF RemoteStep
  <2> QED BY <1>2, <2>1, <2>2, <2>9, <2>10 DEF CalmNext, SyncNext
<1> QED BY <1>1, <1>2

LEMMA CalmInvariant == CalmSpec => []CalmInv
<1>1. CalmSpec => SyncInit /\ [][CalmNext]_vars
  BY DEF CalmSpec, CalmNext
<1> QED BY <1>1, CalmInvInit, CalmInvStep, PTL

(* In calm surroundings, what the device shows as synced is a content the  *)
(* server has had, unless the item was deleted there meanwhile.            *)
THEOREM SyncedMeansStored == CalmSpec => []SyncedWasStored
<1>1. CalmInv => SyncedWasStored
  BY DEF CalmInv
<1> QED BY <1>1, CalmInvariant, PTL

(* In calm surroundings, a push and the answer to it never leave an item   *)
(* twice on the device, under its temporary id and the server's, nor twice *)
(* on the server.                                                          *)
THEOREM ItemsAreNotDoubled == CalmSpec => []NoDoubles
<1>1. CalmInv => NoDoubles
  <2> SUFFICES ASSUME CalmInv PROVE NoDoubles
    OBVIOUS
  <2> USE CalmFacts
  <2>1. ASSUME NEW i \in Ids, NEW j \in Ids, Here(i), Here(j), local[i].ver = local[j].ver,
               i # j
        PROVE  FALSE
    <3>1. local[i].ver \in Times \ {0}
      BY <2>1, SyncFields, RowFields DEF Here
    <3>2. sync.pc = "sent" /\ {i, j} = {sync.id, sync.reply}
      BY <2>1, <3>1 DEF OneItemEach, Bears
    <3>3. sync.reply \in ServerIds
      BY <3>2, SyncFields, NoWordIsAnId DEF AtWork, AnswersAreTrue
    <3> QED BY <2>1, <3>2, <3>3 DEF AnswersAreTrue
  <2>2. ASSUME NEW s \in ServerIds, NEW t \in ServerIds, There(s), There(t),
               remote[s].ver = remote[t].ver, s # t
        PROVE  FALSE
    <3>1. remote[s].ver \in Times \ {0}
      BY <2>2, SyncFields, RemoteRowFields DEF There
    <3>2. sync.pc = "sent" /\ {s, t} = {sync.id, sync.reply} /\ s \in Ids /\ t \in Ids
      BY <2>2, <3>1 DEF OneItemEach, Bears
    <3> QED BY <2>2, <3>2 DEF AnswersAreTrue
  <2> QED BY <2>1, <2>2 DEF NoDoubles
<1> QED BY <1>1, CalmInvariant, PTL

(* What a step of the pull does to one row the user has changed. *)
LEMMA PullStep ==
    ASSUME CalmInv, [CalmNext]_vars, NEW i \in Ids,
           sync.pc \in {"sweep", "read"},
           local[i].status \in {"pendingCreate", "pendingUpdate", "conflict"},
           local'[i].ver # local[i].ver,
           UNCHANGED <<clock, form>>
    PROVE  \/ local'[i].time > local[i].time + Tolerance
           \/ local'[i] = Absent /\ i \in ServerIds /\ ~There(i)
<1> USE CalmFacts
<1>1. local' # local
  OBVIOUS
<1>2. MergeWrite \/ \E j \in Ids : RemoveSwept(j)
  <2>1. ~UserStep
    <3>1. clock + 1 # clock
      BY VersionsAreTimes
    <3>2. form.op # "none" => form # NoForm
      BY RestingFields
    <3> QED BY <1>1, <3>1, <3>2 DEF UserStep, Add, Tick, Now, Open, EditWrite, DeleteWrite
  <2>2. ~RemoteStep
    BY <1>1 DEF RemoteStep, Wait, RemoteWrite, RemoteDelete
  <2>3. ~Kill
    BY <1>1 DEF CalmNext, Answered, vars
  <2>4. EngineStep
    BY <1>1, <2>1, <2>2, <2>3 DEF CalmNext, SyncNext, vars
  <2> QED BY <1>1, <2>4 DEF EngineStep, PushStart, SendCreate, SendUpdate, SendDelete,
             SendFails, SendNothing, Receive, Fetch, FetchFails, Sweep, EndSweep,
             MergeRead, EndCycle
<1>3. CASE MergeWrite
  <2>1. /\ sync.pc = "read" /\ i = sync.id /\ sync.row = local[i]
        /\ local[i] # Absent /\ sync.fetched[i] # Gone /\ i \in ServerIds
        /\ local'[i] = Merged(local[i], sync.fetched[i])
    BY <1>3, MergeWrites, AbsentIsARow DEF HeldIsHere, AtWork
  <2>2. local[i] \in Row /\ sync.fetched[i] \in RemoteRow
    BY <2>1, SyncFields
  <2> QED BY <2>1, <2>2, MergedRow
<1>4. ASSUME NEW j \in Ids, RemoveSwept(j)
      PROVE  local'[i] = Absent /\ i \in ServerIds /\ ~There(i)
  <2>1. /\ sync.pc = "sweep" /\ j \in Queued /\ local' = [local EXCEPT ![j] = Absent]
    BY <1>4 DEF RemoveSwept
  <2>2. i = j /\ local'[i] = Absent /\ local[i] # Absent
    BY <2>1, AbsentIsARow DEF SyncTypeOK
  <2> QED BY <2>1, <2>2 DEF FetchedIsKnown, Here
<1> QED BY <1>2, <1>3, <1>4

(* In calm surroundings, the pull that follows a push replaces what the    *)
(* user has changed meanwhile only by what is newer by more than the       *)
(* tolerance, and removes it only when it is gone on the server.           *)
THEOREM PullKeepsTheEdits == CalmSpec => PullKeepsEdits
<1> DEFINE Kept ==
      \A i \in Ids :
          /\ sync.pc \in {"sweep", "read"}
          /\ local[i].status \in {"pendingCreate", "pendingUpdate", "conflict"}
          /\ local'[i].ver # local[i].ver
          /\ UNCHANGED <<clock, form>>
          => \/ local'[i].time > local[i].time + Tolerance
             \/ local'[i] = Absent /\ i \in ServerIds /\ ~There(i)
<1>1. CalmSpec => SyncInit /\ [][CalmNext]_vars
  BY DEF CalmSpec, CalmNext
<1>2. CalmInv /\ [CalmNext]_vars => [Kept]_vars
  BY PullStep
<1>3. PullKeepsEdits <=> [][Kept]_vars
  BY DEF PullKeepsEdits
<1> HIDE DEF Kept
<1> QED BY <1>1, <1>2, <1>3, CalmInvariant, PTL
=============================================================================
