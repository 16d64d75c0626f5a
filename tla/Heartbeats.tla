----------------------------- MODULE Heartbeats -----------------------------
(***************************************************************************)
(* Counts of viewed screens, which every device of a user reports with its *)
(* heartbeat (backend/internal/heartbeat): the stored counts are read,     *)
(* raised to the reported ones, and stored as a whole.  A read that fails  *)
(* passes for that of a user who has no counts yet.                        *)
(***************************************************************************)
EXTENDS Naturals

CONSTANTS Viewers,   \* users
          Views,     \* screens
          Beats,     \* heartbeats the server works on at the same time
          MaxCount   \* bound on the counts reported

VARIABLES
    viewStats, \* heartbeats: view_stats; a screen without an entry counts 0
    beat       \* what each running heartbeat has read

beatVars == <<viewStats, beat>>

ASSUME CountIsBounded == MaxCount \in Nat

Counts == [Views -> 0 .. MaxCount]
BeatIdle == [op |-> "idle"]
(* `fresh' is history: what was read are the counts of the table - the read *)
(* has not failed, and nobody has stored counts of the user since.          *)
Beat == [op : {"beat"}, user : Viewers, report : Counts, read : Counts, fresh : BOOLEAN]
            \union {BeatIdle}

BeatsTypeOK ==
    /\ viewStats \in [Viewers -> Counts]
    /\ beat \in [Beats -> Beat]

BeatsInit ==
    /\ viewStats = [u \in Viewers |-> [v \in Views |-> 0]]
    /\ beat = [r \in Beats |-> BeatIdle]

Beating(r) == beat[r].op = "beat"

NoCounts == [v \in Views |-> 0]

(* GetByUserID, which may fail: no row and an error are answered alike.    *)
HeartbeatRead(r, u, report) ==
    /\ beat[r] = BeatIdle
    /\ \E failed \in BOOLEAN :
          beat' = [beat EXCEPT ![r] = [op |-> "beat", user |-> u, report |-> report,
                                      read |-> IF failed THEN NoCounts ELSE viewStats[u],
                                      fresh |-> ~failed]]
    /\ UNCHANGED viewStats

(* The greater of both; and the reported one.                              *)
Reported(q) == q.report
Raised(q) == [v \in Views |-> IF q.report[v] > q.read[v] THEN q.report[v] ELSE q.read[v]]

HeartbeatUpsert(r) ==
    LET q == beat[r] IN
    /\ Beating(r)
    /\ viewStats' = [viewStats EXCEPT ![q.user] = Raised(q)]
    /\ beat' = [s \in Beats |->
                   IF s = r THEN BeatIdle
                   ELSE IF Beating(s) /\ beat[s].user = q.user THEN [beat[s] EXCEPT !.fresh = FALSE]
                   ELSE beat[s]]

HeartbeatFails(r) ==
    /\ Beating(r)
    /\ beat' = [beat EXCEPT ![r] = BeatIdle]
    /\ UNCHANGED viewStats

PostHeartbeat(r) == \E u \in Viewers, report \in Counts : HeartbeatRead(r, u, report)

BeatsNext == \E r \in Beats : PostHeartbeat(r) \/ HeartbeatUpsert(r) \/ HeartbeatFails(r)

BeatsSpec == BeatsInit /\ [][BeatsNext]_beatVars

-----------------------------------------------------------------------------
(* "Server-side win": counts only grow, whatever a device that lags behind *)
(* reports.  Only a heartbeat that did not go by the counts of the table   *)
(* lowers any: another one of the user has stored after its read, or the   *)
(* read failed and it stores what was reported alone (HandleHeartbeat).    *)
CountsGrow ==
    [][\A u \in Viewers, v \in Views :
          viewStats'[u][v] < viewStats[u][v] =>
              \E r \in Beats : Beating(r) /\ beat[r].user = u /\ ~beat[r].fresh /\ beat'[r] = BeatIdle]_beatVars

FreshIsCurrent ==
    \A r \in Beats : Beating(r) /\ beat[r].fresh => beat[r].read = viewStats[beat[r].user]

(* The inductive strengthening.                                            *)
BeatsInv == BeatsTypeOK /\ FreshIsCurrent
=============================================================================
