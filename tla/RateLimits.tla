----------------------------- MODULE RateLimits -----------------------------
(***************************************************************************)
(* The counters of attempts that Login, ResendVerificationCode and         *)
(* VerifyEmail keep in the memory cache of pkg/cache: Increment against    *)
(* Delete and the janitor.                                                 *)
(*                                                                         *)
(* Increment holds a lock from its load to its store.  Delete and the      *)
(* janitor do not take it, and the janitor deletes by key what it has seen *)
(* expired.  How long a window lasts is left open: it may end at any time. *)
(***************************************************************************)
EXTENDS Naturals

CONSTANTS Counters,     \* the keys: an operation and an e-mail address
          Attempts,     \* requests the server works on at the same time
          NoAttempt,    \* in the place of the holder of the lock
          NoCounter,    \* in the place of the key the janitor is at
          MaxAttempts   \* maxLoginAttempts, maxResendAttempts, maxVerifyAttempts

ASSUME NobodyAssumption == NoAttempt \notin Attempts /\ NoCounter \notin Counters
ASSUME LimitAssumption == MaxAttempts \in Nat

VARIABLES
  count,    \* the entries; 0 is none
  running,  \* the keys whose window still runs
  lock,     \* the mutex of Increment
  janitor,  \* the key the janitor has seen expired
  attempt,  \* what each running request has loaded
  passed,   \* history: attempts let through in the window of a counter
  strayed   \* history: keys the janitor has deleted after they were renewed

limitVars == <<count, running, lock, janitor, attempt, passed, strayed>>

\* Counts above the limit are all alike.
Counted == 0 .. MaxAttempts + 1

\* seen is the count loaded; 0 starts a window.
Attempt == [at : {"counting", "storing"}, key : Counters, seen : Counted]
AttemptIdle == [at |-> "idle"]

LimitsInit ==
  /\ count = [k \in Counters |-> 0]
  /\ running = {}
  /\ lock = NoAttempt
  /\ janitor = NoCounter
  /\ attempt = [r \in Attempts |-> AttemptIdle]
  /\ passed = [k \in Counters |-> 0]
  /\ strayed = {}

BeginAttempt(r, k) ==
  /\ attempt[r].at = "idle"
  /\ attempt' = [attempt EXCEPT ![r] = [at |-> "counting", key |-> k, seen |-> 0]]
  /\ UNCHANGED <<count, running, lock, janitor, passed, strayed>>

\* Increment without its lock:
LockIsLeft == TRUE

\* ... and as the code waits for it.
LockIsFree == lock = NoAttempt

\* The load: an expired entry counts as none.
IncrementLoad(r) ==
  /\ attempt[r].at = "counting"
  /\ LockIsFree
  /\ lock' = r
  /\ LET k == attempt[r].key
     IN  attempt' = [attempt EXCEPT ![r] = [at |-> "storing", key |-> k,
                                            seen |-> IF k \in running THEN count[k] ELSE 0]]
  /\ UNCHANGED <<count, running, janitor, passed, strayed>>

NewCount(seen) == IF seen > MaxAttempts THEN seen ELSE seen + 1

LetsThrough(n) == n <= MaxAttempts

\* The store, and the caller's comparison with the limit.  A window that goes
\* on keeps its end, which may have come since the load.
IncrementStore(r) ==
  /\ attempt[r].at = "storing"
  /\ LET k == attempt[r].key
         starts == attempt[r].seen = 0
         new == NewCount(attempt[r].seen)
     IN  /\ count' = [count EXCEPT ![k] = new]
         /\ running' = IF starts THEN running \union {k} ELSE running
         /\ passed' = [passed EXCEPT ![k] = (IF starts THEN 0 ELSE @)
                                               + (IF LetsThrough(new) THEN 1 ELSE 0)]
  /\ attempt' = [attempt EXCEPT ![r] = AttemptIdle]
  /\ lock' = NoAttempt
  /\ UNCHANGED <<janitor, strayed>>

\* ClearRateLimit, and VerifyEmail when it is through: the counting starts anew.
DeleteCounter(k) ==
  /\ count' = [count EXCEPT ![k] = 0]
  /\ passed' = [passed EXCEPT ![k] = 0]
  /\ UNCHANGED <<running, lock, janitor, attempt, strayed>>

WindowEnds(k) ==
  /\ k \in running
  /\ running' = running \ {k}
  /\ UNCHANGED <<count, lock, janitor, attempt, passed, strayed>>

\* The janitor's Range comes to an item that has expired ...
JanitorSees(k) ==
  /\ janitor = NoCounter
  /\ count[k] # 0 /\ k \notin running
  /\ janitor' = k
  /\ UNCHANGED <<count, running, lock, attempt, passed, strayed>>

\* ... and deletes its key, whatever is under it by then.
JanitorDeletes ==
  /\ janitor # NoCounter
  /\ count' = [count EXCEPT ![janitor] = 0]
  /\ strayed' = IF janitor \in running THEN strayed \union {janitor} ELSE strayed
  /\ janitor' = NoCounter
  /\ UNCHANGED <<running, lock, attempt, passed>>

Counting(r) == (\E k \in Counters : BeginAttempt(r, k)) \/ IncrementLoad(r) \/ IncrementStore(r)

Sweeping == (\E k \in Counters : WindowEnds(k) \/ JanitorSees(k)) \/ JanitorDeletes

LimitsNext ==
  \/ \E r \in Attempts : Counting(r)
  \/ \E k \in Counters : DeleteCounter(k)
  \/ Sweeping

LimitsSpec == LimitsInit /\ [][LimitsNext]_limitVars

LimitsTypeOK ==
  /\ count \in [Counters -> Counted]
  /\ running \subseteq Counters
  /\ lock \in Attempts \union {NoAttempt}
  /\ janitor \in Counters \union {NoCounter}
  /\ attempt \in [Attempts -> Attempt \union {AttemptIdle}]
  /\ passed \in [Counters -> Nat]
  /\ strayed \subseteq Counters

(***************************************************************************)
(* In a window no more attempts are let through than the limit, however    *)
(* requests, deletions, the janitor and the end of the window fall - as    *)
(* long as the janitor has not deleted a counter that was new again.       *)
(***************************************************************************)
AttemptsAreBounded == \A k \in Counters \ strayed : passed[k] <= MaxAttempts
=============================================================================
