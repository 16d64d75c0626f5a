-------------------------- MODULE ServicesProofs --------------------------
(***************************************************************************)
(* What Services promises, for every set of rows, uploads, requests, keys, *)
(* codes and overlaps of them: each part from an inductive invariant of    *)
(* its own.  First what is kept in memory: the counters of attempts, the   *)
(* verification codes and the copy of the flags.  Then gear sets, lists,   *)
(* heartbeats and the way of a request to a service.                       *)
(***************************************************************************)
EXTENDS Services, TLAPS

(* The counters of attempts.                                               *)
Storing(r) == attempt[r].at = "storing"

StoringHolds == \A r \in Attempts : Storing(r) => lock = r

\* What was let through in a window is counted in it, or in what was loaded.
PassedIsCounted ==
  \A k \in Counters \ strayed :
      /\ k \in running => passed[k] <= count[k]
      /\ \A r \in Attempts : Storing(r) /\ attempt[r].key = k /\ attempt[r].seen # 0 =>
             passed[k] <= attempt[r].seen

LimitsInv == LimitsTypeOK /\ StoringHolds /\ PassedIsCounted /\ AttemptsAreBounded

LEMMA AttemptKinds ==
    ASSUME LimitsTypeOK, NEW r \in Attempts, attempt[r].at # "idle"
    PROVE  attempt[r] \in Attempt
BY DEF LimitsTypeOK, AttemptIdle

LEMMA CountsAreNat == Counted \subseteq Nat /\ 0 \in Counted /\ MaxAttempts + 1 \in Nat
BY LimitAssumption DEF Counted

LEMMA LimitsInvInit == LimitsInit => LimitsInv
BY LimitAssumption, CountsAreNat DEF LimitsInit, LimitsInv, LimitsTypeOK, StoringHolds,
    PassedIsCounted, AttemptsAreBounded, Storing, AttemptIdle

LEMMA BeginAttemptKeeps ==
    ASSUME LimitsInv, NEW r \in Attempts, NEW k \in Counters, BeginAttempt(r, k)
    PROVE  LimitsInv'
<1>1. /\ attempt'[r] = [at |-> "counting", key |-> k, seen |-> 0]
      /\ \A s \in Attempts : s # r => attempt'[s] = attempt[s]
      /\ attempt' \in [Attempts -> Attempt \union {AttemptIdle}]
    BY CountsAreNat DEF BeginAttempt, LimitsInv, LimitsTypeOK, Attempt
<1>2. \A s \in Attempts : Storing(s)' => Storing(s) /\ attempt'[s] = attempt[s]
    BY <1>1 DEF Storing
<1> QED BY <1>1, <1>2 DEF BeginAttempt, LimitsInv, LimitsTypeOK, StoringHolds, PassedIsCounted,
                          AttemptsAreBounded

LEMMA IncrementLoadKeeps ==
    ASSUME LimitsInv, NEW r \in Attempts, IncrementLoad(r)
    PROVE  LimitsInv'
<1> DEFINE k == attempt[r].key
           seen == IF k \in running THEN count[k] ELSE 0
<1>0. LimitsTypeOK /\ StoringHolds /\ PassedIsCounted /\ AttemptsAreBounded
    BY DEF LimitsInv
<1>1. attempt[r] \in Attempt /\ k \in Counters /\ seen \in Counted
    BY <1>0, AttemptKinds, CountsAreNat DEF IncrementLoad, Attempt, LimitsTypeOK
<1>2. /\ attempt' = [attempt EXCEPT ![r] = [at |-> "storing", key |-> k, seen |-> seen]]
      /\ lock = NoAttempt /\ lock' = r
      /\ UNCHANGED <<count, running, janitor, passed, strayed>>
    BY DEF IncrementLoad, LockIsFree
<1>3. seen # 0 => k \in running /\ seen = count[k]
    OBVIOUS
<1> HIDE DEF k, seen
<1>4. /\ attempt' \in [Attempts -> Attempt \union {AttemptIdle}]
      /\ attempt'[r] = [at |-> "storing", key |-> k, seen |-> seen]
      /\ \A s \in Attempts : s # r => attempt'[s] = attempt[s]
    BY <1>0, <1>1, <1>2 DEF LimitsTypeOK, Attempt
<1>5. \A s \in Attempts : ~Storing(s)
    BY <1>0, <1>2, NobodyAssumption DEF StoringHolds
<1>6. \A s \in Attempts : Storing(s)' => s = r
    BY <1>4, <1>5 DEF Storing
<1>7. LimitsTypeOK' /\ StoringHolds' /\ AttemptsAreBounded'
    BY <1>0, <1>2, <1>4, <1>6 DEF LimitsTypeOK, StoringHolds, AttemptsAreBounded
<1>8. PassedIsCounted'
    BY <1>0, <1>2, <1>3, <1>4, <1>6 DEF PassedIsCounted
<1> QED BY <1>7, <1>8 DEF LimitsInv

LEMMA IncrementStoreKeeps ==
    ASSUME LimitsInv, NEW r \in Attempts, IncrementStore(r)
    PROVE  LimitsInv'
<1> DEFINE k == attempt[r].key
           seen == attempt[r].seen
           new == NewCount(seen)
           through == (IF seen = 0 THEN 0 ELSE passed[k]) + (IF LetsThrough(new) THEN 1 ELSE 0)
<1>0. LimitsTypeOK /\ StoringHolds /\ PassedIsCounted /\ AttemptsAreBounded
    BY DEF LimitsInv
<1>1. attempt[r] \in Attempt /\ k \in Counters /\ seen \in Counted /\ Storing(r)
    BY <1>0, AttemptKinds DEF IncrementStore, Attempt, Storing
<1>2. /\ count' = [count EXCEPT ![k] = new]
      /\ running' = IF seen = 0 THEN running \union {k} ELSE running
      /\ passed' = [passed EXCEPT ![k] = through]
      /\ attempt' = [attempt EXCEPT ![r] = AttemptIdle]
      /\ lock' = NoAttempt
      /\ UNCHANGED <<janitor, strayed>>
    BY DEF IncrementStore
<1>3. passed[k] \in Nat /\ (k \notin strayed => passed[k] <= MaxAttempts)
    BY <1>0, <1>1 DEF LimitsTypeOK, AttemptsAreBounded
<1>4. k \notin strayed /\ seen # 0 => passed[k] <= seen
    BY <1>0, <1>1 DEF PassedIsCounted
<1>5. new \in Counted /\ new \in Nat /\ through \in Nat
    BY <1>1, <1>3, LimitAssumption DEF NewCount, Counted, LetsThrough
<1>6. k \notin strayed => through <= new /\ through <= MaxAttempts
    BY <1>1, <1>3, <1>4, LimitAssumption DEF NewCount, Counted, LetsThrough
<1> HIDE DEF k, seen, new, through
<1>7. /\ count'[k] = new /\ passed'[k] = through
      /\ \A j \in Counters : j # k => count'[j] = count[j] /\ passed'[j] = passed[j] /\ (j \in running' => j \in running)
      /\ \A s \in Attempts : s # r => attempt'[s] = attempt[s]
      /\ attempt'[r] = AttemptIdle
    BY <1>0, <1>1, <1>2 DEF LimitsTypeOK
<1>8. \A s \in Attempts : ~Storing(s)'
    BY <1>0, <1>1, <1>7 DEF StoringHolds, Storing, AttemptIdle
<1>9. LimitsTypeOK'
    BY <1>0, <1>1, <1>2, <1>5 DEF LimitsTypeOK
<1>10. StoringHolds' /\ PassedIsCounted'
    BY <1>0, <1>1, <1>2, <1>6, <1>7, <1>8 DEF StoringHolds, PassedIsCounted
<1>11. AttemptsAreBounded'
    BY <1>0, <1>2, <1>6, <1>7 DEF AttemptsAreBounded
<1> QED BY <1>9, <1>10, <1>11 DEF LimitsInv

LEMMA DeleteCounterKeeps ==
    ASSUME LimitsInv, NEW k \in Counters, DeleteCounter(k)
    PROVE  LimitsInv'
<1>0. LimitsTypeOK /\ StoringHolds /\ PassedIsCounted /\ AttemptsAreBounded
    BY DEF LimitsInv
<1>1. /\ count' = [count EXCEPT ![k] = 0] /\ passed' = [passed EXCEPT ![k] = 0]
      /\ UNCHANGED <<running, lock, janitor, attempt, strayed>>
    BY DEF DeleteCounter
<1>2. /\ count'[k] = 0 /\ passed'[k] = 0
      /\ \A j \in Counters : j # k => count'[j] = count[j] /\ passed'[j] = passed[j]
    BY <1>0, <1>1 DEF LimitsTypeOK
<1>3. LimitsTypeOK' /\ StoringHolds'
    BY <1>0, <1>1, CountsAreNat DEF LimitsTypeOK, StoringHolds, Storing
<1>4. AttemptsAreBounded'
    BY <1>0, <1>1, <1>2, LimitAssumption DEF AttemptsAreBounded
<1>5. PassedIsCounted'
  <2> SUFFICES ASSUME NEW j \in Counters, j \notin strayed
               PROVE  /\ j \in running => passed'[j] <= count'[j]
                      /\ \A s \in Attempts : Storing(s) /\ attempt[s].key = j /\ attempt[s].seen # 0 =>
                             passed'[j] <= attempt[s].seen
      BY <1>1 DEF PassedIsCounted, Storing
  <2>1. CASE j # k
      BY <2>1, <1>0, <1>2 DEF PassedIsCounted
  <2>2. CASE j = k
    <3>1. \A s \in Attempts : Storing(s) => attempt[s].seen \in Nat
        BY <1>0, AttemptKinds, CountsAreNat DEF Storing, Attempt
    <3> QED BY <2>2, <3>1, <1>2
  <2> QED BY <2>1, <2>2
<1> QED BY <1>3, <1>4, <1>5 DEF LimitsInv

LEMMA SweepingKeeps ==
    ASSUME LimitsInv, Sweeping
    PROVE  LimitsInv'
<1>0. LimitsTypeOK /\ StoringHolds /\ PassedIsCounted /\ AttemptsAreBounded
    BY DEF LimitsInv
<1>1. ASSUME NEW k \in Counters, WindowEnds(k) \/ JanitorSees(k)
      PROVE  LimitsInv'
  <2>1. /\ UNCHANGED <<count, lock, attempt, passed, strayed>>
        /\ running' \subseteq running
        /\ janitor' \in Counters \union {NoCounter}
      BY <1>0, <1>1 DEF WindowEnds, JanitorSees, LimitsTypeOK
  <2> QED BY <2>1, <1>0 DEF LimitsInv, LimitsTypeOK, StoringHolds, PassedIsCounted,
                            AttemptsAreBounded, Storing
<1>2. ASSUME JanitorDeletes
      PROVE  LimitsInv'
  <2>1. /\ janitor \in Counters
        /\ count' = [count EXCEPT ![janitor] = 0]
        /\ strayed' = IF janitor \in running THEN strayed \union {janitor} ELSE strayed
        /\ janitor' = NoCounter
        /\ UNCHANGED <<running, lock, attempt, passed>>
      BY <1>0, <1>2 DEF JanitorDeletes, LimitsTypeOK
  <2>2. \A j \in Counters : j \in running /\ j \notin strayed' => count'[j] = count[j]
      BY <1>0, <2>1 DEF LimitsTypeOK
  <2>3. LimitsTypeOK' /\ StoringHolds' /\ AttemptsAreBounded'
      BY <1>0, <2>1, CountsAreNat DEF LimitsTypeOK, StoringHolds, Storing, AttemptsAreBounded
  <2>4. PassedIsCounted'
      BY <1>0, <2>1, <2>2 DEF PassedIsCounted, Storing
  <2> QED BY <2>3, <2>4 DEF LimitsInv
<1> QED BY <1>1, <1>2 DEF Sweeping

LEMMA LimitsInvStep == LimitsInv /\ [LimitsNext]_limitVars => LimitsInv'
<1>1. ASSUME LimitsInv, UNCHANGED limitVars
      PROVE  LimitsInv'
    BY <1>1 DEF limitVars, LimitsInv, LimitsTypeOK, StoringHolds, PassedIsCounted,
                AttemptsAreBounded, Storing
<1> QED BY <1>1, BeginAttemptKeeps, IncrementLoadKeeps, IncrementStoreKeeps, DeleteCounterKeeps,
           SweepingKeeps DEF LimitsNext, Counting

-----------------------------------------------------------------------------
(* The copy of the flags.                                                  *)

\* A flag only one request sets is, in the table, what that request wrote.
SettersWrote ==
  \A f \in Flags \ tangled : \A r \in Setting(f) :
      setter[r].value = row[f] /\ Setting(f) = {r}

\* What was loaded is still so for the flags nobody sets.
LoadedIsRow == \A f \in Flags \ tangled : loading /\ Setting(f) = {} => loaded[f] = row[f]

FlagsInv == FlagsTypeOK /\ SettersWrote /\ LoadedIsRow /\ CopyAgrees

LEMMA FlagsInvInit == FlagsInit => FlagsInv
<1> SUFFICES ASSUME FlagsInit
             PROVE  FlagsInv
    OBVIOUS
<1>1. \A f \in Flags : Setting(f) = {} /\ copy[f] = "none"
    BY NoFlagAssumption DEF FlagsInit, Setting, SetterIdle, Unknown
<1>2. FlagsTypeOK
    BY DEF FlagsInit, FlagsTypeOK, Setter, Values, Unknown
<1> QED BY <1>1, <1>2 DEF FlagsInit, FlagsInv, SettersWrote, LoadedIsRow, CopyAgrees

(* A request that stops setting leaves the other requests to a flag.       *)
LEMMA StopSetting ==
    ASSUME FlagsTypeOK, NEW r \in Setters, setter' = [setter EXCEPT ![r] = SetterIdle]
    PROVE  /\ setter' \in [Setters -> Setter]
           /\ \A f \in Flags : Setting(f)' = Setting(f) \ {r}
           /\ \A s \in Setters : s # r => setter'[s] = setter[s]
<1>1. SetterIdle \in Setter /\ SetterIdle.flag \notin Flags
    BY NoFlagAssumption DEF SetterIdle, Setter, Values
<1>2. setter'[r] = SetterIdle /\ \A s \in Setters : s # r => setter'[s] = setter[s]
    BY DEF FlagsTypeOK
<1>3. ASSUME NEW f \in Flags
      PROVE  Setting(f)' = Setting(f) \ {r}
    BY <1>1, <1>2 DEF Setting
<1> QED BY <1>1, <1>2, <1>3 DEF FlagsTypeOK

LEMMA SetterFlags ==
    ASSUME FlagsTypeOK, NEW r \in Setters, setter[r] # SetterIdle
    PROVE  setter[r] \in Setter
BY DEF FlagsTypeOK

LEMMA SetRowKeeps ==
    ASSUME FlagsInv, NEW r \in Setters, NEW f \in Flags, NEW v \in Values, SetRow(r, f, v)
    PROVE  FlagsInv'
<1>0. FlagsTypeOK /\ SettersWrote /\ LoadedIsRow /\ CopyAgrees
    BY DEF FlagsInv
<1> DEFINE w == [flag |-> f, value |-> v]
<1>1. /\ setter[r] = SetterIdle
      /\ row' = [row EXCEPT ![f] = v]
      /\ setter' = [setter EXCEPT ![r] = w]
      /\ tangled' = IF Setting(f) = {} THEN tangled ELSE tangled \union {f}
      /\ UNCHANGED <<copy, recent, missed, loading, loaded>>
    BY DEF SetRow
<1>2. w \in Setter /\ w.flag = f /\ w.value = v
    BY DEF Setter
<1>3. SetterIdle.flag \notin Flags
    BY NoFlagAssumption DEF SetterIdle
<1> HIDE DEF w
<1>4. /\ setter'[r] = w /\ \A s \in Setters : s # r => setter'[s] = setter[s]
      /\ row'[f] = v /\ \A g \in Flags : g # f => row'[g] = row[g]
    BY <1>0, <1>1 DEF FlagsTypeOK
<1>5. /\ Setting(f)' = Setting(f) \union {r}
      /\ \A g \in Flags : g # f => Setting(g)' = Setting(g) /\ r \notin Setting(g)
    BY <1>1, <1>2, <1>3, <1>4 DEF Setting
<1>6. FlagsTypeOK'
    BY <1>0, <1>1, <1>2 DEF FlagsTypeOK
<1>7. ASSUME NEW g \in Flags, g \notin tangled'
      PROVE  /\ \A s \in Setting(g)' : setter'[s].value = row'[g] /\ Setting(g)' = {s}
             /\ loading' /\ Setting(g)' = {} => loaded'[g] = row'[g]
             /\ ~loading' /\ Setting(g)' = {} /\ copy'[g] # "none" => copy'[g] = row'[g]
  <2>1. CASE g = f
      BY <2>1, <1>1, <1>2, <1>4, <1>5, <1>7
  <2>2. CASE g # f
    <3>1. g \notin tangled /\ Setting(g)' = Setting(g) /\ row'[g] = row[g] /\ r \notin Setting(g)
        BY <2>2, <1>1, <1>4, <1>5, <1>7
    <3>2. \A s \in Setting(g) : setter'[s] = setter[s]
        BY <3>1, <1>4 DEF Setting
    <3> QED BY <3>1, <3>2, <1>0, <1>1 DEF SettersWrote, LoadedIsRow, CopyAgrees
  <2> QED BY <2>1, <2>2
<1>8. SettersWrote' /\ LoadedIsRow' /\ CopyAgrees'
    BY <1>7 DEF SettersWrote, LoadedIsRow, CopyAgrees
<1> QED BY <1>6, <1>8 DEF FlagsInv

LEMMA SetCopyKeeps ==
    ASSUME FlagsInv, NEW r \in Setters, SetCopy(r)
    PROVE  FlagsInv'
<1>0. FlagsTypeOK /\ SettersWrote /\ LoadedIsRow /\ CopyAgrees
    BY DEF FlagsInv
<1> DEFINE f == setter[r].flag
<1>1. /\ setter[r] # SetterIdle /\ ~loading
      /\ copy' = [copy EXCEPT ![f] = setter[r].value]
      /\ setter' = [setter EXCEPT ![r] = SetterIdle]
      /\ UNCHANGED <<row, recent, missed, loading, loaded, tangled>>
    BY DEF SetCopy, CopyIsFree
<1>2. setter[r].value \in Values
    BY <1>0, <1>1, SetterFlags DEF Setter
<1>3. /\ setter' \in [Setters -> Setter]
      /\ \A g \in Flags : Setting(g)' = Setting(g) \ {r}
      /\ \A s \in Setters : s # r => setter'[s] = setter[s]
    BY <1>0, <1>1, StopSetting
<1>4. FlagsTypeOK'
    BY <1>0, <1>1, <1>2, <1>3 DEF FlagsTypeOK
<1>5. \A g \in Flags : copy'[g] = IF g = f THEN setter[r].value ELSE copy[g]
    BY <1>0, <1>1 DEF FlagsTypeOK
<1>6. \A g \in Flags : g = f <=> r \in Setting(g)
    BY DEF Setting
<1>7. SettersWrote' /\ LoadedIsRow'
    BY <1>0, <1>1, <1>3 DEF SettersWrote, LoadedIsRow
<1>8. CopyAgrees'
  <2> SUFFICES ASSUME NEW g \in Flags, g \notin tangled, Setting(g)' = {}, copy'[g] # "none"
               PROVE  copy'[g] = row[g]
      BY <1>1 DEF CopyAgrees
  <2>1. CASE g = f
      BY <2>1, <1>0, <1>5, <1>6 DEF SettersWrote
  <2>2. CASE g # f
      BY <2>2, <1>0, <1>1, <1>3, <1>5, <1>6 DEF CopyAgrees
  <2> QED BY <2>1, <2>2
<1> QED BY <1>4, <1>7, <1>8 DEF FlagsInv

LEMMA SetIsLostKeeps ==
    ASSUME FlagsInv, NEW r \in Setters, SetIsLost(r)
    PROVE  FlagsInv'
<1>0. FlagsTypeOK /\ SettersWrote /\ LoadedIsRow /\ CopyAgrees
    BY DEF FlagsInv
<1> DEFINE f == setter[r].flag
<1>1. /\ setter[r] # SetterIdle
      /\ tangled' = tangled \union {f}
      /\ setter' = [setter EXCEPT ![r] = SetterIdle]
      /\ UNCHANGED <<row, copy, recent, missed, loading, loaded>>
    BY DEF SetIsLost
<1>2. /\ setter' \in [Setters -> Setter]
      /\ \A g \in Flags : Setting(g)' = Setting(g) \ {r}
      /\ \A s \in Setters : s # r => setter'[s] = setter[s]
    BY <1>0, <1>1, StopSetting
<1>3. \A g \in Flags : g = f <=> r \in Setting(g)
    BY DEF Setting
<1>4. SettersWrote' /\ LoadedIsRow' /\ CopyAgrees'
    BY <1>0, <1>1, <1>2, <1>3 DEF SettersWrote, LoadedIsRow, CopyAgrees
<1>5. f \in Flags
    BY <1>0, <1>1, SetterFlags DEF Setter, SetterIdle
<1>6. FlagsTypeOK'
    BY <1>0, <1>1, <1>2, <1>5 DEF FlagsTypeOK
<1> QED BY <1>4, <1>6 DEF FlagsInv

LEMMA LoadReadKeeps ==
    ASSUME FlagsInv, LoadRead
    PROVE  FlagsInv'
BY DEF FlagsInv, FlagsTypeOK, SettersWrote, LoadedIsRow, CopyAgrees, LoadRead, CopyIsFree, Setting, Values

LEMMA LoadStoreKeeps ==
    ASSUME FlagsInv, LoadStore
    PROVE  FlagsInv'
BY DEF FlagsInv, FlagsTypeOK, SettersWrote, LoadedIsRow, CopyAgrees, LoadStore, Setting, Unknown

LEMMA FlagsRestartKeeps ==
    ASSUME FlagsInv, FlagsRestart
    PROVE  FlagsInv'
<1>1. SetterIdle \in Setter /\ SetterIdle.flag \notin Flags
    BY NoFlagAssumption DEF SetterIdle, Setter, Values
<1>2. \A g \in Flags : Setting(g)' = {}
    BY <1>1 DEF FlagsRestart, Setting
<1>3. FlagsTypeOK'
    BY <1>1 DEF FlagsInv, FlagsTypeOK, FlagsRestart, Unknown
<1>4. SettersWrote' /\ LoadedIsRow' /\ CopyAgrees'
    BY <1>2 DEF SettersWrote, LoadedIsRow, CopyAgrees, FlagsRestart, Unknown
<1> QED BY <1>3, <1>4 DEF FlagsInv

LEMMA FlagsInvStep == FlagsInv /\ [FlagsNext]_flagVars => FlagsInv'
<1>1. ASSUME FlagsInv, CopyAges
      PROVE  FlagsInv'
    BY <1>1 DEF FlagsInv, FlagsTypeOK, SettersWrote, LoadedIsRow, CopyAgrees, CopyAges, Setting
<1>2. ASSUME FlagsInv, UNCHANGED flagVars
      PROVE  FlagsInv'
    BY <1>2 DEF FlagsInv, FlagsTypeOK, SettersWrote, LoadedIsRow, CopyAgrees, flagVars, Setting
<1>3. ASSUME FlagsInv, FindMissing
      PROVE  FlagsInv'
    BY <1>3 DEF FlagsInv, FlagsTypeOK, SettersWrote, LoadedIsRow, CopyAgrees, FindMissing, Setting
<1> QED BY <1>1, <1>2, <1>3, SetRowKeeps, SetCopyKeeps, SetIsLostKeeps, LoadReadKeeps, LoadStoreKeeps,
           FlagsRestartKeeps DEF FlagsNext, SetFlag, IsEnabled

-----------------------------------------------------------------------------
(* The verification codes.                                                 *)

\* What a request has seen of the account stays so: an account is not removed.
\* A request that has set a code knows it.
AccountSeen ==
  \A r \in Visits :
      /\ visit[r].at \in {"mailing", "comparing", "evicting", "proving", "forgetting"} => account # "none"
      /\ visit[r].op # "register" /\ visit[r].at = "coding" => account # "none"
      /\ visit[r].op # "register" => visit[r].at # "creating"
      /\ visit[r].at = "forgetting" => account = "verified"
      /\ visit[r].at \in {"creating", "mailing"} => visit[r].code # NoCode

\* Unless they cross, one request at a time issues a code, and it is in the cache.
IssuesAlone ==
  ~crossed => \A r \in Issuing :
      /\ Issuing = {r}
      /\ visit[r].at = "creating" => account = "none"
      /\ account # "verified" /\ codeLives /\ ~misled => code = visit[r].code

\* No code is mailed, or its mail dropped, before there is an account.
MailedToAccounts == sent # NoCode \/ dropped # NoCode => account # "none"

CodesInv ==
  RegistrationTypeOK /\ AccountSeen /\ IssuesAlone /\ MailedToAccounts /\ SentCodeCounts

LEMMA VisitKinds ==
    ASSUME RegistrationTypeOK, NEW r \in Visits
    PROVE  /\ visit[r] \in Visit
           /\ visit[r].at \in VisitPlaces
           /\ visit[r].op \in {"register", "resend", "verify"}
           /\ visit[r].code \in Codes \union {NoCode}
           /\ visit[r] = [at |-> visit[r].at, op |-> visit[r].op, code |-> visit[r].code]
BY DEF RegistrationTypeOK, Visit

LEMMA MovedVisit ==
    ASSUME NEW v \in Visit, NEW place
    PROVE  [v EXCEPT !.at = place] = [at |-> place, op |-> v.op, code |-> v.code]
<1>1. v = [at |-> v.at, op |-> v.op, code |-> v.code]
    BY DEF Visit
<1> QED BY <1>1

(* What a change of one request leaves of the others.                      *)
LEMMA OneVisit ==
    ASSUME RegistrationTypeOK, NEW r \in Visits, NEW v \in Visit, visit' = [visit EXCEPT ![r] = v]
    PROVE  /\ visit' \in [Visits -> Visit]
           /\ visit'[r] = v
           /\ \A s \in Visits : s # r => visit'[s] = visit[s]
           /\ Issuing' = IF v.at \in {"creating", "mailing"} THEN Issuing \union {r} ELSE Issuing \ {r}
           /\ (v.at \in {"creating", "mailing"} <=> r \in Issuing) => Issuing' = Issuing
<1>1. /\ visit' \in [Visits -> Visit]
      /\ visit'[r] = v
      /\ \A s \in Visits : s # r => visit'[s] = visit[s]
    BY DEF RegistrationTypeOK
<1>2. Issuing' = IF v.at \in {"creating", "mailing"} THEN Issuing \union {r} ELSE Issuing \ {r}
    BY <1>1 DEF Issuing
<1>3. r \in Issuing => Issuing \union {r} = Issuing
    OBVIOUS
<1>4. r \notin Issuing => Issuing \ {r} = Issuing
    OBVIOUS
<1> QED BY <1>1, <1>2, <1>3, <1>4

LEMMA GoIsVisit ==
    ASSUME RegistrationTypeOK, NEW r \in Visits, NEW place \in VisitPlaces, Go(r, place)
    PROVE  LET v == [at |-> place, op |-> visit[r].op, code |-> visit[r].code]
           IN  v \in Visit /\ visit' = [visit EXCEPT ![r] = v]
<1>1. [visit[r] EXCEPT !.at = place] = [at |-> place, op |-> visit[r].op, code |-> visit[r].code]
    BY VisitKinds, MovedVisit
<1>2. visit' = [visit EXCEPT ![r] = [visit[r] EXCEPT !.at = place]]
    BY DEF Go
<1>3. [at |-> place, op |-> visit[r].op, code |-> visit[r].code] \in Visit
    BY VisitKinds DEF Visit
<1> QED BY <1>1, <1>2, <1>3

LEMMA IdleIsVisit == VisitIdle \in Visit
BY DEF VisitIdle, Visit, VisitPlaces

LEMMA CodesInvInit == RegistrationInit => CodesInv
<1> SUFFICES ASSUME RegistrationInit
             PROVE  CodesInv
    OBVIOUS
<1>1. \A r \in Visits : visit[r].at = "idle"
    BY DEF RegistrationInit, VisitIdle
<1>2. Issuing = {}
    BY <1>1 DEF Issuing
<1>3. RegistrationTypeOK
    BY IdleIsVisit DEF RegistrationInit, RegistrationTypeOK
<1>4. AccountSeen
    BY <1>1 DEF AccountSeen
<1> QED BY <1>2, <1>3, <1>4 DEF RegistrationInit, CodesInv, IssuesAlone, MailedToAccounts, SentCodeCounts, LastIssued

(* A request that neither issues a code nor changes anything else.         *)
LEMMA QuietVisit ==
    ASSUME CodesInv, NEW r \in Visits, NEW v \in Visit, visit' = [visit EXCEPT ![r] = v],
           UNCHANGED <<account, code, codeLives, sweeping, sent, dropped, misled, crossed>>, used' = used,
           v.at \notin {"creating", "mailing"},
           v.at \in {"comparing", "evicting", "proving"} => account # "none",
           v.op # "register" /\ v.at = "coding" => account # "none",
           v.at = "forgetting" => account = "verified",
           r \notin Issuing \/ crossed \/ account # "unverified"
    PROVE  CodesInv'
<1> USE DEF CodesInv
<1>1. /\ visit' \in [Visits -> Visit]
      /\ visit'[r] = v
      /\ \A s \in Visits : s # r => visit'[s] = visit[s]
      /\ Issuing' = Issuing \ {r}
    BY OneVisit
<1>2. RegistrationTypeOK' /\ MailedToAccounts'
    BY <1>1 DEF RegistrationTypeOK, MailedToAccounts
<1>3. AccountSeen'
    BY <1>1 DEF AccountSeen
<1>4. IssuesAlone'
    BY <1>1 DEF IssuesAlone, Issuing
<1>5. SentCodeCounts'
    BY <1>1 DEF SentCodeCounts, LastIssued
<1> QED BY <1>2, <1>3, <1>4, <1>5

LEMMA BeginVisitKeeps ==
    ASSUME CodesInv, NEW r \in Visits, NEW op \in {"register", "resend", "verify"},
           NEW c \in Codes \union {NoCode}, BeginVisit(r, op, c)
    PROVE  CodesInv'
<1> DEFINE v == [at |-> "looking", op |-> op, code |-> c]
<1>1. v \in Visit /\ r \notin Issuing /\ v.at = "looking"
    BY DEF Visit, VisitPlaces, BeginVisit, VisitAt, Issuing
<1>2. visit' = [visit EXCEPT ![r] = v]
    BY DEF BeginVisit
<1> HIDE DEF v
<1> QED BY <1>1, <1>2, QuietVisit DEF BeginVisit

LEMMA LookKeeps ==
    ASSUME CodesInv, NEW r \in Visits, Look(r)
    PROVE  CodesInv'
<1>0. RegistrationTypeOK
    BY DEF CodesInv
<1>1. visit[r].at = "looking" /\ r \notin Issuing
    BY DEF Look, VisitAt, Issuing
<1>2. CASE Leave(r)
    BY <1>1, <1>2, IdleIsVisit, QuietVisit DEF Look, Leave, VisitIdle
<1>3. ASSUME NEW place \in {"coding", "comparing"}, Go(r, place),
             place = "comparing" => account # "none",
             visit[r].op # "register" => account # "none"
      PROVE  CodesInv'
  <2> DEFINE v == [at |-> place, op |-> visit[r].op, code |-> visit[r].code]
  <2>1. v \in Visit /\ visit' = [visit EXCEPT ![r] = v]
      BY <1>0, <1>3, GoIsVisit DEF VisitPlaces
  <2>2. v.at = place /\ v.op = visit[r].op
      OBVIOUS
  <2> HIDE DEF v
  <2> QED BY <2>1, <2>2, <1>1, <1>3, QuietVisit DEF Look
<1>4. \/ Leave(r)
      \/ Go(r, "coding") /\ (visit[r].op # "register" => account # "none")
      \/ Go(r, "comparing") /\ account # "none"
    BY DEF Look
<1>5. CASE Go(r, "coding") /\ (visit[r].op # "register" => account # "none")
    BY <1>3, <1>5
<1>6. CASE Go(r, "comparing") /\ account # "none"
    BY <1>3, <1>6
<1> QED BY <1>2, <1>4, <1>5, <1>6

LEMMA SetCodeKeeps ==
    ASSUME CodesInv, NEW r \in Visits, NEW c \in Codes, SetCode(r, c)
    PROVE  CodesInv'
<1>0. RegistrationTypeOK /\ AccountSeen /\ IssuesAlone /\ MailedToAccounts /\ SentCodeCounts
    BY DEF CodesInv
<1> DEFINE place == IF visit[r].op = "register" THEN "creating" ELSE "mailing"
           v == [at |-> place, op |-> visit[r].op, code |-> c]
<1>1. visit[r].at = "coding"
    BY DEF SetCode, VisitAt
<1>2. visit' = [visit EXCEPT ![r] = v]
    BY DEF SetCode
<1>3. v \in Visit /\ v.code = c /\ v.at = place /\ v.op = visit[r].op
    BY <1>0, VisitKinds DEF Visit, VisitPlaces
<1>4. /\ place \in {"creating", "mailing"}
      /\ place = "mailing" => visit[r].op # "register"
      /\ place = "creating" => visit[r].op = "register"
    OBVIOUS
<1> HIDE DEF v, place
<1>5. /\ visit' \in [Visits -> Visit]
      /\ visit'[r] = v
      /\ \A s \in Visits : s # r => visit'[s] = visit[s]
      /\ Issuing' = Issuing \union {r}
    BY <1>0, <1>2, <1>3, <1>4, OneVisit
<1>6. RegistrationTypeOK' /\ MailedToAccounts'
    BY <1>0, <1>5 DEF RegistrationTypeOK, MailedToAccounts, SetCode
<1>7. AccountSeen'
    BY <1>0, <1>1, <1>3, <1>4, <1>5, VisitKinds, AbsenceAssumption DEF AccountSeen, SetCode
<1>8. IssuesAlone'
    BY <1>0, <1>3, <1>4, <1>5 DEF IssuesAlone, SetCode
<1>9. SentCodeCounts'
    BY <1>5 DEF SentCodeCounts, LastIssued
<1> QED BY <1>6, <1>7, <1>8, <1>9 DEF CodesInv

LEMMA CreateAccountKeeps ==
    ASSUME CodesInv, NEW r \in Visits, CreateAccount(r)
    PROVE  CodesInv'
<1>0. RegistrationTypeOK /\ AccountSeen /\ IssuesAlone /\ MailedToAccounts /\ SentCodeCounts
    BY DEF CodesInv
<1>1. visit[r].at = "creating" /\ r \in Issuing
    BY DEF CreateAccount, VisitAt, Issuing
<1>2. CASE account = "none"
  <2> DEFINE v == [at |-> "mailing", op |-> visit[r].op, code |-> visit[r].code]
  <2>1. v \in Visit /\ visit' = [visit EXCEPT ![r] = v]
      BY <1>0, <1>2, GoIsVisit DEF VisitPlaces, CreateAccount
  <2>2. v.at = "mailing" /\ v.op = visit[r].op /\ v.code = visit[r].code
      OBVIOUS
  <2> HIDE DEF v
  <2>3. /\ visit' \in [Visits -> Visit]
        /\ visit'[r] = v
        /\ \A s \in Visits : s # r => visit'[s] = visit[s]
        /\ Issuing' = Issuing
      BY <1>0, <1>1, <2>1, <2>2, OneVisit
  <2>4. account' = "unverified" /\ UNCHANGED <<code, codeLives, sweeping, used, sent, dropped, misled, crossed>>
      BY <1>2 DEF CreateAccount
  <2>5. RegistrationTypeOK' /\ MailedToAccounts'
      BY <1>0, <2>3, <2>4 DEF RegistrationTypeOK, MailedToAccounts
  <2>6. AccountSeen'
      BY <1>0, <1>1, <1>2, <2>2, <2>3, <2>4 DEF AccountSeen
  <2>7. IssuesAlone'
      BY <1>0, <1>1, <1>2, <2>2, <2>3, <2>4 DEF IssuesAlone
  <2>8. SentCodeCounts'
      BY <1>1, <2>3 DEF SentCodeCounts, LastIssued
  <2> QED BY <2>5, <2>6, <2>7, <2>8 DEF CodesInv
<1>3. CASE account # "none"
  <2>1. crossed
      BY <1>0, <1>1, <1>3 DEF IssuesAlone
  <2> QED BY <1>3, <2>1, IdleIsVisit, QuietVisit DEF CreateAccount, Leave, VisitIdle
<1> QED BY <1>2, <1>3

LEMMA MailCodeKeeps ==
    ASSUME CodesInv, NEW r \in Visits, MailCode(r) \/ DropMail(r)
    PROVE  CodesInv'
<1>0. RegistrationTypeOK /\ AccountSeen /\ IssuesAlone /\ MailedToAccounts /\ SentCodeCounts
    BY DEF CodesInv
<1>1. /\ visit[r].at = "mailing" /\ r \in Issuing /\ account # "none"
      /\ visit[r].code \in Codes /\ visit[r].code # NoCode
    BY <1>0, VisitKinds DEF MailCode, DropMail, VisitAt, Issuing, AccountSeen
<1>2. /\ visit' \in [Visits -> Visit]
      /\ visit'[r] = VisitIdle
      /\ \A s \in Visits : s # r => visit'[s] = visit[s]
      /\ Issuing' = Issuing \ {r}
    BY <1>0, IdleIsVisit, OneVisit DEF MailCode, DropMail, Leave, VisitIdle
<1>3. /\ sent' \in Codes \union {NoCode} /\ dropped' \in Codes \union {NoCode}
      /\ LastIssued' = visit[r].code
      /\ UNCHANGED <<account, code, codeLives, sweeping, used, misled, crossed>>
    BY <1>0, <1>1 DEF MailCode, DropMail, LastIssued, RegistrationTypeOK
<1>4. RegistrationTypeOK' /\ MailedToAccounts'
    BY <1>0, <1>1, <1>2, <1>3 DEF RegistrationTypeOK, MailedToAccounts
<1>5. AccountSeen'
    BY <1>0, <1>2, <1>3 DEF AccountSeen, VisitIdle
<1>6. IssuesAlone'
    BY <1>0, <1>1, <1>2, <1>3 DEF IssuesAlone
<1>7. SentCodeCounts'
    BY <1>0, <1>1, <1>3 DEF SentCodeCounts, IssuesAlone
<1> QED BY <1>4, <1>5, <1>6, <1>7 DEF CodesInv

(* The account is proved, or the code in the cache deleted: every request  *)
(* but r is left, and r issues nothing.                                    *)
LEMMA ProvenVisit ==
    ASSUME CodesInv, NEW r \in Visits, NEW v \in Visit, visit' = [visit EXCEPT ![r] = v],
           v.at \in {"idle", "forgetting"}, r \notin Issuing,
           account' = "verified", account # "none", UNCHANGED <<codeLives, sweeping, used, sent, dropped, misled, crossed>>,
           code' \in {code, NoCode}
    PROVE  CodesInv'
<1>0. RegistrationTypeOK /\ AccountSeen /\ IssuesAlone /\ MailedToAccounts /\ SentCodeCounts
    BY DEF CodesInv
<1>1. /\ visit' \in [Visits -> Visit]
      /\ visit'[r] = v
      /\ \A s \in Visits : s # r => visit'[s] = visit[s]
      /\ Issuing' = Issuing
    BY <1>0, OneVisit
<1>2. RegistrationTypeOK' /\ MailedToAccounts' /\ SentCodeCounts'
    BY <1>0, <1>1 DEF RegistrationTypeOK, MailedToAccounts, SentCodeCounts, LastIssued
<1>3. AccountSeen'
    BY <1>0, <1>1 DEF AccountSeen
<1>4. \A s \in Issuing : visit'[s].at # "creating" \/ crossed
    BY <1>0, <1>1 DEF IssuesAlone, Issuing
<1>5. IssuesAlone'
    BY <1>0, <1>1, <1>4 DEF IssuesAlone
<1> QED BY <1>2, <1>3, <1>5 DEF CodesInv

LEMMA CheckCodeKeeps ==
    ASSUME CodesInv, NEW r \in Visits, CheckCode(r)
    PROVE  CodesInv'
<1>0. RegistrationTypeOK /\ AccountSeen /\ IssuesAlone /\ MailedToAccounts /\ SentCodeCounts
    BY DEF CodesInv
<1>1. CASE VerifyEmail(r)
    BY <1>0, <1>1, BeginVisitKeeps DEF VerifyEmail, RegistrationTypeOK
<1>2. CASE SkipCode(r)
  <2>1. r \notin Issuing
      BY <1>2 DEF SkipCode, VisitAt, Issuing
  <2> QED BY <1>2, <2>1, IdleIsVisit, ProvenVisit DEF SkipCode, Leave, VisitIdle
<1>3. CASE CompareCode(r)
  <2>1. visit[r].at = "comparing" /\ r \notin Issuing /\ account # "none"
      BY <1>0, <1>3 DEF CompareCode, VisitAt, Issuing, AccountSeen
  <2>2. PICK place \in {"idle", "evicting", "proving"} : Go(r, place)
      BY <1>3 DEF CompareCode, AfterMismatch
  <2> DEFINE v == [at |-> place, op |-> visit[r].op, code |-> visit[r].code]
  <2>3. v \in Visit /\ visit' = [visit EXCEPT ![r] = v]
      BY <1>0, <2>2, GoIsVisit DEF VisitPlaces
  <2>4. v.at = place
      OBVIOUS
  <2> HIDE DEF v
  <2> QED BY <1>3, <2>1, <2>2, <2>3, <2>4, QuietVisit DEF CompareCode
<1>4. CASE EvictCode(r)
  <2>1. visit[r].at = "evicting" /\ r \notin Issuing /\ Issuing \subseteq Visits
      BY <1>4 DEF EvictCode, VisitAt, Issuing
  <2>2. /\ visit' \in [Visits -> Visit]
        /\ visit'[r] = VisitIdle
        /\ \A s \in Visits : s # r => visit'[s] = visit[s]
        /\ Issuing' = Issuing
      BY <1>0, <1>4, <2>1, IdleIsVisit, OneVisit DEF EvictCode, Leave, VisitIdle
  <2>3. /\ code' = NoCode /\ misled' = (misled \/ codeLives)
        /\ UNCHANGED <<account, codeLives, sweeping, used, sent, dropped, crossed>>
      BY <1>4 DEF EvictCode, DeleteExpired
  <2>4. misled' \/ ~codeLives'
      BY <2>3
  <2>5. RegistrationTypeOK' /\ MailedToAccounts' /\ SentCodeCounts'
      BY <1>0, <2>2, <2>3, <2>4 DEF RegistrationTypeOK, MailedToAccounts, SentCodeCounts, LastIssued
  <2>6. AccountSeen'
      BY <1>0, <2>2, <2>3 DEF AccountSeen, VisitIdle
  <2>7. IssuesAlone'
      BY <1>0, <2>1, <2>2, <2>3, <2>4 DEF IssuesAlone
  <2> QED BY <2>5, <2>6, <2>7 DEF CodesInv
<1>5. CASE SetVerified(r)
  <2> DEFINE v == [at |-> "forgetting", op |-> visit[r].op, code |-> visit[r].code]
  <2>1. v \in Visit /\ visit' = [visit EXCEPT ![r] = v] /\ v.at = "forgetting"
      BY <1>0, <1>5, GoIsVisit DEF VisitPlaces, SetVerified
  <2>2. r \notin Issuing /\ account # "none"
      BY <1>0, <1>5 DEF SetVerified, VisitAt, Issuing, AccountSeen
  <2> HIDE DEF v
  <2> QED BY <1>5, <2>1, <2>2, ProvenVisit DEF SetVerified
<1>6. CASE ForgetCode(r)
  <2>1. r \notin Issuing /\ account = "verified"
      BY <1>0, <1>6 DEF ForgetCode, VisitAt, Issuing, AccountSeen
  <2> QED BY <1>6, <2>1, IdleIsVisit, ProvenVisit DEF ForgetCode, Leave, VisitIdle
<1> QED BY <1>1, <1>2, <1>3, <1>4, <1>5, <1>6 DEF CheckCode

LEMMA GiveUpVisitKeeps ==
    ASSUME CodesInv, NEW r \in Visits, GiveUpVisit(r)
    PROVE  CodesInv'
<1>1. r \notin Issuing \/ crossed \/ account # "unverified"
    BY DEF CodesInv, IssuesAlone, Issuing, GiveUpVisit
<1> QED BY <1>1, IdleIsVisit, QuietVisit DEF GiveUpVisit, Leave, VisitIdle

(* The end of the time of the code, and the janitor.                       *)
LEMMA TimeKeepsCodes ==
    ASSUME CodesInv, CodeExpires \/ SweeperSees \/ SweeperDeletes
    PROVE  CodesInv'
<1>0. RegistrationTypeOK /\ AccountSeen /\ IssuesAlone /\ MailedToAccounts /\ SentCodeCounts
    BY DEF CodesInv
<1>1. /\ UNCHANGED <<account, visit, used, sent, dropped, crossed>>
      /\ codeLives' \in BOOLEAN /\ sweeping' \in BOOLEAN /\ misled' \in BOOLEAN
      /\ code' \in {code, NoCode}
      /\ codeLives' /\ ~misled' => code' = code /\ codeLives /\ ~misled
  <2>1. CASE CodeExpires
      BY <1>0, <2>1 DEF CodeExpires, RegistrationTypeOK
  <2>2. CASE SweeperSees
      BY <1>0, <2>2 DEF SweeperSees, RegistrationTypeOK
  <2>3. CASE SweeperDeletes
    <3>1. code' = NoCode /\ misled' = (misled \/ codeLives) /\ sweeping' = FALSE
          /\ UNCHANGED <<account, codeLives, visit, used, sent, dropped, crossed>>
        BY <2>3 DEF SweeperDeletes, DeleteExpired
    <3>2. misled' \in BOOLEAN /\ (codeLives => misled')
        BY <3>1, Zenon
    <3> QED BY <1>0, <3>1, <3>2 DEF RegistrationTypeOK
  <2> QED BY <2>1, <2>2, <2>3
<1>2. Issuing' = Issuing
    BY <1>1 DEF Issuing
<1>3. RegistrationTypeOK' /\ AccountSeen' /\ MailedToAccounts'
    BY <1>0, <1>1 DEF RegistrationTypeOK, AccountSeen, MailedToAccounts
<1>4. IssuesAlone' /\ SentCodeCounts'
    BY <1>0, <1>1, <1>2 DEF IssuesAlone, SentCodeCounts, LastIssued
<1> QED BY <1>3, <1>4 DEF CodesInv

LEMMA CodesInvStep == CodesInv /\ [RegistrationNext]_registrationVars => CodesInv'
<1>1. ASSUME CodesInv, NEW r \in Visits, IssueCode(r)
      PROVE  CodesInv'
    BY <1>1, BeginVisitKeeps, LookKeeps, SetCodeKeeps, CreateAccountKeeps, MailCodeKeeps
       DEF IssueCode, Register, ResendVerificationCode
<1>2. ASSUME CodesInv, UNCHANGED registrationVars
      PROVE  CodesInv'
    BY <1>2 DEF registrationVars, CodesInv, RegistrationTypeOK, AccountSeen, IssuesAlone,
                MailedToAccounts, SentCodeCounts, LastIssued, Issuing
<1> QED BY <1>1, <1>2, CheckCodeKeeps, GiveUpVisitKeeps, TimeKeepsCodes DEF RegistrationNext

-----------------------------------------------------------------------------
(* The composition.                                                        *)
CachesInv == LimitsInv /\ CodesInv /\ FlagsInv

LEMMA CachesInvInit == ServicesInit => CachesInv
BY LimitsInvInit, CodesInvInit, FlagsInvInit DEF ServicesInit, CachesInv

LEMMA CachesMove ==
    [ServicesNext]_servicesVars =>
        [LimitsNext]_limitVars /\ [RegistrationNext]_registrationVars /\ [FlagsNext]_flagVars
BY DEF ServicesNext, Resting, servicesVars

LEMMA CachesInvStep == CachesInv /\ [ServicesNext]_servicesVars => CachesInv'
BY CachesMove, LimitsInvStep, CodesInvStep, FlagsInvStep DEF CachesInv

(* However attempts, their deletion and the janitor overlap (Increment of  *)
(* pkg/cache/memory.go), no window lets more through than the limit, the   *)
(* windows apart whose counter the janitor has deleted too late.           *)
THEOREM WindowsHoldTheLimit == ServicesSpec => []AttemptsAreBounded
<1>1. CachesInv => AttemptsAreBounded
    BY DEF CachesInv, LimitsInv
<1> QED BY CachesInvInit, CachesInvStep, <1>1, PTL DEF ServicesSpec

(* The code issued last verifies the account (Register, VerifyEmail and    *)
(* ResendVerificationCode), unless codes crossed or a late delete hit it:  *)
(* the one mailed last, or one since whose mail was dropped.               *)
THEOREM MailedCodesVerify == ServicesSpec => []SentCodeCounts
<1>1. CachesInv => SentCodeCounts
    BY DEF CachesInv, CodesInv
<1> QED BY CachesInvInit, CachesInvStep, <1>1, PTL DEF ServicesSpec

(* The copy of a flag nobody is setting agrees with the table (SetFlag and *)
(* refreshCache), unless two requests set it at once.                      *)
THEOREM CopiesAgree == ServicesSpec => []CopyAgrees
<1>1. CachesInv => CopyAgrees
    BY DEF CachesInv, FlagsInv
<1> QED BY CachesInvInit, CachesInvStep, <1>1, PTL DEF ServicesSpec

-----------------------------------------------------------------------------
(* The gear sets. *)

LEMMA HeadersAreSets ==
    /\ \A h \in SetHeader : h # NoSet /\ h # NoRow
    /\ \A s \in Sets : s # NoRow
    /\ NoSet # NoRow
BY AbsentIsNoSet

LEMMA SetRequestKinds ==
    ASSUME NEW q \in SetRequest
    PROVE  /\ q.op \in {"update", "updating"} =>
                  q \in [op : {"update", "updating"}, set : Sets, rows : SUBSET SetRows, seen : SUBSET SetRows]
           /\ q.op = "delete" => q \in [op : {"delete"}, set : Sets]
           /\ q.op = "idle" => q = SetIdle
BY DEF SetRequest, SetIdle

LEMMA SetsInvInit == SetsInit => SetsInv
BY HeadersAreSets DEF SetsInit, SetsInv, GearSetTypeOK, SetsAreWhole, UpdatesPrepared, HeadersExclude,
    SetExists, UpdatingSet, SetRequest, SetIdle

(* A request that starts without a header, or ends, when no row changes.   *)
LEMMA SetRequestsKeep ==
    ASSUME SetsInv, NEW r \in SetRequests, NEW q \in SetRequest,
           setReq' = [setReq EXCEPT ![r] = q], UNCHANGED <<set, rowOf>>,
           q.op # "updating",
           q.op = "update" => NewRows(q.rows) /\ SetExists(q.set)
    PROVE  SetsInv'
<1> USE DEF SetsInv
<1>1. /\ setReq' \in [SetRequests -> SetRequest]
      /\ \A s \in SetRequests : setReq'[s] = IF s = r THEN q ELSE setReq[s]
    BY DEF GearSetTypeOK
<1>2. GearSetTypeOK' /\ SetsAreWhole'
    BY <1>1 DEF GearSetTypeOK, SetsAreWhole, SetExists, RowsOfSet
<1>3. UpdatesPrepared'
  <2> SUFFICES ASSUME NEW s \in SetRequests, UpdatingSet(s)'
               PROVE  /\ set[setReq'[s].set] # NoSet
                      /\ \A i \in setReq'[s].rows : rowOf[i] = NoRow
                      /\ \A p \in SetRequests \ {s} :
                            UpdatingSet(p)' => setReq'[s].rows \intersect setReq'[p].rows = {}
                      /\ setReq'[s].op = "updating" => setReq'[s].seen = RowsOfSet(setReq'[s].set)
      BY DEF UpdatesPrepared, RowsOfSet
  <2>1. CASE s = r
    <3>1. q.op = "update" /\ NewRows(q.rows) /\ SetExists(q.set)
        BY <2>1, <1>1 DEF UpdatingSet
    <3> QED BY <2>1, <3>1, <1>1 DEF UpdatingSet, NewRows, SetExists
  <2>2. CASE s # r
    <3>1. UpdatingSet(s) /\ setReq'[s] = setReq[s]
        BY <2>2, <1>1 DEF UpdatingSet
    <3>2. /\ set[setReq[s].set] # NoSet
          /\ \A i \in setReq[s].rows : rowOf[i] = NoRow
          /\ \A p \in SetRequests \ {s} : UpdatingSet(p) => setReq[s].rows \intersect setReq[p].rows = {}
          /\ setReq[s].op = "updating" => setReq[s].seen = RowsOfSet(setReq[s].set)
        BY <3>1 DEF UpdatesPrepared
    <3>3. UpdatingSet(r)' => setReq'[s].rows \intersect setReq'[r].rows = {}
        BY <2>2, <3>1, <1>1 DEF UpdatingSet, NewRows
    <3> QED BY <3>1, <3>2, <3>3, <1>1 DEF UpdatingSet
  <2> QED BY <2>1, <2>2
<1>4. HeadersExclude'
    BY <1>1 DEF HeadersExclude
<1> QED BY <1>2, <1>3, <1>4

LEMMA CreateKeeps ==
    ASSUME SetsInv, NEW u \in Owners, NEW s \in Sets, NEW rows \in SUBSET SetRows,
           CreateGearSet(u, s, rows)
    PROVE  SetsInv'
<1> USE DEF SetsInv
<1>1. /\ \A p \in Sets : set'[p] = IF p = s THEN [owner |-> u, totals |-> rows \intersect SetItems]
                                            ELSE set[p]
      /\ \A i \in SetRows : rowOf'[i] = IF i \in rows THEN s ELSE rowOf[i]
      /\ set' \in [Sets -> SetHeader \union {NoSet, NoRow}]
      /\ rowOf' \in [SetRows -> Sets \union {NoRow}]
    BY DEF CreateGearSet, GearSetTypeOK, SetHeader
<1>2. /\ setReq' = setReq
      /\ \A i \in rows : rowOf[i] = NoRow
      /\ \A r \in SetRequests : UpdatingSet(r) => rows \intersect setReq[r].rows = {}
      /\ set[s] = NoSet
    BY DEF CreateGearSet, NewRows
<1>3. GearSetTypeOK'
    BY <1>1, <1>2 DEF GearSetTypeOK
<1>4. SetExists(s)'
    BY <1>1, HeadersAreSets DEF SetExists, SetHeader
<1>5. \A i \in SetRows : rowOf[i] # s
    BY <1>2, HeadersAreSets DEF SetsAreWhole, SetExists
<1>6. RowsOfSet(s)' = rows /\ \A p \in Sets \ {s} : RowsOfSet(p)' = RowsOfSet(p)
  <2>1. RowsOfSet(s)' = rows
      BY <1>1, <1>5 DEF RowsOfSet
  <2>2. ASSUME NEW p \in Sets \ {s} PROVE RowsOfSet(p)' = RowsOfSet(p)
    <3>1. \A i \in SetRows : rowOf'[i] = p <=> rowOf[i] = p
        BY <1>1, <1>2, HeadersAreSets
    <3> QED BY <3>1 DEF RowsOfSet
  <2> QED BY <2>1, <2>2
<1>7. SetsAreWhole'
  <2>1. \A p \in Sets : SetExists(p)' => RowsOfSet(p)' \intersect SetItems = set'[p].totals
      BY <1>1, <1>6 DEF SetsAreWhole, SetExists
  <2>2. \A i \in SetRows : rowOf'[i] # NoRow => set'[rowOf'[i]] \notin {NoSet, NoRow}
    <3>1. \A p \in Sets : set[p] \notin {NoSet, NoRow} => set'[p] \notin {NoSet, NoRow}
        BY <1>1, <1>4 DEF SetExists
    <3>2. set'[s] \notin {NoSet, NoRow}
        BY <1>4 DEF SetExists
    <3>3. \A i \in SetRows : rowOf[i] # NoRow => set[rowOf[i]] \notin {NoSet, NoRow} /\ rowOf[i] \in Sets
        BY DEF SetsAreWhole, GearSetTypeOK, SetExists
    <3> QED BY <1>1, <3>1, <3>2, <3>3
  <2> QED BY <2>1, <2>2 DEF SetsAreWhole, SetExists
<1>8. UpdatesPrepared'
  <2> SUFFICES ASSUME NEW r \in SetRequests, UpdatingSet(r)
               PROVE  /\ set'[setReq[r].set] # NoSet
                      /\ \A i \in setReq[r].rows : rowOf'[i] = NoRow
                      /\ \A p \in SetRequests \ {r} :
                            UpdatingSet(p) => setReq[r].rows \intersect setReq[p].rows = {}
                      /\ setReq[r].op = "updating" => setReq[r].seen = RowsOfSet(setReq[r].set)'
      BY <1>2 DEF UpdatesPrepared, UpdatingSet
  <2>1. setReq[r].rows \subseteq SetRows /\ setReq[r].set \in Sets
      BY SetRequestKinds DEF GearSetTypeOK, UpdatingSet
  <2>2. setReq[r].set # s
      BY <1>2 DEF UpdatesPrepared
  <2> QED BY <1>1, <1>2, <2>1, <2>2, <1>6 DEF UpdatesPrepared
<1>9. HeadersExclude'
    BY <1>2 DEF HeadersExclude
<1> QED BY <1>3, <1>7, <1>8, <1>9
(* The header is locked and what is under it is seen. *)
LEMMA HeaderKeeps ==
    ASSUME SetsInv, NEW r \in SetRequests, UpdateGearSetHeader(r)
    PROVE  SetsInv'
<1> USE DEF SetsInv
<1> DEFINE q == setReq[r]
           q1 == [q EXCEPT !.op = "updating", !.seen = RowsOfSet(q.set)]
<1>1. q \in [op : {"update", "updating"}, set : Sets, rows : SUBSET SetRows, seen : SUBSET SetRows]
    BY SetRequestKinds DEF UpdateGearSetHeader, GearSetTypeOK
<1>2. /\ q1 \in SetRequest
      /\ q1.op = "updating" /\ q1.set = q.set /\ q1.rows = q.rows /\ q1.seen = RowsOfSet(q.set)
    BY <1>1 DEF SetRequest, RowsOfSet
<1>3. /\ setReq' \in [SetRequests -> SetRequest]
      /\ \A s \in SetRequests : setReq'[s] = IF s = r THEN q1 ELSE setReq[s]
      /\ UNCHANGED <<set, rowOf>>
      /\ q.op = "update"
    BY <1>2 DEF UpdateGearSetHeader, GearSetTypeOK
<1> HIDE DEF q1
<1>4. GearSetTypeOK' /\ SetsAreWhole'
    BY <1>3 DEF GearSetTypeOK, SetsAreWhole, SetExists, RowsOfSet
<1>5. \A s \in SetRequests : /\ UpdatingSet(s)' <=> UpdatingSet(s)
                             /\ UpdatingSet(s) => /\ setReq'[s].rows = setReq[s].rows
                                                  /\ setReq'[s].set = setReq[s].set
    BY <1>2, <1>3 DEF UpdatingSet
<1>6. UpdatesPrepared'
    BY <1>2, <1>3, <1>5 DEF UpdatesPrepared, RowsOfSet
<1>7. HeadersExclude'
    BY <1>2, <1>3 DEF HeadersExclude, UpdateGearSetHeader, HeaderHeld
<1> QED BY <1>4, <1>6, <1>7

LEMMA CommitKeeps ==
    ASSUME SetsInv, NEW r \in SetRequests, UpdateGearSetCommit(r)
    PROVE  SetsInv'
<1> USE DEF SetsInv
<1>0. PICK q \in SetRequest, s \in Sets : q = setReq[r] /\ s = q.set
    BY SetRequestKinds DEF UpdateGearSetCommit, GearSetTypeOK
<1>1. /\ s \in Sets /\ q.rows \subseteq SetRows /\ q.op = "updating" /\ UpdatingSet(r)
      /\ q.seen = RowsOfSet(s)
      /\ \A i \in q.rows : rowOf[i] = NoRow
      /\ set[s] # NoSet
      /\ q.rows # {} => SetExists(s)
    BY <1>0, SetRequestKinds DEF UpdateGearSetCommit, GearSetTypeOK, UpdatingSet, UpdatesPrepared
<1>2. /\ setReq' \in [SetRequests -> SetRequest]
      /\ \A p \in SetRequests : setReq'[p] = IF p = r THEN SetIdle ELSE setReq[p]
    BY DEF UpdateGearSetCommit, FinishOnSet, GearSetTypeOK, SetRequest
<1>3. \A i \in SetRows : rowOf'[i] = IF i \in q.rows THEN s ELSE IF rowOf[i] = s THEN NoRow ELSE rowOf[i]
    BY <1>0, <1>1 DEF UpdateGearSetCommit, RowsOfSet
<1>4. /\ set' \in [Sets -> SetHeader \union {NoSet, NoRow}]
      /\ rowOf' \in [SetRows -> Sets \union {NoRow}]
  <2>1. rowOf' \in [SetRows -> Sets \union {NoRow}]
    <3>1. rowOf' = [i \in SetRows |-> IF i \in q.rows THEN s ELSE IF i \in q.seen THEN NoRow ELSE rowOf[i]]
        BY <1>0 DEF UpdateGearSetCommit
    <3>2. rowOf \in [SetRows -> Sets \union {NoRow}] /\ s \in Sets
        BY <1>1 DEF GearSetTypeOK
    <3> QED BY <3>1, <3>2
  <2>2. CASE SetExists(s)
    <3>1. set[s] \in SetHeader /\ q.rows \intersect SetItems \subseteq SetItems
        BY <2>2, <1>1 DEF SetExists, GearSetTypeOK
    <3>2. [set[s] EXCEPT !.totals = q.rows \intersect SetItems] \in SetHeader
        BY <3>1 DEF SetHeader
    <3>3. set' = [set EXCEPT ![s] = [set[s] EXCEPT !.totals = q.rows \intersect SetItems]]
        BY <1>0, <2>2 DEF UpdateGearSetCommit
    <3>4. set \in [Sets -> SetHeader \union {NoSet, NoRow}] /\ s \in Sets
        BY <1>1 DEF GearSetTypeOK
    <3> DEFINE h == [set[s] EXCEPT !.totals = q.rows \intersect SetItems]
    <3> HIDE DEF h
    <3>5. set' \in [Sets -> SetHeader \union {NoSet, NoRow}]
        BY <3>2, <3>3, <3>4 DEF h
    <3> QED BY <2>1, <3>5
  <2>3. CASE ~SetExists(s)
      BY <1>0, <2>1, <2>3 DEF UpdateGearSetCommit, GearSetTypeOK
  <2> QED BY <2>2, <2>3
<1>5. /\ \A p \in Sets \ {s} : set'[p] = set[p]
      /\ SetExists(s) => set'[s] \in SetHeader /\ set'[s].totals = q.rows \intersect SetItems
      /\ ~SetExists(s) => set' = set
  <2>1. CASE SetExists(s)
    <3>1. set[s] \in SetHeader
        BY <2>1, <1>1 DEF SetExists, GearSetTypeOK
    <3>2. [set[s] EXCEPT !.totals = q.rows \intersect SetItems] \in SetHeader
        BY <3>1 DEF SetHeader
    <3>3. set' = [set EXCEPT ![s] = [set[s] EXCEPT !.totals = q.rows \intersect SetItems]]
        BY <1>0, <2>1 DEF UpdateGearSetCommit
    <3>4. DOMAIN set = Sets
        BY DEF GearSetTypeOK
    <3>5. set'[s] = [set[s] EXCEPT !.totals = q.rows \intersect SetItems]
        BY <1>1, <3>3, <3>4
    <3>6. \A p \in Sets \ {s} : set'[p] = set[p]
        BY <1>1, <3>3, <3>4
    <3>7. [set[s] EXCEPT !.totals = q.rows \intersect SetItems].totals = q.rows \intersect SetItems
        BY <3>1 DEF SetHeader
    <3> QED BY <2>1, <3>2, <3>5, <3>6, <3>7
  <2>2. CASE ~SetExists(s)
      BY <1>0, <2>2 DEF UpdateGearSetCommit
  <2> QED BY <2>1, <2>2
<1>6. RowsOfSet(s)' = q.rows /\ \A p \in Sets \ {s} : RowsOfSet(p)' = RowsOfSet(p)
  <2>1. RowsOfSet(s)' = q.rows
    <3>1. \A i \in SetRows : rowOf'[i] = s <=> i \in q.rows
        BY <1>1, <1>3, HeadersAreSets
    <3> QED BY <3>1, <1>1 DEF RowsOfSet
  <2>2. ASSUME NEW p \in Sets \ {s} PROVE RowsOfSet(p)' = RowsOfSet(p)
    <3>1. \A i \in SetRows : rowOf'[i] = p <=> rowOf[i] = p
        BY <1>1, <1>3, HeadersAreSets
    <3> QED BY <3>1 DEF RowsOfSet
  <2> QED BY <2>1, <2>2
<1>7. GearSetTypeOK'
    BY <1>2, <1>4 DEF GearSetTypeOK
<1>8. \A p \in Sets : set'[p] \in {NoSet, NoRow} <=> set[p] \in {NoSet, NoRow}
    BY <1>5, HeadersAreSets DEF SetExists
<1>9. SetsAreWhole'
  <2>1. \A p \in Sets : SetExists(p)' => RowsOfSet(p)' \intersect SetItems = set'[p].totals
      BY <1>5, <1>6, <1>8 DEF SetsAreWhole, SetExists
  <2>2. \A i \in SetRows : rowOf'[i] # NoRow => set'[rowOf'[i]] \notin {NoSet, NoRow}
    <3>1. \A i \in SetRows : rowOf[i] # NoRow => set[rowOf[i]] \notin {NoSet, NoRow} /\ rowOf[i] \in Sets
        BY DEF SetsAreWhole, GearSetTypeOK, SetExists
    <3> QED BY <1>1, <1>3, <1>8, <3>1 DEF SetExists
  <2> QED BY <2>1, <2>2 DEF SetsAreWhole, SetExists
<1>10. UpdatesPrepared'
  <2> SUFFICES ASSUME NEW p \in SetRequests, UpdatingSet(p)'
               PROVE  /\ set'[setReq'[p].set] # NoSet
                      /\ \A i \in setReq'[p].rows : rowOf'[i] = NoRow
                      /\ \A t \in SetRequests \ {p} :
                            UpdatingSet(t)' => setReq'[p].rows \intersect setReq'[t].rows = {}
                      /\ setReq'[p].op = "updating" => setReq'[p].seen = RowsOfSet(setReq[p].set)'
      BY <1>2 DEF UpdatesPrepared, UpdatingSet, SetIdle
  <2>1. p # r /\ setReq'[p] = setReq[p] /\ UpdatingSet(p)
      BY <1>2 DEF UpdatingSet, SetIdle
  <2>2. setReq[p].set \in Sets /\ setReq[p].rows \subseteq SetRows
      BY <2>1, SetRequestKinds DEF GearSetTypeOK, UpdatingSet
  <2>3. set[setReq[p].set] # NoSet /\ \A i \in setReq[p].rows : rowOf[i] = NoRow
      BY <2>1 DEF UpdatesPrepared
  <2>4. setReq[p].rows \intersect q.rows = {}
      BY <1>0, <1>1, <2>1 DEF UpdatesPrepared
  <2>5. set'[setReq[p].set] # NoSet
      BY <1>5, <2>2, <2>3, HeadersAreSets DEF SetExists
  <2>6. \A i \in setReq[p].rows : rowOf'[i] = NoRow
      BY <1>3, <2>2, <2>3, <2>4, HeadersAreSets
  <2>7. \A t \in SetRequests \ {p} :
            UpdatingSet(t)' => setReq'[p].rows \intersect setReq'[t].rows = {}
      BY <1>2, <2>1 DEF UpdatesPrepared, UpdatingSet, SetIdle
  <2>8. setReq[p].op = "updating" => setReq[p].set # s
      BY <1>0, <1>1, <2>1 DEF HeadersExclude
  <2>9. setReq[p].op = "updating" => setReq[p].seen = RowsOfSet(setReq[p].set)'
      BY <1>6, <2>1, <2>2, <2>8 DEF UpdatesPrepared
  <2> QED BY <2>1, <2>5, <2>6, <2>7, <2>9
<1>11. HeadersExclude'
    BY <1>2 DEF HeadersExclude, SetIdle
<1> QED BY <1>7, <1>9, <1>10, <1>11

LEMMA DeleteSetKeeps ==
    ASSUME SetsInv, NEW r \in SetRequests, DeleteGearSetWrite(r)
    PROVE  SetsInv'
<1> USE DEF SetsInv
<1> DEFINE s == setReq[r].set
<1>1. s \in Sets /\ SetExists(s) /\ ~HeaderHeld(s) /\ setReq[r].op = "delete"
    BY SetRequestKinds DEF DeleteGearSetWrite, GearSetTypeOK
<1>2. /\ setReq' \in [SetRequests -> SetRequest]
      /\ \A p \in SetRequests : setReq'[p] = IF p = r THEN SetIdle ELSE setReq[p]
      /\ \A p \in Sets : set'[p] = IF p = s THEN NoRow ELSE set[p]
      /\ \A i \in SetRows : rowOf'[i] = IF rowOf[i] = s THEN NoRow ELSE rowOf[i]
      /\ set' \in [Sets -> SetHeader \union {NoSet, NoRow}]
      /\ rowOf' \in [SetRows -> Sets \union {NoRow}]
    BY DEF DeleteGearSetWrite, FinishOnSet, GearSetTypeOK, SetRequest
<1>3. GearSetTypeOK'
    BY <1>2 DEF GearSetTypeOK
<1>4. \A p \in Sets \ {s} : RowsOfSet(p)' = RowsOfSet(p)
  <2> SUFFICES ASSUME NEW p \in Sets \ {s} PROVE RowsOfSet(p)' = RowsOfSet(p)
      OBVIOUS
  <2>1. \A i \in SetRows : rowOf'[i] = p <=> rowOf[i] = p
      BY <1>2, HeadersAreSets
  <2> QED BY <2>1 DEF RowsOfSet
<1>5. SetsAreWhole'
  <2>1. \A p \in Sets : SetExists(p)' => RowsOfSet(p)' \intersect SetItems = set'[p].totals
      BY <1>2, <1>4 DEF SetsAreWhole, SetExists
  <2>2. \A i \in SetRows : rowOf'[i] # NoRow => set'[rowOf'[i]] \notin {NoSet, NoRow}
    <3>1. \A i \in SetRows : rowOf[i] # NoRow => set[rowOf[i]] \notin {NoSet, NoRow} /\ rowOf[i] \in Sets
        BY DEF SetsAreWhole, GearSetTypeOK, SetExists
    <3> QED BY <1>2, <3>1
  <2> QED BY <2>1, <2>2 DEF SetsAreWhole, SetExists
<1>6. UpdatesPrepared'
  <2> SUFFICES ASSUME NEW p \in SetRequests, UpdatingSet(p)'
               PROVE  /\ set'[setReq'[p].set] # NoSet
                      /\ \A i \in setReq'[p].rows : rowOf'[i] = NoRow
                      /\ \A t \in SetRequests \ {p} :
                            UpdatingSet(t)' => setReq'[p].rows \intersect setReq'[t].rows = {}
                      /\ setReq'[p].op = "updating" => setReq'[p].seen = RowsOfSet(setReq[p].set)'
      BY <1>2 DEF UpdatesPrepared, UpdatingSet, SetIdle
  <2>1. p # r /\ setReq'[p] = setReq[p] /\ UpdatingSet(p)
      BY <1>2 DEF UpdatingSet, SetIdle
  <2>2. setReq[p].set \in Sets /\ setReq[p].rows \subseteq SetRows
      BY <2>1, SetRequestKinds DEF GearSetTypeOK, UpdatingSet
  <2>3. set[setReq[p].set] # NoSet /\ \A i \in setReq[p].rows : rowOf[i] = NoRow
      BY <2>1 DEF UpdatesPrepared
  <2>4. set'[setReq[p].set] # NoSet /\ \A i \in setReq[p].rows : rowOf'[i] = NoRow
      BY <1>2, <2>2, <2>3, HeadersAreSets
  <2>5. \A t \in SetRequests \ {p} :
            UpdatingSet(t)' => setReq'[p].rows \intersect setReq'[t].rows = {}
      BY <1>2, <2>1 DEF UpdatesPrepared, UpdatingSet, SetIdle
  <2>6. setReq[p].op = "updating" => setReq[p].set # s
      BY <1>1, <2>1 DEF HeaderHeld
  <2>7. setReq[p].op = "updating" => setReq[p].seen = RowsOfSet(setReq[p].set)'
      BY <1>4, <2>1, <2>2, <2>6 DEF UpdatesPrepared
  <2> QED BY <2>1, <2>4, <2>5, <2>7
<1>7. HeadersExclude'
    BY <1>2 DEF HeadersExclude, SetIdle
<1> QED BY <1>3, <1>5, <1>6, <1>7

LEMMA SetsInvStep == SetsInv /\ [SetsNext]_setVars => SetsInv'
<1> SUFFICES ASSUME SetsInv, [SetsNext]_setVars PROVE SetsInv'
    OBVIOUS
<1>1. CASE PostGearSet
    BY <1>1, CreateKeeps DEF PostGearSet
<1>2. ASSUME NEW r \in SetRequests, PutGearSet(r) PROVE SetsInv'
  <2>1. PICK u \in Owners, s \in Sets, rows \in SUBSET SetRows : UpdateGearSetCheck(r, u, s, rows)
      BY <1>2 DEF PutGearSet
  <2> DEFINE q == [op |-> "update", set |-> s, rows |-> rows, seen |-> {}]
  <2>2. q \in SetRequest /\ q.op = "update" /\ NewRows(q.rows) /\ SetExists(q.set)
      BY <2>1 DEF SetRequest, UpdateGearSetCheck
  <2> QED BY <2>1, <2>2, SetRequestsKeep DEF UpdateGearSetCheck, StartOnSet
<1>3. ASSUME NEW r \in SetRequests, RemoveGearSet(r) PROVE SetsInv'
  <2>1. PICK u \in Owners, s \in Sets : DeleteGearSetCheck(r, u, s)
      BY <1>3 DEF RemoveGearSet
  <2> DEFINE q == [op |-> "delete", set |-> s]
  <2>2. q \in SetRequest /\ q.op = "delete"
      BY DEF SetRequest
  <2> QED BY <2>1, <2>2, SetRequestsKeep DEF DeleteGearSetCheck, StartOnSet
<1>4. ASSUME NEW r \in SetRequests, GiveUpOnSet(r) PROVE SetsInv'
  <2>1. SetIdle \in SetRequest /\ SetIdle.op = "idle"
      BY DEF SetRequest, SetIdle
  <2> QED BY <1>4, <2>1, SetRequestsKeep DEF GiveUpOnSet, FinishOnSet
<1>5. CASE UNCHANGED setVars
    BY <1>5 DEF setVars, SetsInv, GearSetTypeOK, SetsAreWhole, UpdatesPrepared, HeadersExclude,
                SetExists, RowsOfSet, UpdatingSet
<1> QED BY <1>1, <1>2, <1>3, <1>4, <1>5, HeaderKeeps, CommitKeeps, DeleteSetKeeps DEF SetsNext
-----------------------------------------------------------------------------
(* Lists.                                                                  *)

LEMMA UploadKinds ==
    ASSUME NEW q \in Upload, q.op = "upload"
    PROVE  /\ q.owner \in ListOwners
           /\ q.ids \subseteq Entries
           /\ q.seen \subseteq Entries
           /\ q.references \in [TripGear -> References]
BY DEF Upload, UploadIdle

LEMMA ListsInvInit == ListsInit => ListsInv
BY DEF ListsInit, ListsInv, ListsTypeOK, ReferencesAreListed, SeenIsOwned, Uploading, Upload, UploadIdle, References

(* Uploads that start with what their owner has, or end.                   *)
LEMMA UploadsKeep ==
    ASSUME ListsInv, NEW r \in Uploads, NEW q \in Upload,
           upload' = [upload EXCEPT ![r] = q], UNCHANGED <<ownerOf, reference>>,
           q.op = "upload" => \A i \in q.seen : ownerOf[i] = q.owner
    PROVE  ListsInv' /\ UNCHANGED ownerOf
BY DEF ListsInv, ListsTypeOK, ReferencesAreListed, SeenIsOwned, Uploading, Listed

LEMMA CreateEntryKeeps ==
    ASSUME ListsInv, NEW o \in ListOwners, NEW i \in Entries, CreateEntry(o, i),
           reference' \in [TripGear -> References],
           \A j \in TripGear : reference'[j] # reference[j] => j = i /\ MayRefer(reference'[j])
    PROVE  ListsInv' /\ \A j \in Entries : Listed(j) => ownerOf'[j] = ownerOf[j]
<1> USE DEF ListsInv
<1>1. /\ \A j \in Entries : ownerOf'[j] = IF j = i THEN o ELSE ownerOf[j]
      /\ ownerOf' \in [Entries -> ListOwners \union {NoEntry}]
      /\ upload' = upload
      /\ ownerOf[i] = NoEntry /\ o # NoEntry
    BY NoEntryIsNoData DEF CreateEntry, NewEntry, Listed, ListsTypeOK
<1>2. ListsTypeOK'
    BY <1>1 DEF ListsTypeOK
<1>3. \A j \in Entries : ownerOf[j] # NoEntry => ownerOf'[j] = ownerOf[j]
    BY <1>1
<1>4. ReferencesAreListed'
  <2> SUFFICES ASSUME NEW j \in TripGear, reference'[j] # NoEntry
               PROVE  ownerOf'[j] # NoEntry /\ ownerOf'[reference'[j]] # NoEntry
      BY DEF ReferencesAreListed, Listed
  <2>1. j \in Entries /\ reference'[j] \in Entries
      BY DEF Entries, References
  <2>2. CASE reference'[j] = reference[j]
      BY <2>1, <2>2, <1>3 DEF ReferencesAreListed, Listed
  <2>3. CASE reference'[j] # reference[j]
      BY <2>1, <2>3, <1>1, <1>3 DEF MayRefer, Listed
  <2> QED BY <2>2, <2>3
<1>5. SeenIsOwned'
  <2> SUFFICES ASSUME NEW r \in Uploads, Uploading(r), NEW j \in upload[r].seen
               PROVE  ownerOf'[j] = upload[r].owner
      BY <1>1 DEF SeenIsOwned, Uploading
  <2>1. upload[r].owner # NoEntry /\ j \in Entries
      BY UploadKinds, NoEntryIsNoData DEF ListsTypeOK, Uploading
  <2> QED BY <2>1, <1>3 DEF SeenIsOwned
<1> QED BY <1>2, <1>3, <1>4, <1>5 DEF Listed

LEMMA DeleteEntryKeeps ==
    ASSUME ListsInv, NEW o, NEW i \in Entries, DeleteEntry(o, i)
    PROVE  ListsInv' /\ \A j \in Entries : Listed(j)' => ownerOf'[j] = ownerOf[j]
<1> USE DEF ListsInv
<1>1. /\ \A j \in Entries : ownerOf'[j] = IF j = i THEN NoEntry ELSE ownerOf[j]
      /\ ownerOf' \in [Entries -> ListOwners \union {NoEntry}]
      /\ upload' = upload
      /\ \A r \in Uploads : Uploading(r) => i \notin upload[r].seen
    BY DEF DeleteEntry, Held, ListsTypeOK
<1>2. /\ \A j \in TripGear : reference'[j] = IF j = i \/ reference[j] = i THEN NoEntry ELSE reference[j]
      /\ reference' \in [TripGear -> References]
    BY DEF DeleteEntry, ReferencesWithout, ListsTypeOK, References
<1>3. ListsTypeOK'
    BY <1>1, <1>2 DEF ListsTypeOK
<1>4. ReferencesAreListed'
  <2> SUFFICES ASSUME NEW j \in TripGear, reference'[j] # NoEntry
               PROVE  ownerOf'[j] # NoEntry /\ ownerOf'[reference'[j]] # NoEntry
      BY DEF ReferencesAreListed, Listed
  <2>1. j \in Entries /\ reference'[j] = reference[j] /\ j # i /\ reference[j] # i
      BY <1>2 DEF Entries
  <2>2. reference[j] \in Entries
      BY <2>1 DEF ListsTypeOK, References, Entries
  <2> QED BY <2>1, <2>2, <1>1 DEF ReferencesAreListed, Listed
<1>5. SeenIsOwned'
  <2> SUFFICES ASSUME NEW r \in Uploads, Uploading(r), NEW j \in upload[r].seen
               PROVE  ownerOf'[j] = upload[r].owner
      BY <1>1 DEF SeenIsOwned, Uploading
  <2>1. j \in Entries
      BY UploadKinds DEF ListsTypeOK, Uploading
  <2> QED BY <2>1, <1>1 DEF SeenIsOwned
<1> QED BY <1>1, <1>3, <1>4, <1>5 DEF Listed

LEMMA UpdateTripGearKeeps ==
    ASSUME ListsInv, NEW t \in GearTrips, NEW i \in TripGear, NEW l \in References,
           UpdateTripGear(t, i, l)
    PROVE  ListsInv' /\ UNCHANGED ownerOf
<1> USE DEF ListsInv
<1>1. /\ reference' \in [TripGear -> References]
      /\ \A j \in TripGear : reference'[j] = IF j = i THEN l ELSE reference[j]
      /\ UNCHANGED <<ownerOf, upload>>
      /\ ownerOf[i] = t /\ t # NoEntry /\ MayRefer(l)
    BY NoEntryIsNoData DEF UpdateTripGear, ListsTypeOK, ListOwners
<1>2. ListsTypeOK' /\ SeenIsOwned'
    BY <1>1 DEF ListsTypeOK, SeenIsOwned, Uploading
<1>3. ReferencesAreListed'
    BY <1>1 DEF ReferencesAreListed, Listed, MayRefer
<1> QED BY <1>1, <1>2, <1>3

LEMMA ReplaceInsertKeeps ==
    ASSUME ListsInv, NEW r \in Uploads, ReplaceInsert(r)
    PROVE  ListsInv' /\ \A j \in Entries : Listed(j) /\ Listed(j)' => ownerOf'[j] = ownerOf[j]
<1> USE DEF ListsInv
<1>0. PICK q \in Upload : q = upload[r] /\ q.op = "upload"
    BY DEF ReplaceInsert, ListsTypeOK, Uploading
<1>1. /\ q.owner \in ListOwners /\ q.owner # NoEntry
      /\ q.ids \subseteq Entries /\ q.seen \subseteq Entries
      /\ q.references \in [TripGear -> References]
      /\ \A i \in q.seen : ownerOf[i] = q.owner
    BY <1>0, UploadKinds, NoEntryIsNoData DEF SeenIsOwned, Uploading
<1>2. /\ \A j \in Entries : ownerOf'[j] = IF j \in q.ids THEN q.owner
                                            ELSE IF j \in q.seen THEN NoEntry ELSE ownerOf[j]
      /\ ownerOf' \in [Entries -> ListOwners \union {NoEntry}]
      /\ \A i \in q.ids : ownerOf[i] = NoEntry \/ i \in q.seen
      /\ \A i \in q.ids \intersect TripGear : MayRefer(q.references[i])
    BY <1>0, <1>1 DEF ReplaceInsert, MayInsert, Listed, ListsTypeOK
<1>3. /\ \A j \in TripGear : reference'[j] = IF j \in q.ids THEN q.references[j]
                                              ELSE IF j \in q.seen \/ reference[j] \in q.seen
                                              THEN NoEntry ELSE reference[j]
      /\ reference' \in [TripGear -> References]
    BY <1>0, <1>1 DEF ReplaceInsert, ReferencesWithout, ListsTypeOK, References
<1>4. \A s \in Uploads : /\ s = r => upload'[s] = UploadIdle
                         /\ s # r /\ Uploading(s) =>
                               upload'[s] = [upload[s] EXCEPT !.seen = @ \ (q.seen \union q.ids)]
                         /\ s # r /\ ~Uploading(s) => upload'[s] = upload[s]
    BY <1>0 DEF ReplaceInsert
<1>5. ASSUME NEW s \in Uploads, s # r, Uploading(s)
      PROVE  /\ upload'[s] \in Upload
             /\ upload'[s].owner = upload[s].owner
             /\ upload'[s].seen = upload[s].seen \ (q.seen \union q.ids)
             /\ upload[s].seen \subseteq Entries
  <2>1. upload[s] \in [op : {"upload"}, owner : ListOwners, ids : SUBSET Entries,
                       references : [TripGear -> References], seen : SUBSET Entries]
      BY <1>5 DEF Upload, UploadIdle, Uploading, ListsTypeOK
  <2>2. upload'[s] = [upload[s] EXCEPT !.seen = upload[s].seen \ (q.seen \union q.ids)]
      BY <1>4, <1>5
  <2> DEFINE u == upload[s]
             left == u.seen \ (q.seen \union q.ids)
  <2>3. left \in SUBSET Entries
      BY <2>1
  <2> HIDE DEF left
  <2>4. /\ [u EXCEPT !.seen = left] \in
                [op : {"upload"}, owner : ListOwners, ids : SUBSET Entries,
                 references : [TripGear -> References], seen : SUBSET Entries]
        /\ [u EXCEPT !.seen = left].owner = u.owner
        /\ [u EXCEPT !.seen = left].seen = left
      BY <2>1, <2>3
  <2> QED BY <2>1, <2>2, <2>4 DEF left, Upload
<1>5a. \A s \in Uploads : upload'[s] \in Upload
  <2>1. UploadIdle \in Upload /\ \A s \in Uploads : upload[s] \in Upload
      BY DEF Upload, ListsTypeOK
  <2> QED BY <2>1, <1>4, <1>5
<1>6. ListsTypeOK'
    BY <1>2, <1>3, <1>5a DEF ListsTypeOK, ReplaceInsert
<1>7. ReferencesAreListed'
  <2> SUFFICES ASSUME NEW j \in TripGear, reference'[j] # NoEntry
               PROVE  ownerOf'[j] # NoEntry /\ ownerOf'[reference'[j]] # NoEntry
      BY DEF ReferencesAreListed, Listed
  <2>1. j \in Entries /\ reference'[j] \in Entries
      BY <1>3 DEF Entries, References
  <2>2. CASE j \in q.ids
    <3>1. reference'[j] = q.references[j] /\ Listed(q.references[j]) /\ ~Held(q.references[j])
        BY <2>2, <1>2, <1>3 DEF MayRefer
    <3>2. q.references[j] \notin q.seen
        BY <3>1, <1>0 DEF Held, Uploading
    <3> QED BY <2>1, <2>2, <3>1, <3>2, <1>1, <1>2 DEF Listed
  <2>3. CASE j \notin q.ids
    <3>1. reference'[j] = reference[j] /\ j \notin q.seen /\ reference[j] \notin q.seen
        BY <2>3, <1>3
    <3>2. ownerOf[j] # NoEntry /\ ownerOf[reference[j]] # NoEntry
        BY <3>1 DEF ReferencesAreListed, Listed
    <3> QED BY <2>1, <3>1, <3>2, <1>1, <1>2
  <2> QED BY <2>2, <2>3
<1>8. SeenIsOwned'
  <2> SUFFICES ASSUME NEW s \in Uploads, upload'[s].op = "upload", NEW j \in upload'[s].seen
               PROVE  ownerOf'[j] = upload'[s].owner
      BY DEF SeenIsOwned, Uploading
  <2>1. s # r
    <3>1. UploadIdle.op # "upload"
        BY DEF UploadIdle
    <3> QED BY <3>1, <1>4
  <2>2. Uploading(s)
    <3>1. ~Uploading(s) => upload'[s] = upload[s]
        BY <2>1, <1>4
    <3> QED BY <3>1 DEF Uploading
  <2>3. /\ upload'[s].owner = upload[s].owner
        /\ j \in upload[s].seen /\ j \notin q.seen \union q.ids /\ j \in Entries
      BY <2>1, <2>2, <1>5
  <2> QED BY <2>1, <2>2, <2>3, <1>2 DEF SeenIsOwned
<1> QED BY <1>1, <1>2, <1>6, <1>7, <1>8 DEF Listed
LEMMA ListsInvStep ==
    ListsInv /\ [ListsNext]_listVars =>
        ListsInv' /\ \A j \in Entries : Listed(j) /\ Listed(j)' => ownerOf'[j] = ownerOf[j]
<1> DEFINE Good == ListsInv' /\ \A j \in Entries : Listed(j) /\ Listed(j)' => ownerOf'[j] = ownerOf[j]
<1> SUFFICES ASSUME ListsInv, [ListsNext]_listVars PROVE Good
    OBVIOUS
<1>0. /\ reference \in [TripGear -> References]
      /\ LibraryGear \subseteq Entries /\ LibraryMeals \subseteq Entries /\ TripGear \subseteq Entries
      /\ People \subseteq ListOwners /\ GearTrips \subseteq ListOwners
    BY DEF ListsInv, ListsTypeOK, Entries, ListOwners
<1>1. CASE PostGearLibrary \/ PostMealLibrary
    BY <1>0, <1>1, CreateEntryKeeps
       DEF PostGearLibrary, PostMealLibrary, AddLibraryGear, AddLibraryMeal, SameReferences
<1>2. CASE RemoveGearLibrary \/ RemoveMealLibrary \/ RemoveTripGearItem
    BY <1>0, <1>2, DeleteEntryKeeps
       DEF RemoveGearLibrary, RemoveMealLibrary, RemoveTripGearItem, RemoveLibraryMeal, RemoveTripGear
<1>3. CASE PostTripGear
  <2>1. PICK t \in GearTrips, i \in TripGear, l \in References : AddTripGear(t, i, l)
      BY <1>3 DEF PostTripGear
  <2>2. /\ reference' \in [TripGear -> References]
        /\ \A j \in TripGear : reference'[j] = IF j = i THEN l ELSE reference[j]
        /\ MayRefer(l) /\ CreateEntry(t, i)
      BY <2>1, <1>0 DEF AddTripGear
  <2>3. \A j \in TripGear : reference'[j] # reference[j] => j = i /\ MayRefer(reference'[j])
      BY <2>2
  <2> QED BY <2>2, <2>3, <1>0, CreateEntryKeeps
<1>4. CASE PutTripGearItem
    BY <1>4, UpdateTripGearKeeps DEF PutTripGearItem, Listed
<1>5. ASSUME NEW r \in Uploads, NEW o \in ListOwners, NEW table \in SUBSET Entries,
             NEW ids \in SUBSET Entries, NEW references \in [TripGear -> References],
             ReplaceDelete(r, o, table, ids, references)
      PROVE  Good
  <2> DEFINE q == [op |-> "upload", owner |-> o, ids |-> ids, references |-> references,
                   seen |-> OwnedBy(o, table)]
  <2>1. q \in Upload /\ \A i \in q.seen : ownerOf[i] = q.owner
      BY DEF Upload, OwnedBy
  <2> QED BY <1>5, <2>1, UploadsKeep DEF ReplaceDelete, Listed
<1>6. ASSUME NEW r \in Uploads, PutGearLibrary(r) \/ PutMealLibrary(r) \/ PutTripGear(r) PROVE Good
  <2>1. NoReferences \in [TripGear -> References]
      BY DEF NoReferences, References
  <2>2. CASE PutGearLibrary(r)
      BY <2>1, <2>2, <1>0, <1>5 DEF PutGearLibrary, ReplaceLibraryGear
  <2>3. CASE PutMealLibrary(r)
      BY <2>1, <2>3, <1>0, <1>5 DEF PutMealLibrary, ReplaceLibraryMeals
  <2>4. CASE PutTripGear(r)
    <3>1. PICK t \in GearTrips, ids \in SUBSET TripGear : \E chosen \in [ids -> References] :
              ReplaceTripGear(r, t, ids, [i \in TripGear |-> IF i \in ids THEN chosen[i] ELSE NoEntry])
        BY <2>4 DEF PutTripGear
    <3>2. PICK chosen \in [ids -> References] :
              ReplaceTripGear(r, t, ids, [i \in TripGear |-> IF i \in ids THEN chosen[i] ELSE NoEntry])
        BY <3>1
    <3>3. [i \in TripGear |-> IF i \in ids THEN chosen[i] ELSE NoEntry] \in [TripGear -> References]
        BY DEF References
    <3> QED BY <3>2, <3>3, <1>0, <1>5 DEF ReplaceTripGear
  <2> QED BY <1>6, <2>2, <2>3, <2>4
<1>7. ASSUME NEW r \in Uploads, UploadFails(r) PROVE Good
  <2>1. UploadIdle \in Upload /\ UploadIdle.op # "upload"
      BY DEF Upload, UploadIdle
  <2> QED BY <1>7, <2>1, UploadsKeep DEF UploadFails, Listed
<1>8. CASE UNCHANGED listVars
    BY <1>8 DEF listVars, ListsInv, ListsTypeOK, ReferencesAreListed, SeenIsOwned, Uploading, Listed
<1> QED BY <1>1, <1>2, <1>3, <1>4, <1>6, <1>7, <1>8, ReplaceInsertKeeps DEF ListsNext

-----------------------------------------------------------------------------
(* Heartbeats.                                                             *)

LEMMA BeatKinds ==
    ASSUME NEW q \in Beat, q.op = "beat"
    PROVE  /\ q \in [op : {"beat"}, user : Viewers, report : Counts, read : Counts, fresh : BOOLEAN]
           /\ q.user \in Viewers /\ q.report \in Counts /\ q.read \in Counts
BY DEF Beat, BeatIdle

LEMMA RaisedIsGreater ==
    ASSUME NEW q \in Beat, q.op = "beat"
    PROVE  Raised(q) \in Counts /\ \A v \in Views : Raised(q)[v] >= q.read[v]
BY BeatKinds, CountIsBounded DEF Raised, Counts

LEMMA BeatsInvInit == BeatsInit => BeatsInv
BY CountIsBounded DEF BeatsInit, BeatsInv, BeatsTypeOK, FreshIsCurrent, Counts, Beat, BeatIdle, Beating

(* What CountsGrow says of one step. *)
LEMMA BeatsInvStep ==
    BeatsInv /\ [BeatsNext]_beatVars =>
        /\ BeatsInv'
        /\ \A u \in Viewers, v \in Views :
              viewStats'[u][v] < viewStats[u][v] =>
                  \E r \in Beats : Beating(r) /\ beat[r].user = u /\ ~beat[r].fresh /\ beat'[r] = BeatIdle
<1> SUFFICES ASSUME BeatsInv, [BeatsNext]_beatVars
             PROVE  /\ BeatsInv'
                    /\ \A u \in Viewers, v \in Views :
                          viewStats'[u][v] < viewStats[u][v] =>
                              \E r \in Beats : /\ Beating(r) /\ beat[r].user = u
                                               /\ ~beat[r].fresh /\ beat'[r] = BeatIdle
    OBVIOUS
<1> USE DEF BeatsInv
<1>0. \A u \in Viewers, v \in Views : ~(viewStats[u][v] < viewStats[u][v])
    BY CountIsBounded DEF BeatsTypeOK, Counts
<1>1. ASSUME NEW r \in Beats, PostHeartbeat(r)
      PROVE  BeatsInv' /\ UNCHANGED viewStats
  <2>1. PICK u \in Viewers, report \in Counts : HeartbeatRead(r, u, report)
      BY <1>1 DEF PostHeartbeat
  <2>2. viewStats[u] \in Counts /\ NoCounts \in Counts
      BY CountIsBounded DEF BeatsTypeOK, NoCounts, Counts
  <2>3. PICK failed \in BOOLEAN :
            beat' = [beat EXCEPT ![r] = [op |-> "beat", user |-> u, report |-> report,
                                        read |-> IF failed THEN NoCounts ELSE viewStats[u],
                                        fresh |-> ~failed]]
      BY <2>1 DEF HeartbeatRead
  <2> DEFINE read == IF failed THEN NoCounts ELSE viewStats[u]
             q == [op |-> "beat", user |-> u, report |-> report, read |-> read, fresh |-> ~failed]
  <2>4. read \in Counts /\ (~failed => read = viewStats[u])
      BY <2>2
  <2> HIDE DEF read
  <2>5. q \in Beat /\ (q.fresh => q.read = viewStats[q.user])
      BY <2>4 DEF Beat
  <2>6. beat' = [beat EXCEPT ![r] = q] /\ UNCHANGED viewStats
      BY <2>1, <2>3 DEF HeartbeatRead, read
  <2> HIDE DEF q
  <2> QED BY <2>5, <2>6 DEF BeatsTypeOK, FreshIsCurrent, Beating
<1>2. ASSUME NEW r \in Beats, HeartbeatFails(r)
      PROVE  BeatsInv' /\ UNCHANGED viewStats
    BY <1>2 DEF HeartbeatFails, BeatsTypeOK, FreshIsCurrent, Beating, Beat, BeatIdle
<1>3. ASSUME NEW r \in Beats, HeartbeatUpsert(r)
      PROVE  /\ BeatsInv'
             /\ \A u \in Viewers, v \in Views :
                   viewStats'[u][v] < viewStats[u][v] =>
                       Beating(r) /\ beat[r].user = u /\ ~beat[r].fresh /\ beat'[r] = BeatIdle
  <2>0. PICK q \in Beat : q = beat[r] /\ q.op = "beat"
      BY <1>3 DEF HeartbeatUpsert, BeatsTypeOK, Beating
  <2>1. q.user \in Viewers /\ Raised(q) \in Counts /\ \A v \in Views : Raised(q)[v] >= q.read[v]
      BY <2>0, BeatKinds, RaisedIsGreater
  <2>2. /\ viewStats' \in [Viewers -> Counts]
        /\ \A u \in Viewers : viewStats'[u] = IF u = q.user THEN Raised(q) ELSE viewStats[u]
      BY <1>3, <2>0, <2>1 DEF HeartbeatUpsert, BeatsTypeOK
  <2>3. /\ beat'[r] = BeatIdle
        /\ \A s \in Beats \ {r} :
              /\ Beating(s) /\ beat[s].user = q.user => beat'[s] = [beat[s] EXCEPT !.fresh = FALSE]
              /\ ~(Beating(s) /\ beat[s].user = q.user) => beat'[s] = beat[s]
      BY <1>3, <2>0 DEF HeartbeatUpsert
  <2>4. ASSUME NEW s \in Beats \ {r}, Beating(s), beat[s].user = q.user
        PROVE  beat'[s] \in Beat /\ ~beat'[s].fresh
    <3>1. beat[s] \in [op : {"beat"}, user : Viewers, report : Counts, read : Counts, fresh : BOOLEAN]
        BY <2>4, BeatKinds DEF BeatsTypeOK, Beating
    <3>2. beat'[s] = [beat[s] EXCEPT !.fresh = FALSE]
        BY <2>3, <2>4
    <3> QED BY <3>1, <3>2 DEF Beat
  <2>5. beat' \in [Beats -> Beat]
    <3>1. BeatIdle \in Beat /\ \A s \in Beats : beat[s] \in Beat
        BY DEF Beat, BeatsTypeOK
    <3>2. \A s \in Beats : beat'[s] \in Beat
        BY <2>3, <2>4, <3>1
    <3> QED BY <3>2, <1>3 DEF HeartbeatUpsert
  <2>6. FreshIsCurrent'
    <3> SUFFICES ASSUME NEW s \in Beats, beat'[s].op = "beat", beat'[s].fresh
                 PROVE  beat'[s].read = viewStats'[beat'[s].user]
        BY DEF FreshIsCurrent, Beating
    <3>1. s # r
      <4>1. BeatIdle.op # "beat"
          BY DEF BeatIdle
      <4> QED BY <4>1, <2>3
    <3>2. beat'[s] = beat[s] /\ Beating(s) /\ beat[s].user # q.user
      <4>1. CASE Beating(s) /\ beat[s].user = q.user
          BY <4>1, <3>1, <2>4
      <4>2. CASE ~(Beating(s) /\ beat[s].user = q.user)
          BY <4>2, <3>1, <2>3 DEF Beating
      <4> QED BY <4>1, <4>2
    <3>3. beat[s].user \in Viewers
        BY <3>2, BeatKinds DEF BeatsTypeOK, Beating
    <3> QED BY <3>2, <3>3, <2>2 DEF FreshIsCurrent
  <2>7. ASSUME NEW u \in Viewers, NEW v \in Views, viewStats'[u][v] < viewStats[u][v]
        PROVE  u = q.user /\ ~q.fresh
    <3>1. u = q.user
        BY <2>2, <2>7, <1>0
    <3>2. CASE q.fresh
      <4>1. q.read = viewStats[u]
          BY <3>1, <3>2, <2>0 DEF FreshIsCurrent, Beating
      <4>2. viewStats'[u][v] >= viewStats[u][v]
          BY <4>1, <3>1, <2>1, <2>2
      <4>3. viewStats'[u][v] \in Nat /\ viewStats[u][v] \in Nat
          BY <2>2, CountIsBounded DEF BeatsTypeOK, Counts
      <4> QED BY <4>2, <4>3, <2>7
    <3> QED BY <3>1, <3>2
  <2> QED BY <2>0, <2>2, <2>3, <2>5, <2>6, <2>7 DEF BeatsTypeOK, Beating
<1>4. CASE UNCHANGED beatVars
    BY <1>0, <1>4 DEF beatVars, BeatsTypeOK, FreshIsCurrent, Beating
<1> QED BY <1>0, <1>1, <1>2, <1>3, <1>4 DEF BeatsNext

-----------------------------------------------------------------------------
(* What a request goes through.                                            *)

\* A running request has steps before it, and the service comes last.
ServiceIsLast ==
    \A c \in Calls : Running(c) =>
        LET rest == call[c].rest
        IN  rest # <<>> /\ \A i \in 1 .. Len(rest) : rest[i] = "service" <=> i = Len(rest)

\* No token becomes good again, so whoever is known came in time.
KnownCameInTime ==
    \A c \in Calls :
        /\ call[c].late => Unusable(call[c].token)
        /\ call[c].user => ~call[c].late /\ call[c].token # NoToken

\* A request to an operation that is not open is its user's, or will be asked.
ClosedWillAsk ==
    \A c \in Calls : Running(c) /\ call[c].op \notin OpenOperations =>
        \/ call[c].user
        \/ Has(call[c].rest, "user")
        \/ ScopesFirst(call[c].rest)
        \/ call[c].scoped /\ Has(call[c].rest, "jwt")

RequestsInv == GateTypeOK /\ ServiceIsLast /\ KnownCameInTime /\ ClosedWillAsk

(* Dropping the first of several steps.                                    *)
LEMMA TailSteps ==
    ASSUME NEW s \in Seq(Steps), s # <<>>, Head(s) # "service",
           \A i \in 1 .. Len(s) : s[i] = "service" <=> i = Len(s)
    PROVE  /\ Tail(s) \in Seq(Steps) /\ Tail(s) # <<>>
           /\ \A i \in 1 .. Len(Tail(s)) : Tail(s)[i] = "service" <=> i = Len(Tail(s))
           /\ \A step : Has(s, step) /\ Head(s) # step => Has(Tail(s), step)
           /\ ScopesFirst(s) /\ Head(s) # "scope" => ScopesFirst(Tail(s))
           /\ ScopesFirst(s) => Has(Tail(s), "jwt")
<1> DEFINE n == Len(s)
           t == Tail(s)
<1>1. /\ n \in Nat /\ n >= 1 /\ Head(s) = s[1]
      /\ t \in Seq(Steps) /\ Len(t) = n - 1
      /\ \A i \in 1 .. n - 1 : t[i] = s[i + 1]
    OBVIOUS
<1> HIDE DEF n, t
<1>2. n > 1
  <2>1. s[1] = "service" <=> 1 = n
      BY <1>1 DEF n
  <2> QED BY <2>1, <1>1
<1>3. ASSUME NEW i \in 1 .. n, i # 1
      PROVE  i - 1 \in 1 .. n - 1 /\ t[i - 1] = s[i]
  <2>1. i - 1 \in 1 .. n - 1 /\ (i - 1) + 1 = i
      BY <1>1, <1>3
  <2> QED BY <2>1, <1>1
<1>4. t # <<>> /\ \A i \in 1 .. Len(t) : t[i] = "service" <=> i = Len(t)
    BY <1>1, <1>2 DEF n
<1>5. ASSUME NEW step, Has(s, step), Head(s) # step
      PROVE  Has(t, step)
  <2>1. PICK i \in 1 .. n : s[i] = step
      BY <1>5 DEF Has, n
  <2> QED BY <2>1, <1>1, <1>3, <1>5 DEF Has
<1>6. ASSUME ScopesFirst(s)
      PROVE  Has(t, "jwt") /\ (Head(s) # "scope" => ScopesFirst(t))
  <2>1. PICK i \in 1 .. n, j \in 1 .. n : i < j /\ s[i] = "scope" /\ s[j] = "jwt"
      BY <1>6 DEF ScopesFirst, n
  <2>2. j - 1 \in 1 .. n - 1 /\ t[j - 1] = "jwt"
      BY <2>1, <1>3
  <2>3. Head(s) # "scope" => i - 1 \in 1 .. n - 1 /\ t[i - 1] = "scope" /\ i - 1 < j - 1
      BY <2>1, <1>1, <1>3
  <2> QED BY <2>2, <2>3, <1>1 DEF Has, ScopesFirst
<1> QED BY <1>1, <1>4, <1>5, <1>6 DEF t

LEMMA CallKinds ==
    ASSUME GateTypeOK, NEW c \in Calls
    PROVE  /\ call[c] \in Call
           /\ call[c].op \in Operations /\ call[c].rest \in Seq(Steps)
           /\ call[c].token \in AccessTokens \union {NoToken}
           /\ call[c].scoped \in BOOLEAN /\ call[c].user \in BOOLEAN /\ call[c].late \in BOOLEAN
BY DEF GateTypeOK, Call

LEMMA IdleIsCall == CallIdle \in Call
<1>1. <<"GetHealth", Public>> \in Routes
    BY DEF Routes, SystemRoutes
<1>2. "GetHealth" \in Operations
    BY <1>1 DEF Operations
<1> QED BY <1>2 DEF CallIdle, Call, Answers

(* The clock, revocations and the deletion of the account.                 *)
LEMMA TokensOnlyAge ==
    ASSUME TokensTypeOK,
           UNCHANGED serverVars \/ (\E t \in AccessTokens : Logout(t)) \/ DeleteAccount \/ Tick
    PROVE  /\ TokensTypeOK'
           /\ \A t \in AccessTokens \union {NoToken} : Unusable(t) => Unusable(t)'
<1>1. AccessTokens \subseteq Token
    BY DEF AccessTokens, Token
<1>2. CASE UNCHANGED serverVars
    BY <1>2 DEF serverVars, TokensTypeOK, Unusable, ParseToken
<1>3. CASE (\E t \in AccessTokens : Logout(t)) \/ DeleteAccount
    BY <1>1, <1>3 DEF Logout, DeleteAccount, TokensTypeOK, Unusable, ParseToken
<1>4. CASE Tick
  <2>1. TokensTypeOK'
      BY <1>4, ClockAssumption DEF Tick, TokensTypeOK
  <2>2. ASSUME NEW t \in AccessTokens, ~ParseToken(t)
        PROVE  ~ParseToken(t)'
      BY <1>4, <2>2, ClockAssumption DEF Tick, TokensTypeOK, ParseToken, TTL, AccessTokens
  <2> QED BY <1>4, <2>1, <2>2 DEF Tick, Unusable
<1> QED BY <1>2, <1>3, <1>4

LEMMA RequestsInvInit == GateInit => RequestsInv
<1> SUFFICES ASSUME GateInit
             PROVE  RequestsInv
    OBVIOUS
<1>1. \A c \in Calls : call[c] = CallIdle
    BY DEF GateInit
<1>2. TokensTypeOK
    BY ClockAssumption DEF GateInit, TokensInit, TokensTypeOK
<1>3. GateTypeOK
    BY <1>2, IdleIsCall DEF GateInit, GateTypeOK
<1> QED BY <1>1, <1>3 DEF RequestsInv, ServiceIsLast, KnownCameInTime, ClosedWillAsk, Running, CallIdle

(* One request moves on or is answered while tokens may be revoked.        *)
LEMMA CallMoves ==
    ASSUME RequestsInv, NEW c \in Calls, NEW q \in Call, call' = [call EXCEPT ![c] = q],
           TokensTypeOK', \A t \in AccessTokens \union {NoToken} : Unusable(t) => Unusable(t)',
           q.answer = "none" =>
               /\ q.rest # <<>>
               /\ \A i \in 1 .. Len(q.rest) : q.rest[i] = "service" <=> i = Len(q.rest),
           q.late => Unusable(q.token),
           q.user => ~q.late /\ q.token # NoToken,
           q.answer = "none" /\ q.op \notin OpenOperations =>
               \/ q.user \/ Has(q.rest, "user") \/ ScopesFirst(q.rest)
               \/ q.scoped /\ Has(q.rest, "jwt")
    PROVE  RequestsInv'
<1> USE DEF RequestsInv
<1>1. call'[c] = q /\ \A d \in Calls : d # c => call'[d] = call[d]
    BY DEF GateTypeOK
<1>2. GateTypeOK'
    BY DEF GateTypeOK
<1>3. ServiceIsLast'
    BY <1>1 DEF ServiceIsLast, Running
<1>4. KnownCameInTime'
  <2>1. q.token \in AccessTokens \union {NoToken}
      BY DEF Call
  <2> QED BY <2>1, <1>1, CallKinds DEF KnownCameInTime
<1>5. ClosedWillAsk'
    BY <1>1 DEF ClosedWillAsk, Running
<1> QED BY <1>2, <1>3, <1>4, <1>5

LEMMA TokensRest ==
    ASSUME RequestsInv, UNCHANGED serverVars
    PROVE  TokensTypeOK' /\ \A t \in AccessTokens \union {NoToken} : Unusable(t) => Unusable(t)'
BY TokensOnlyAge DEF RequestsInv, GateTypeOK

LEMMA ArriveKeeps ==
    ASSUME RequestsInv, NEW c \in Calls, NEW op \in Operations, NEW t \in AccessTokens \union {NoToken},
           Arrive(c, op, t)
    PROVE  RequestsInv'
<1> DEFINE q == [op |-> op, rest |-> Pipeline[op], token |-> t, scoped |-> FALSE,
                 user |-> FALSE, late |-> Unusable(t), answer |-> "none"]
<1>1. Pipeline[op] \in Seq(Steps) /\ Unusable(t) \in BOOLEAN
    BY PipelinesEnd DEF Unusable
<1>2. q \in Call /\ q.rest = Pipeline[op] /\ q.op = op /\ ~q.user /\ q.late = Unusable(q.token)
    BY <1>1 DEF Call
<1>3. call' = [call EXCEPT ![c] = q] /\ UNCHANGED serverVars
    BY DEF Arrive
<1> HIDE DEF q
<1>4. q.rest # <<>> /\ \A i \in 1 .. Len(q.rest) : q.rest[i] = "service" <=> i = Len(q.rest)
    BY <1>2, PipelinesEnd
<1>5. q.op \notin OpenOperations => Has(q.rest, "user") \/ ScopesFirst(q.rest)
    BY <1>2, ClosedOperationsAsk
<1> QED BY <1>2, <1>3, <1>4, <1>5, CallMoves, TokensRest

(* A request that is answered, or whose answer is delivered.               *)
LEMMA AnswerKeeps ==
    ASSUME RequestsInv, NEW c \in Calls, NEW status \in Answers, Answer(c, status),
           TokensTypeOK', \A t \in AccessTokens \union {NoToken} : Unusable(t) => Unusable(t)'
    PROVE  RequestsInv'
<1> DEFINE q == [op |-> call[c].op, rest |-> <<>>, token |-> call[c].token, scoped |-> call[c].scoped,
                 user |-> call[c].user, late |-> call[c].late, answer |-> status]
<1>1. <<>> \in Seq(Steps) /\ status \in Answers \union {"none", "read"}
    OBVIOUS
<1>2. /\ q \in Call /\ q.answer = status
      /\ q.user = call[c].user /\ q.late = call[c].late /\ q.token = call[c].token
    BY <1>1, CallKinds DEF Call, RequestsInv
<1>3. call' = [call EXCEPT ![c] = q]
    BY DEF Answer, Moved
<1>4. q.answer # "none"
    BY <1>2 DEF Answers
<1> HIDE DEF q
<1> QED BY <1>2, <1>3, <1>4, CallMoves DEF RequestsInv, KnownCameInTime

(* A request that drops its first step.                                    *)
LEMMA StepDoneKeeps ==
    ASSUME RequestsInv, NEW c \in Calls, NEW step, AtStep(c, step), step # "service",
           NEW scoped \in BOOLEAN, NEW user \in BOOLEAN,
           UNCHANGED serverVars, StepDone(c, scoped, user),
           user => ~call[c].late /\ call[c].token # NoToken,
           call[c].user => user,
           call[c].scoped => scoped,
           step = "user" => user,
           step = "scope" => scoped,
           step = "jwt" /\ scoped => user
    PROVE  RequestsInv'
<1> DEFINE s == call[c].rest
           q == [op |-> call[c].op, rest |-> Tail(s), token |-> call[c].token, scoped |-> scoped,
                 user |-> user, late |-> call[c].late, answer |-> "none"]
<1>0. GateTypeOK /\ ServiceIsLast /\ KnownCameInTime /\ ClosedWillAsk /\ Running(c) /\ Head(s) = step
    BY DEF RequestsInv, AtStep
<1>1. /\ s \in Seq(Steps) /\ s # <<>>
      /\ \A i \in 1 .. Len(s) : s[i] = "service" <=> i = Len(s)
    BY <1>0, CallKinds DEF ServiceIsLast
<1>2. call' = [call EXCEPT ![c] = q]
    BY DEF StepDone, Moved
<1> HIDE DEF s
<1>3. /\ Tail(s) \in Seq(Steps) /\ Tail(s) # <<>>
      /\ \A i \in 1 .. Len(Tail(s)) : Tail(s)[i] = "service" <=> i = Len(Tail(s))
      /\ \A x : Has(s, x) /\ Head(s) # x => Has(Tail(s), x)
      /\ ScopesFirst(s) /\ Head(s) # "scope" => ScopesFirst(Tail(s))
      /\ ScopesFirst(s) => Has(Tail(s), "jwt")
    BY <1>0, <1>1, TailSteps
<1>4. /\ q \in Call /\ q.rest = Tail(s) /\ q.op = call[c].op /\ q.user = user /\ q.scoped = scoped
      /\ q.late = call[c].late /\ q.token = call[c].token
    BY <1>0, <1>3, CallKinds DEF Call
<1> HIDE DEF q
<1>5. q.late => Unusable(q.token)
    BY <1>0, <1>4 DEF KnownCameInTime
<1>6. ASSUME q.op \notin OpenOperations
      PROVE  q.user \/ Has(q.rest, "user") \/ ScopesFirst(q.rest) \/ (q.scoped /\ Has(q.rest, "jwt"))
  <2>1. call[c].user \/ Has(s, "user") \/ ScopesFirst(s) \/ (call[c].scoped /\ Has(s, "jwt"))
      BY <1>0, <1>4, <1>6 DEF ClosedWillAsk, s
  <2> QED BY <2>1, <1>0, <1>3, <1>4
<1> QED BY <1>2, <1>3, <1>4, <1>5, <1>6, CallMoves, TokensRest

LEMMA BindKeeps ==
    ASSUME RequestsInv, NEW c \in Calls, Bind(c)
    PROVE  RequestsInv'
<1>1. PICK step \in Bound : AtStep(c, step)
    BY DEF Bind
<1>2. step \notin {"service", "user", "scope", "jwt"}
    BY DEF Bound
<1>3. CASE Answer(c, "400")
    BY <1>3, AnswerKeeps, TokensRest DEF Bind, Answers
<1>4. CASE Advance(c)
    BY <1>1, <1>2, <1>4, StepDoneKeeps, CallKinds DEF Bind, Advance, RequestsInv, KnownCameInTime
<1> QED BY <1>3, <1>4 DEF Bind

LEMMA SetScopesKeeps ==
    ASSUME RequestsInv, NEW c \in Calls, SetScopes(c)
    PROVE  RequestsInv'
<1>1. AtStep(c, "scope") /\ StepDone(c, TRUE, call[c].user) /\ UNCHANGED serverVars
    BY DEF SetScopes
<1>2. /\ call[c].user \in BOOLEAN
      /\ call[c].user => ~call[c].late /\ call[c].token # NoToken
    BY CallKinds DEF RequestsInv, KnownCameInTime
<1> DEFINE scoped == TRUE
           user == call[c].user
<1>3. /\ scoped \in BOOLEAN /\ user \in BOOLEAN /\ StepDone(c, scoped, user)
      /\ user => ~call[c].late /\ call[c].token # NoToken
      /\ call[c].user => user
      /\ call[c].scoped => scoped
      /\ "scope" # "service" /\ "scope" # "user" /\ "scope" # "jwt"
      /\ "scope" = "scope" => scoped
    BY <1>1, <1>2
<1> HIDE DEF scoped, user
<1> QED BY <1>1, <1>3, StepDoneKeeps

LEMMA AuthenticateKeeps ==
    ASSUME RequestsInv, NEW c \in Calls, Authenticate(c) \/ BlacklistFails(c)
    PROVE  RequestsInv'
<1>1. CASE Answer(c, "401") \/ Answer(c, "503")
    BY <1>1, AnswerKeeps, TokensRest DEF Authenticate, BlacklistFails, Answers
<1>2. CASE /\ AtStep(c, "jwt") /\ JWTAuth(call[c].token, call[c].scoped)
           /\ StepDone(c, call[c].scoped, call[c].token # NoToken)
           /\ UNCHANGED serverVars
  <2>1. call[c].token # NoToken => ~Unusable(call[c].token)
      BY <1>2 DEF JWTAuth, Verified, Unusable
  <2>2. call[c].token # NoToken => ~call[c].late
      BY <2>1 DEF RequestsInv, KnownCameInTime
  <2>3. call[c].scoped => call[c].token # NoToken
      BY <1>2 DEF JWTAuth
  <2>4. call[c].user => call[c].token # NoToken
      BY DEF RequestsInv, KnownCameInTime
  <2> DEFINE scoped == call[c].scoped
             user == call[c].token # NoToken
  <2>5. /\ scoped \in BOOLEAN /\ user \in BOOLEAN /\ StepDone(c, scoped, user)
        /\ user => ~call[c].late /\ call[c].token # NoToken
        /\ call[c].user => user
        /\ call[c].scoped => scoped
        /\ scoped => user
        /\ "jwt" # "service" /\ "jwt" # "user" /\ "jwt" # "scope"
      BY <1>2, <2>2, <2>3, <2>4, CallKinds DEF RequestsInv
  <2> HIDE DEF scoped, user
  <2> QED BY <1>2, <2>5, StepDoneKeeps
<1> QED BY <1>1, <1>2 DEF Authenticate, BlacklistFails

LEMMA AskUserKeeps ==
    ASSUME RequestsInv, NEW c \in Calls, AskUser(c)
    PROVE  RequestsInv'
<1>1. CASE Answer(c, "401")
    BY <1>1, AnswerKeeps, TokensRest DEF AskUser, Answers
<1>2. ASSUME NEW step \in {"user", "mine", "bearer"}, AtStep(c, step), Advance(c),
             step = "user" => call[c].user
      PROVE  RequestsInv'
    BY <1>2, StepDoneKeeps, CallKinds DEF AskUser, Advance, RequestsInv, KnownCameInTime
<1> QED BY <1>1, <1>2 DEF AskUser

(* Whom the service of an operation sees.                                  *)
LEMMA KnownAtService ==
    ASSUME RequestsInv, NEW c \in Calls, AtStep(c, "service")
    PROVE  /\ call[c].op \notin OpenOperations => call[c].user
           /\ call[c].user => ~call[c].late /\ call[c].token # NoToken
<1> DEFINE s == call[c].rest
<1>1. /\ s \in Seq(Steps) /\ s # <<>> /\ Head(s) = "service"
      /\ \A i \in 1 .. Len(s) : s[i] = "service" <=> i = Len(s)
    BY CallKinds DEF RequestsInv, ServiceIsLast, AtStep
<1> HIDE DEF s
<1>2. Len(s) \in Nat /\ Len(s) >= 1 /\ s[1] = "service"
    BY <1>1
<1>3. Len(s) = 1
  <2>1. 1 \in 1 .. Len(s)
      BY <1>2
  <2> QED BY <2>1, <1>1, <1>2
<1>4. \A i \in 1 .. Len(s) : i = 1
    BY <1>3
<1>5. ~Has(s, "user") /\ ~ScopesFirst(s) /\ ~Has(s, "jwt")
    BY <1>2, <1>4 DEF Has, ScopesFirst
<1> QED BY <1>5 DEF RequestsInv, ClosedWillAsk, KnownCameInTime, AtStep, s

LEMMA ServeKeeps ==
    ASSUME RequestsInv, NEW c \in Calls, Serve(c)
    PROVE  RequestsInv'
<1>1. call[c].op \in {"LogoutUser", "ChangePassword"} => call[c].op \notin OpenOperations
    BY DEF OpenOperations
<1>2. call[c].op \in {"LogoutUser", "ChangePassword"} => call[c].token \in AccessTokens
    BY <1>1, KnownAtService, CallKinds DEF Serve, RequestsInv
<1>3. UNCHANGED serverVars \/ (\E t \in AccessTokens : Logout(t)) \/ DeleteAccount
    BY <1>2 DEF Serve
<1>4. TokensTypeOK' /\ \A t \in AccessTokens \union {NoToken} : Unusable(t) => Unusable(t)'
    BY <1>3, TokensOnlyAge DEF RequestsInv, GateTypeOK
<1> QED BY <1>4, AnswerKeeps DEF Serve, Answers

LEMMA RequestsInvStep == RequestsInv /\ [GateNext]_gateVars => RequestsInv'
<1>1. ASSUME RequestsInv, NEW c \in Calls, Abandon(c)
      PROVE  RequestsInv'
    BY <1>1, AnswerKeeps, TokensRest DEF Abandon, Answers
<1>2. ASSUME RequestsInv, NEW c \in Calls, Deliver(c)
      PROVE  RequestsInv'
    BY <1>2, IdleIsCall, CallMoves, TokensRest DEF Deliver, CallIdle
<1>3. ASSUME RequestsInv, Elsewhere
      PROVE  RequestsInv'
  <2>1. TokensTypeOK' /\ \A t \in AccessTokens \union {NoToken} : Unusable(t) => Unusable(t)'
      BY <1>3, TokensOnlyAge DEF Elsewhere, RequestsInv, GateTypeOK
  <2>2. call' = call
      BY <1>3 DEF Elsewhere
  <2> QED BY <1>3, <2>1, <2>2, CallKinds DEF RequestsInv, GateTypeOK, ServiceIsLast, KnownCameInTime,
                                            ClosedWillAsk, Running
<1>4. ASSUME RequestsInv, UNCHANGED gateVars
      PROVE  RequestsInv'
  <2>1. TokensTypeOK' /\ \A t \in AccessTokens \union {NoToken} : Unusable(t) => Unusable(t)'
      BY <1>4, TokensRest DEF gateVars
  <2>2. call' = call
      BY <1>4 DEF gateVars
  <2> QED BY <1>4, <2>1, <2>2, CallKinds DEF RequestsInv, GateTypeOK, ServiceIsLast, KnownCameInTime,
                                            ClosedWillAsk, Running
<1> QED BY <1>1, <1>2, <1>3, <1>4, ArriveKeeps, BindKeeps, SetScopesKeeps, AuthenticateKeeps,
           AskUserKeeps, ServeKeeps DEF GateNext, Handling

-----------------------------------------------------------------------------
(* The composition.                                                        *)
ServicesInv == SetsInv /\ ListsInv /\ BeatsInv /\ RequestsInv /\ CachesInv

LEMMA ServicesInvInit == ServicesInit => ServicesInv
BY SetsInvInit, ListsInvInit, BeatsInvInit, RequestsInvInit, CachesInvInit DEF ServicesInit, ServicesInv

LEMMA PartsMove ==
    [ServicesNext]_servicesVars =>
        [SetsNext]_setVars /\ [ListsNext]_listVars /\ [BeatsNext]_beatVars /\ [GateNext]_gateVars
BY DEF ServicesNext, Resting, servicesVars

LEMMA ServicesInvStep == ServicesInv /\ [ServicesNext]_servicesVars => ServicesInv'
BY SetsInvStep, ListsInvStep, BeatsInvStep, RequestsInvStep, CachesInvStep, PartsMove DEF ServicesInv

(* Rows, entries of the caches and requests of all services keep their     *)
(* types.                                                                  *)
THEOREM ServicesAreTyped == ServicesSpec => []ServicesTypeOK
<1>1. ServicesInv => ServicesTypeOK
    BY DEF ServicesInv, SetsInv, ListsInv, BeatsInv, RequestsInv, CachesInv, LimitsInv, CodesInv,
           FlagsInv, ServicesTypeOK
<1> QED BY ServicesInvInit, ServicesInvStep, <1>1, PTL DEF ServicesSpec

(* However updates and deletions of gear sets overlap (repository Update), *)
(* the header of each agrees with its items.                               *)
THEOREM SetsStayWhole == ServicesSpec => []SetsAreWhole
<1>1. ServicesInv => SetsAreWhole
    BY DEF ServicesInv, SetsInv
<1> QED BY ServicesInvInit, ServicesInvStep, <1>1, PTL DEF ServicesSpec

(* However uploads of libraries and of the gear of trips overlap           *)
(* (ReplaceAll), no item refers to a library entry that is gone.           *)
THEOREM ReferencesStayListed == ServicesSpec => []ReferencesAreListed
<1>1. ServicesInv => ReferencesAreListed
    BY DEF ServicesInv, ListsInv
<1> QED BY ServicesInvInit, ServicesInvStep, <1>1, PTL DEF ServicesSpec

(* No upload takes an entry over from another owner (ReplaceAll).          *)
THEOREM UploadsTakeNothingOver == ServicesSpec => EntriesKeepOwners
<1>1. ServicesInv /\ [ServicesNext]_servicesVars =>
          [\A i \in Entries : Listed(i) /\ Listed(i)' => ownerOf'[i] = ownerOf[i]]_listVars
    BY ListsInvStep, PartsMove DEF ServicesInv
<1> QED BY ServicesInvInit, ServicesInvStep, <1>1, PTL DEF ServicesSpec, EntriesKeepOwners

(* Only a heartbeat that another one has overtaken, or whose read has       *)
(* failed, lowers a count (HandleHeartbeat).                               *)
THEOREM HeartbeatsRaise == ServicesSpec => CountsGrow
<1>1. ServicesInv /\ [ServicesNext]_servicesVars =>
          [\A u \in Viewers, v \in Views :
              viewStats'[u][v] < viewStats[u][v] =>
                  \E r \in Beats : Beating(r) /\ beat[r].user = u /\ ~beat[r].fresh /\ beat'[r] = BeatIdle]_beatVars
    BY BeatsInvStep, PartsMove DEF ServicesInv
<1> QED BY ServicesInvInit, ServicesInvStep, <1>1, PTL DEF ServicesSpec, CountsGrow

(* No request reaches the service of an operation that is not open but as  *)
(* its user (HandlerWithOptions, JWTAuth and the handlers), with a token   *)
(* that was good when it came.                                             *)
THEOREM OnlyKnownAreServed == ServicesSpec => []ServedAreKnown
<1>1. ServicesInv => ServedAreKnown
    BY KnownAtService DEF ServicesInv, ServedAreKnown
<1> QED BY ServicesInvInit, ServicesInvStep, <1>1, PTL DEF ServicesSpec

-----------------------------------------------------------------------------
(* What nobody is asked for.                                               *)

\* The steps that want a token or a user.
Asking == {"scope", "user", "mine", "bearer"}
AsksNobody(steps) == \A i \in 1 .. Len(steps) : steps[i] \notin Asking

\* The open operations but the one whose handler wants a user all the same.
FreeOperations == OpenOperations \ {"UpdateFlag"}

FreeAsksNobody ==
    \A c \in Calls : call[c].op \in FreeOperations =>
        /\ AsksNobody(call[c].rest)
        /\ ~call[c].scoped
        /\ call[c].token = NoToken => call[c].answer # "401"

(* A table holds one row for an operation, so the row found is the one     *)
(* that stands there.                                                      *)
LEMMA RowFound ==
    ASSUME NEW table \in {Routes, Handlers}, NEW op, NEW steps, <<op, steps>> \in table
    PROVE  StepsIn(table, op) = steps
<1> DEFINE found == CHOOSE r \in table : r[1] = op
<1>1. found \in table /\ found[1] = op
  <2>1. <<op, steps>>[1] = op
      OBVIOUS
  <2>2. \E r \in table : r[1] = op
    <3>1. WITNESS <<op, steps>> \in table
    <3> QED BY <2>1
  <2> QED BY <2>2
<1>2. \A r \in table, s \in table : r[1] = s[1] => r = s
    BY TablesAgree
<1> HIDE DEF found
<1>3. found = <<op, steps>>
  <2>1. <<op, steps>>[1] = op
      OBVIOUS
  <2> QED BY <1>1, <1>2, <2>1
<1>4. StepsIn(table, op) = found[2]
    BY DEF StepsIn, found
<1>5. <<op, steps>>[2] = steps
    OBVIOUS
<1> QED BY <1>3, <1>4, <1>5

(* Two parts that ask nobody do so together.                               *)
LEMMA AsksNobodyJoins ==
    ASSUME NEW s \in Seq(Steps), NEW t \in Seq(Steps), AsksNobody(s), AsksNobody(t)
    PROVE  s \o t \in Seq(Steps) /\ AsksNobody(s \o t)
<1>1. Len(s \o t) = Len(s) + Len(t) /\ s \o t \in Seq(Steps)
    OBVIOUS
<1>2. ASSUME NEW i \in 1 .. Len(s) + Len(t)
      PROVE  (s \o t)[i] \notin Asking
  <2>1. CASE i <= Len(s)
    <3>1. i \in 1 .. Len(s) /\ (s \o t)[i] = s[i]
        BY <2>1
    <3> QED BY <3>1 DEF AsksNobody
  <2>2. CASE i > Len(s)
    <3>1. i - Len(s) \in 1 .. Len(t) /\ (s \o t)[i] = t[i - Len(s)]
        BY <2>2
    <3> QED BY <3>1 DEF AsksNobody
  <2> QED BY <2>1, <2>2
<1> QED BY <1>1, <1>2 DEF AsksNobody

LEMMA PlainSteps ==
    /\ <<>> \in Seq(Steps) /\ AsksNobody(<<>>)
    /\ \A step \in {"path", "query", "body", "page", "email", "jwt", "service"} :
          <<step>> \in Seq(Steps) /\ AsksNobody(<<step>>)
<1>1. <<>> \in Seq(Steps) /\ AsksNobody(<<>>)
    BY DEF AsksNobody
<1>2. ASSUME NEW step \in {"path", "query", "body", "page", "email", "jwt", "service"}
      PROVE  <<step>> \in Seq(Steps) /\ AsksNobody(<<step>>)
  <2>1. step \in Steps /\ step \notin Asking
      BY <1>2 DEF Asking, Steps, Bound
  <2>2. Len(<<step>>) = 1 /\ <<step>>[1] = step /\ <<step>> \in Seq(Steps)
      BY <2>1
  <2>3. \A i \in 1 .. Len(<<step>>) : i = 1
      BY <2>2
  <2>4. \A i \in 1 .. Len(<<step>>) : <<step>>[i] \notin Asking
      BY <2>1, <2>2, <2>3
  <2> QED BY <2>2, <2>4 DEF AsksNobody
<1> QED BY <1>1, <1>2

(* What the tables give an operation whose wrapper and handler ask nobody. *)
LEMMA TablesAskNobody ==
    ASSUME NEW op, NEW w \in Seq(Steps), NEW h \in Seq(Steps),
           <<op, w>> \in Routes, <<op, h>> \in Handlers, AsksNobody(w), AsksNobody(h)
    PROVE  op \in Operations /\ AsksNobody(Pipeline[op])
<1>1. op \in Operations
  <2>1. <<op, w>>[1] = op
      OBVIOUS
  <2> QED BY <2>1 DEF Operations
<1>2. StepsIn(Routes, op) = w /\ StepsIn(Handlers, op) = h
    BY RowFound
<1>3. Pipeline[op] = w \o <<"jwt">> \o h \o <<"service">>
    BY <1>1, <1>2 DEF Pipeline
<1>4. w \o <<"jwt">> \in Seq(Steps) /\ AsksNobody(w \o <<"jwt">>)
    BY AsksNobodyJoins, PlainSteps
<1>5. w \o <<"jwt">> \o h \in Seq(Steps) /\ AsksNobody(w \o <<"jwt">> \o h)
    BY <1>4, AsksNobodyJoins
<1>6. AsksNobody(w \o <<"jwt">> \o h \o <<"service">>)
    BY <1>5, AsksNobodyJoins, PlainSteps
<1> QED BY <1>1, <1>3, <1>6

(* No table makes a free operation ask.                                    *)
LEMMA FreePipelines == \A op \in FreeOperations : AsksNobody(Pipeline[op])
<1>1. ASSUME NEW op \in {"LoginUser", "RefreshToken", "RegisterUser", "ResendVerificationCode",
                        "VerifyEmail"}
      PROVE  AsksNobody(Pipeline[op])
  <2>1. <<op, Public>> \in Routes
      BY <1>1 DEF Routes, AccountRoutes, CodeRoutes
  <2>2. <<op, <<"body">> >> \in Handlers
      BY <1>1 DEF Handlers, AccountHandlers
  <2> QED BY <2>1, <2>2, PlainSteps, TablesAskNobody DEF Public
<1>2. AsksNobody(Pipeline["ClearRateLimit"])
  <2>1. <<"ClearRateLimit", Path>> \in Routes
      BY DEF Routes, CodeRoutes
  <2>2. <<"ClearRateLimit", <<"email">> >> \in Handlers
      BY DEF Handlers, SessionHandlers
  <2> QED BY <2>1, <2>2, PlainSteps, TablesAskNobody DEF Path
<1>3. AsksNobody(Pipeline["GetGroupEvents"])
  <2>1. <<"GetGroupEvents", Query>> \in Routes
      BY DEF Routes, EventListRoutes
  <2>2. <<"GetGroupEvents", <<"page">> >> \in Handlers
      BY DEF Handlers, EventHandlers
  <2> QED BY <2>1, <2>2, PlainSteps, TablesAskNobody DEF Query
<1>4. ASSUME NEW op \in {"GetGroupEventsId", "GetGroupEventsIdComments",
                        "GetHikingWeatherByLocation"}
      PROVE  AsksNobody(Pipeline[op])
  <2>1. <<op, Path>> \in Routes
      BY <1>4 DEF Routes, EventRoutes, EventPartRoutes, WeatherRoutes
  <2>2. <<op, Nothing>> \in Handlers
      BY <1>4 DEF Handlers, EventHandlers, ApplicationHandlers, WeatherHandlers
  <2> QED BY <2>1, <2>2, PlainSteps, TablesAskNobody DEF Path, Nothing
<1>5. ASSUME NEW op \in {"GetHealth", "GetFlags", "GetHikingWeather"}
      PROVE  AsksNobody(Pipeline[op])
  <2>1. <<op, Public>> \in Routes
      BY <1>5 DEF Routes, SystemRoutes, FlagRoutes, WeatherRoutes
  <2>2. <<op, Nothing>> \in Handlers
      BY <1>5 DEF Handlers, HealthHandlers, FlagHandlers, WeatherHandlers
  <2> QED BY <2>1, <2>2, PlainSteps, TablesAskNobody DEF Public, Nothing
<1> QED BY <1>1, <1>2, <1>3, <1>4, <1>5 DEF FreeOperations, OpenOperations

(* One request moves on.                                                   *)
LEMMA FreeMoves ==
    ASSUME GateTypeOK, FreeAsksNobody, NEW c \in Calls,
           NEW rest, NEW scoped, NEW user, NEW answer, Moved(c, rest, scoped, user, answer),
           call[c].op \in FreeOperations =>
               /\ AsksNobody(rest)
               /\ ~scoped
               /\ call[c].token = NoToken => answer # "401"
    PROVE  FreeAsksNobody'
<1> DEFINE q == [op |-> call[c].op, rest |-> rest, token |-> call[c].token, scoped |-> scoped,
                 user |-> user, late |-> call[c].late, answer |-> answer]
<1>1. /\ q.op = call[c].op /\ q.rest = rest /\ q.token = call[c].token
      /\ q.scoped = scoped /\ q.answer = answer
    OBVIOUS
<1>2. call' = [call EXCEPT ![c] = q]
    BY DEF Moved
<1> HIDE DEF q
<1>3. call'[c] = q /\ \A d \in Calls : d # c => call'[d] = call[d]
    BY <1>2 DEF GateTypeOK
<1> QED BY <1>1, <1>3 DEF FreeAsksNobody

LEMMA FreeAnswers ==
    ASSUME GateTypeOK, FreeAsksNobody, NEW c \in Calls, NEW status, Answer(c, status),
           call[c].op \in FreeOperations /\ call[c].token = NoToken => status # "401"
    PROVE  FreeAsksNobody'
BY FreeMoves, PlainSteps DEF Answer, FreeAsksNobody

LEMMA FreeSteps ==
    ASSUME RequestsInv, FreeAsksNobody, NEW c \in Calls, NEW step, AtStep(c, step)
    PROVE  /\ call[c].op \in FreeOperations => step \notin Asking
           /\ call[c].op \in FreeOperations => AsksNobody(Tail(call[c].rest))
<1> DEFINE s == call[c].rest
<1>1. s \in Seq(Steps) /\ s # <<>> /\ Head(s) = step
    BY CallKinds DEF RequestsInv, ServiceIsLast, AtStep
<1>2. call[c].op \in FreeOperations => AsksNobody(s)
    BY DEF FreeAsksNobody
<1> HIDE DEF s
<1>3. /\ Len(s) \in Nat /\ 1 \in 1 .. Len(s) /\ s[1] = step
      /\ Len(Tail(s)) = Len(s) - 1
      /\ \A i \in 1 .. Len(s) - 1 : Tail(s)[i] = s[i + 1] /\ i + 1 \in 1 .. Len(s)
    BY <1>1
<1> QED BY <1>2, <1>3 DEF AsksNobody, s

LEMMA FreeAdvances ==
    ASSUME RequestsInv, FreeAsksNobody, NEW c \in Calls, NEW step, AtStep(c, step),
           NEW user, StepDone(c, call[c].scoped, user)
    PROVE  FreeAsksNobody'
BY FreeMoves, FreeSteps DEF StepDone, RequestsInv, FreeAsksNobody

LEMMA FreeStep == RequestsInv /\ FreeAsksNobody /\ [GateNext]_gateVars => FreeAsksNobody'
<1> SUFFICES ASSUME RequestsInv, FreeAsksNobody, [GateNext]_gateVars
             PROVE  FreeAsksNobody'
    OBVIOUS
<1>0. GateTypeOK
    BY DEF RequestsInv
<1>1. ASSUME NEW c \in Calls, NEW op \in Operations, NEW t \in AccessTokens \union {NoToken},
             Arrive(c, op, t)
      PROVE  FreeAsksNobody'
  <2> DEFINE q == [op |-> op, rest |-> Pipeline[op], token |-> t, scoped |-> FALSE,
                   user |-> FALSE, late |-> Unusable(t), answer |-> "none"]
  <2>1. q.op = op /\ q.rest = Pipeline[op] /\ ~q.scoped /\ q.answer = "none"
      OBVIOUS
  <2>2. call' = [call EXCEPT ![c] = q]
      BY <1>1 DEF Arrive
  <2> HIDE DEF q
  <2>3. call'[c] = q /\ \A d \in Calls : d # c => call'[d] = call[d]
      BY <1>0, <2>2 DEF GateTypeOK
  <2> QED BY <2>1, <2>3, FreePipelines DEF FreeAsksNobody
<1>2. ASSUME NEW c \in Calls, Bind(c)
      PROVE  FreeAsksNobody'
  <2>1. PICK step \in Bound : AtStep(c, step)
      BY <1>2 DEF Bind
  <2> QED BY <1>0, <1>2, <2>1, FreeAdvances, FreeAnswers DEF Bind, Advance
<1>3. ASSUME NEW c \in Calls, SetScopes(c)
      PROVE  FreeAsksNobody'
  <2>1. call[c].op \notin FreeOperations
      BY <1>3, FreeSteps DEF SetScopes, Asking
  <2>2. Moved(c, Tail(call[c].rest), TRUE, call[c].user, "none")
      BY <1>3 DEF SetScopes, StepDone
  <2> QED BY <1>0, <2>1, <2>2, FreeMoves
<1>4. ASSUME NEW c \in Calls, Authenticate(c)
      PROVE  FreeAsksNobody'
  <2>1. call[c].op \in FreeOperations /\ call[c].token = NoToken =>
            JWTAuth(call[c].token, call[c].scoped)
      BY DEF FreeAsksNobody, JWTAuth
  <2> DEFINE user == call[c].token # NoToken
  <2>2. \/ Answer(c, "401") /\ ~JWTAuth(call[c].token, call[c].scoped)
        \/ StepDone(c, call[c].scoped, user)
      BY <1>4 DEF Authenticate
  <2>3. AtStep(c, "jwt")
      BY <1>4 DEF Authenticate
  <2> HIDE DEF user
  <2> QED BY <1>0, <2>1, <2>2, <2>3, FreeAdvances, FreeAnswers
<1>5. ASSUME NEW c \in Calls, BlacklistFails(c) \/ Serve(c) \/ Abandon(c)
      PROVE  FreeAsksNobody'
  <2>1. PICK status \in {"503", "served", "500"} : Answer(c, status)
      BY <1>5 DEF BlacklistFails, Serve, Abandon
  <2> QED BY <1>0, <2>1, FreeAnswers
<1>6. ASSUME NEW c \in Calls, AskUser(c)
      PROVE  FreeAsksNobody'
  <2>1. PICK step \in {"user", "mine", "bearer"} : AtStep(c, step)
      BY <1>6 DEF AskUser
  <2>2. call[c].op \notin FreeOperations
      BY <2>1, FreeSteps DEF Asking
  <2> QED BY <1>0, <1>6, <2>1, <2>2, FreeAdvances, FreeAnswers DEF AskUser, Advance
<1>7. ASSUME NEW c \in Calls, Deliver(c)
      PROVE  FreeAsksNobody'
  <2>1. call'[c] = CallIdle /\ \A d \in Calls : d # c => call'[d] = call[d]
      BY <1>0, <1>7 DEF Deliver, GateTypeOK
  <2> QED BY <2>1, PlainSteps DEF FreeAsksNobody, CallIdle
<1>8. ASSUME call' = call
      PROVE  FreeAsksNobody'
    BY <1>8 DEF FreeAsksNobody
<1> QED BY <1>1, <1>2, <1>3, <1>4, <1>5, <1>6, <1>7, <1>8 DEF GateNext, Handling, Elsewhere, gateVars

LEMMA FreeInit == GateInit => FreeAsksNobody
<1> SUFFICES ASSUME GateInit
             PROVE  FreeAsksNobody
    OBVIOUS
<1>1. \A c \in Calls : call[c] = CallIdle
    BY DEF GateInit
<1> QED BY <1>1, PlainSteps DEF FreeAsksNobody, CallIdle

(* No open operation but UpdateFlag tells anybody to sign in who brings no *)
(* token: neither its wrapper nor its handler asks for one.                *)
THEOREM OpenOperationsAreOpen == ServicesSpec => []OpenToEverybody
<1>1. ServicesInit => ServicesInv /\ FreeAsksNobody
    BY ServicesInvInit, FreeInit DEF ServicesInit
<1>2. ServicesInv /\ FreeAsksNobody /\ [ServicesNext]_servicesVars => (ServicesInv /\ FreeAsksNobody)'
    BY ServicesInvStep, PartsMove, FreeStep DEF ServicesInv
<1>3. FreeAsksNobody => OpenToEverybody
    BY DEF FreeAsksNobody, OpenToEverybody, FreeOperations
<1> QED BY <1>1, <1>2, <1>3, PTL DEF ServicesSpec
=============================================================================
