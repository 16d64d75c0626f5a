------------------------ MODULE EventCountersProofs ------------------------
(***************************************************************************)
(* EventCounters for every set of users, events, comments and overlapping  *)
(* requests: what the counters of an event say, from the inductive         *)
(* invariants CounterInv and PatientInv.                                   *)
(***************************************************************************)
EXTENDS EventCounters, FiniteSetTheorems, TLAPS

(* A request that runs is one of the records of Running.                   *)
LEMMA RunningTyped ==
    ASSUME CountersTypeOK, NEW r \in Requests, req[r] # Idle
    PROVE  /\ req[r] \in Running
           /\ req[r].op # "idle"
           /\ req[r].event \in Events
           /\ req[r].user \in Users
BY DEF CountersTypeOK, Running

(* What adding and removing an element does to the size of a finite set.   *)
LEMMA SizeChanges ==
    ASSUME NEW S, IsFiniteSet(S), NEW x
    PROVE  /\ Cardinality(S) \in Nat
           /\ x \notin S => Cardinality(S \union {x}) = Cardinality(S) + 1
           /\ x \notin S => S \ {x} = S
           /\ x \in S => Cardinality(S \ {x}) = Cardinality(S) - 1 /\ Cardinality(S) # 0
<1>1. Cardinality(S) \in Nat /\ (Cardinality(S) = 0 <=> S = {})
    BY FS_CardinalityType, FS_EmptySet
<1>2. Cardinality(S \union {x}) = IF x \in S THEN Cardinality(S) ELSE Cardinality(S) + 1
    BY FS_AddElement
<1>3. Cardinality(S \ {x}) = IF x \in S THEN Cardinality(S) - 1 ELSE Cardinality(S)
    BY FS_RemoveElement
<1> QED BY <1>1, <1>2, <1>3

(* And so for the likes and the comments of an event.                      *)
LEMMA LikesSize ==
    ASSUME CountersTypeOK, NEW e \in Events, NEW u
    PROVE  /\ Cardinality(likes[e]) \in Nat
           /\ u \notin likes[e] => Cardinality(likes[e] \union {u}) = Cardinality(likes[e]) + 1
           /\ u \notin likes[e] => likes[e] \ {u} = likes[e]
           /\ u \in likes[e] => Cardinality(likes[e] \ {u}) = Cardinality(likes[e]) - 1
<1>1. likes[e] \in SUBSET Users
    BY DEF CountersTypeOK
<1>2. IsFiniteSet(likes[e])
    BY <1>1, FS_Subset, CountedSetsAreFinite
<1> QED BY <1>2, SizeChanges

LEMMA CommentsSize ==
    ASSUME CountersTypeOK, NEW e \in Events, NEW c
    PROVE  /\ Cardinality(posted[e]) \in Nat
           /\ c \notin posted[e] => Cardinality(posted[e] \union {c}) = Cardinality(posted[e]) + 1
           /\ c \in posted[e] => /\ Cardinality(posted[e] \ {c}) = Cardinality(posted[e]) - 1
                                 /\ Cardinality(posted[e]) # 0
<1>1. posted[e] \in SUBSET Comments
    BY DEF CountersTypeOK
<1>2. IsFiniteSet(posted[e])
    BY <1>1, FS_Subset, CountedSetsAreFinite
<1> QED BY <1>2, SizeChanges

-----------------------------------------------------------------------------
(* A request that begins or ends leaves the tables alone. *)
LEMMA ReqTyped ==
    ASSUME CountersTypeOK, NEW r \in Requests
    PROVE  /\ Finish(r) => req' \in [Requests -> Running \union {Idle}]
           /\ \A op \in {"like", "unlike", "comment", "uncomment"}, e \in Events, u \in Users,
                 c \in Comments \union {"none"} :
                 Begin(r, op, e, u, c) => req' \in [Requests -> Running \union {Idle}]
BY DEF CountersTypeOK, Finish, Begin, Running

LEMMA TablesUntouched ==
    CounterInv /\ UNCHANGED <<events, likes, posted, author, likeCount, commentCount>>
        /\ req' \in [Requests -> Running \union {Idle}]
      => CounterInv'
BY DEF CounterInv, CountersTypeOK, CommentsCounted, LikesNotOvercounted,
       RowsHaveEvent, AuthorsKnown

LEMMA LikeStep ==
    ASSUME CounterInv, NEW r \in Requests, LikeWrite(r)
    PROVE  CounterInv'
<1> DEFINE e == req[r].event
           u == req[r].user
<1>1. e \in Events /\ u \in Users
    BY RunningTyped DEF CounterInv, LikeWrite, Idle
<1>2. req' \in [Requests -> Running \union {Idle}]
    BY ReqTyped DEF CounterInv, LikeWrite
<1>3. CASE ~InsertsLike(e, u)
    BY <1>2, <1>3, TablesUntouched DEF LikeWrite
<1>4. CASE InsertsLike(e, u)
  <2>1. /\ e \in events /\ u \notin likes[e]
        /\ likes' = [likes EXCEPT ![e] = @ \union {u}]
        /\ likeCount' = [likeCount EXCEPT ![e] = @ + 1]
        /\ UNCHANGED <<events, posted, author, commentCount>>
      BY <1>4 DEF LikeWrite, InsertsLike, Bump
  <2>2. CountersTypeOK'
      BY <1>1, <1>2, <2>1 DEF CounterInv, CountersTypeOK
  <2>3. LikesNotOvercounted'
    <3>1. Cardinality(likes[e] \union {u}) = Cardinality(likes[e]) + 1
        BY <1>1, <2>1, LikesSize DEF CounterInv
    <3>2. \A f \in Events : Cardinality(likes[f]) \in Nat
        BY LikesSize DEF CounterInv
    <3> QED BY <1>1, <2>1, <3>1, <3>2 DEF CounterInv, CountersTypeOK, LikesNotOvercounted
  <2>4. CommentsCounted' /\ RowsHaveEvent' /\ AuthorsKnown'
      BY <1>1, <2>1 DEF CounterInv, CountersTypeOK, CommentsCounted, RowsHaveEvent, AuthorsKnown
  <2> QED BY <2>2, <2>3, <2>4 DEF CounterInv
<1> QED BY <1>3, <1>4

LEMMA UnlikeStep ==
    ASSUME CounterInv, NEW r \in Requests, UnlikeWrite(r)
    PROVE  CounterInv'
<1> DEFINE e == req[r].event
           u == req[r].user
<1>1. e \in Events /\ u \in Users
    BY RunningTyped DEF CounterInv, UnlikeWrite, Idle
<1>2. req' \in [Requests -> Running \union {Idle}]
    BY ReqTyped DEF CounterInv, UnlikeWrite
<1>3. /\ likes' = [likes EXCEPT ![e] = @ \ {u}]
      /\ likeCount' = IF e \in events THEN [likeCount EXCEPT ![e] = @ + (-1)] ELSE likeCount
      /\ UNCHANGED <<events, posted, author, commentCount>>
    BY DEF UnlikeWrite, Decrement, Bump
<1>4. CountersTypeOK'
    BY <1>1, <1>2, <1>3 DEF CounterInv, CountersTypeOK
<1>5. LikesNotOvercounted'
  <2>1. /\ Cardinality(likes[e] \ {u}) \in {Cardinality(likes[e]), Cardinality(likes[e]) - 1}
        /\ e \notin events => likes[e] \ {u} = likes[e]
      BY <1>1, LikesSize DEF CounterInv, RowsHaveEvent
  <2>2. Cardinality(likes[e]) \in Nat
      BY <1>1, LikesSize DEF CounterInv
  <2>3. \A f \in Events : likeCount[f] \in Int /\ likeCount[f] <= Cardinality(likes[f])
      BY DEF CounterInv, CountersTypeOK, LikesNotOvercounted
  <2>4. likeCount'[e] <= Cardinality(likes'[e])
    <3>1. CASE e \in events
      <4>1. likeCount'[e] = likeCount[e] - 1 /\ likes'[e] = likes[e] \ {u}
          BY <1>1, <1>3, <3>1 DEF CounterInv, CountersTypeOK
      <4> QED BY <1>1, <2>1, <2>2, <2>3, <4>1
    <3>2. CASE e \notin events
        BY <1>1, <1>3, <2>1, <2>3, <3>2 DEF CounterInv, CountersTypeOK
    <3> QED BY <3>1, <3>2
  <2> QED BY <1>1, <1>3, <2>3, <2>4 DEF CounterInv, CountersTypeOK, LikesNotOvercounted
<1>6. CommentsCounted' /\ RowsHaveEvent' /\ AuthorsKnown'
    BY <1>1, <1>3 DEF CounterInv, CountersTypeOK, CommentsCounted, RowsHaveEvent, AuthorsKnown
<1> QED BY <1>4, <1>5, <1>6 DEF CounterInv

LEMMA AddCommentStep ==
    ASSUME CounterInv, NEW r \in Requests, NEW c \in Comments, AddCommentWrite(r, c)
    PROVE  CounterInv'
<1> DEFINE e == req[r].event
<1>1. e \in Events /\ req[r].user \in Users
    BY RunningTyped DEF CounterInv, AddCommentWrite, Idle
<1>2. req' \in [Requests -> Running \union {Idle}]
    BY ReqTyped DEF CounterInv, AddCommentWrite
<1>3. /\ author[c] = Nobody /\ e \in events
      /\ posted' = [posted EXCEPT ![e] = @ \union {c}]
      /\ author' = [author EXCEPT ![c] = req[r].user]
      /\ commentCount' = [commentCount EXCEPT ![e] = @ + 1]
      /\ UNCHANGED <<events, likes, likeCount>>
    BY DEF AddCommentWrite, Bump
<1>4. CountersTypeOK'
    BY <1>1, <1>2, <1>3 DEF CounterInv, CountersTypeOK
<1>5. CommentsCounted'
  <2>1. c \notin posted[e]
      BY <1>1, <1>3 DEF CounterInv, AuthorsKnown
  <2>2. Cardinality(posted[e] \union {c}) = Cardinality(posted[e]) + 1
      BY <1>1, <2>1, CommentsSize DEF CounterInv
  <2> QED BY <1>1, <1>3, <2>2 DEF CounterInv, CountersTypeOK, CommentsCounted
<1>6. AuthorsKnown'
    BY <1>1, <1>3, NobodyWrites DEF CounterInv, CountersTypeOK, AuthorsKnown
<1>7. LikesNotOvercounted' /\ RowsHaveEvent'
    BY <1>1, <1>3 DEF CounterInv, CountersTypeOK, LikesNotOvercounted, RowsHaveEvent
<1> QED BY <1>4, <1>5, <1>6, <1>7 DEF CounterInv

LEMMA DeleteCommentStep ==
    ASSUME CounterInv, NEW r \in Requests, DeleteCommentWrite(r)
    PROVE  CounterInv'
<1> DEFINE e == req[r].event
           c == req[r].comment
<1>1. e \in Events
    BY RunningTyped DEF CounterInv, DeleteCommentWrite, RemovesComment, Idle
<1>2. req' \in [Requests -> Running \union {Idle}]
    BY ReqTyped DEF CounterInv, DeleteCommentWrite
<1>3. /\ c \in posted[e] /\ e \in events
      /\ posted' = [posted EXCEPT ![e] = @ \ {c}]
      /\ commentCount' = [commentCount EXCEPT ![e] = @ + (-1)]
      /\ UNCHANGED <<events, likes, author, likeCount>>
    BY <1>1 DEF DeleteCommentWrite, RemovesComment, Bump, CounterInv, RowsHaveEvent
<1>4. /\ Cardinality(posted[e] \ {c}) = Cardinality(posted[e]) - 1
      /\ Cardinality(posted[e]) \in Nat \ {0}
    BY <1>1, <1>3, CommentsSize DEF CounterInv
<1>5. CommentsCounted'
    BY <1>1, <1>3, <1>4 DEF CounterInv, CountersTypeOK, CommentsCounted
<1>6. CountersTypeOK'
  <2>1. commentCount[e] \in Nat \ {0}
      BY <1>1, <1>4 DEF CounterInv, CommentsCounted
  <2> QED BY <1>1, <1>2, <1>3, <2>1 DEF CounterInv, CountersTypeOK
<1>7. LikesNotOvercounted' /\ RowsHaveEvent' /\ AuthorsKnown'
    BY <1>1, <1>3 DEF CounterInv, CountersTypeOK, LikesNotOvercounted, RowsHaveEvent,
                      AuthorsKnown
<1> QED BY <1>5, <1>6, <1>7 DEF CounterInv

LEMMA DeleteEventStep ==
    ASSUME CounterInv, NEW e \in Events, DeleteEvent(e)
    PROVE  CounterInv'
<1>1. Cardinality({}) = 0
    BY FS_EmptySet
<1>2. CountersTypeOK'
    BY DEF DeleteEvent, PostedWithout, CounterInv, CountersTypeOK
<1>3. CommentsCounted' /\ LikesNotOvercounted'
    BY <1>1 DEF DeleteEvent, PostedWithout, CounterInv, CountersTypeOK, CommentsCounted,
                LikesNotOvercounted
<1>4. RowsHaveEvent' /\ AuthorsKnown'
    BY DEF DeleteEvent, PostedWithout, CounterInv, CountersTypeOK, RowsHaveEvent, AuthorsKnown
<1> QED BY <1>2, <1>3, <1>4 DEF CounterInv

(* The steps that only begin or end a request.                             *)
LEMMA RequestStep ==
    ASSUME CounterInv, NEW r \in Requests, NEW e \in Events, NEW u \in Users,
           \/ ToggleLikeCheck(r, e, u)
           \/ AddCommentCheck(r, e, u)
           \/ \E c \in Comments : DeleteCommentCheck(r, e, u, c)
           \/ GiveUp(r)
    PROVE  CounterInv'
<1>1. req' \in [Requests -> Running \union {Idle}]
    BY ReqTyped DEF CounterInv, ToggleLikeCheck, AddCommentCheck, DeleteCommentCheck, GiveUp
<1>2. UNCHANGED <<events, likes, posted, author, likeCount, commentCount>>
    BY DEF ToggleLikeCheck, AddCommentCheck, DeleteCommentCheck, GiveUp, Begin
<1> QED BY <1>1, <1>2, TablesUntouched

LEMMA CounterInvInit == Init => CounterInv
<1> SUFFICES ASSUME Init PROVE CounterInv
    OBVIOUS
<1>1. Cardinality({}) = 0
    BY FS_EmptySet
<1> QED BY <1>1 DEF Init, CounterInv, CountersTypeOK, CommentsCounted, LikesNotOvercounted,
                   RowsHaveEvent, AuthorsKnown

LEMMA CounterInvStep == CounterInv /\ [Next]_vars => CounterInv'
<1> SUFFICES ASSUME CounterInv, [Next]_vars PROVE CounterInv'
    OBVIOUS
<1>1. CASE UNCHANGED vars
    BY <1>1, TablesUntouched DEF vars, CounterInv, CountersTypeOK
<1>2. ASSUME NEW e \in Events, DeleteEvent(e) PROVE CounterInv'
    BY <1>2, DeleteEventStep
<1>3. ASSUME NEW r \in Requests, GiveUp(r) PROVE CounterInv'
  <2>1. req' \in [Requests -> Running \union {Idle}]
      BY <1>3, ReqTyped DEF CounterInv, GiveUp
  <2> QED BY <1>3, <2>1, TablesUntouched DEF GiveUp
<1>4. ASSUME NEW r \in Requests, Step(r), ~GiveUp(r) PROVE CounterInv'
    BY <1>4, LikeStep, UnlikeStep, AddCommentStep, DeleteCommentStep, RequestStep DEF Step
<1> QED BY <1>1, <1>2, <1>3, <1>4 DEF Next

(* Every behaviour keeps the invariant, and all it is made of.             *)
LEMMA Counters == Spec => []CounterInv
BY CounterInvInit, CounterInvStep, PTL DEF Spec

(* Counters and rows stay what they are, and no comment counter falls      *)
(* below zero (the statements of AddComment, DeleteComment, ToggleLike).   *)
THEOREM CountersAreTyped == Spec => []CountersTypeOK
<1>1. CounterInv => CountersTypeOK
    BY DEF CounterInv
<1> QED BY <1>1, Counters, PTL

(* comment_count is the number of comments of the event under every        *)
(* overlap of AddComment, DeleteComment and DeleteEvent.                   *)
THEOREM CommentCountIsExact == Spec => []CommentsCounted
<1>1. CounterInv => CommentsCounted
    BY DEF CounterInv
<1> QED BY <1>1, Counters, PTL

(* like_count never says more than there are likes (ToggleLike).           *)
THEOREM LikeCountIsNeverHigh == Spec => []LikesNotOvercounted
<1>1. CounterInv => LikesNotOvercounted
    BY DEF CounterInv
<1> QED BY <1>1, Counters, PTL

-----------------------------------------------------------------------------
(* Users with one toggle at a time. *)

LEMMA PatientInvInit == Init => PatientInv
<1> SUFFICES ASSUME Init PROVE PatientInv
    OBVIOUS
<1>1. Cardinality({}) = 0
    BY FS_EmptySet
<1> QED BY <1>1, CounterInvInit DEF Init, PatientInv, LikesCounted, UnlikesHaveLike,
                   OneToggleEach, Toggling, Idle

(* An unlike takes a like away, and is the only one that could.            *)
LEMMA PatientUnlike ==
    ASSUME PatientInv, NEW r \in Requests, UnlikeWrite(r)
    PROVE  LikesCounted' /\ UnlikesHaveLike'
<1> DEFINE e == req[r].event
           u == req[r].user
<1>1. e \in Events /\ u \in Users
    BY RunningTyped DEF PatientInv, CounterInv, UnlikeWrite, Idle
<1>2. /\ req[r].op = "unlike"
      /\ likes' = [likes EXCEPT ![e] = @ \ {u}]
      /\ likeCount' = IF e \in events THEN [likeCount EXCEPT ![e] = @ + (-1)] ELSE likeCount
      /\ req' = [req EXCEPT ![r] = Idle]
      /\ events' = events
    BY DEF UnlikeWrite, Decrement, Bump, Finish
<1>3. LikesCounted'
  <2>1. u \in likes[e] => Cardinality(likes[e] \ {u}) = Cardinality(likes[e]) - 1
      BY <1>1, LikesSize DEF PatientInv, CounterInv
  <2>2. CASE e \in events
    <3>1. u \in likes[e]
        BY <1>2, <2>2 DEF PatientInv, UnlikesHaveLike
    <3> QED BY <1>1, <1>2, <2>1, <2>2, <3>1
            DEF PatientInv, CounterInv, CountersTypeOK, LikesCounted
  <2>3. CASE e \notin events
    <3>1. likes[e] \ {u} = likes[e]
        BY <1>1, <2>3 DEF PatientInv, CounterInv, RowsHaveEvent
    <3> QED BY <1>1, <1>2, <2>3, <3>1 DEF PatientInv, CounterInv, CountersTypeOK, LikesCounted
  <2> QED BY <2>2, <2>3
<1>4. UnlikesHaveLike'
  <2> SUFFICES ASSUME NEW s \in Requests, req'[s].op = "unlike", req'[s].event \in events
               PROVE  req'[s].user \in likes'[req'[s].event]
      BY <1>2 DEF UnlikesHaveLike
  <2>1. s # r /\ req'[s] = req[s]
      BY <1>2 DEF PatientInv, CounterInv, CountersTypeOK, Idle
  <2>2. req[s].user # u
      BY <1>2, <2>1 DEF PatientInv, OneToggleEach, Toggling
  <2>3. req[s].user \in likes[req[s].event] /\ req[s].event \in Events
      BY <2>1, RunningTyped DEF PatientInv, CounterInv, UnlikesHaveLike, Idle
  <2> QED BY <1>1, <1>2, <2>1, <2>2, <2>3 DEF PatientInv, CounterInv, CountersTypeOK
<1> QED BY <1>3, <1>4

LEMMA PatientLike ==
    ASSUME PatientInv, NEW r \in Requests, LikeWrite(r)
    PROVE  LikesCounted' /\ UnlikesHaveLike'
<1> DEFINE e == req[r].event
           u == req[r].user
<1>1. e \in Events /\ u \in Users
    BY RunningTyped DEF PatientInv, CounterInv, LikeWrite, Idle
<1>2. req' = [req EXCEPT ![r] = Idle] /\ events' = events
    BY DEF LikeWrite, Finish
<1>3. \A f \in Events : likes[f] \subseteq likes'[f]
    BY <1>1 DEF LikeWrite, PatientInv, CounterInv, CountersTypeOK
<1>4. LikesCounted'
  <2>1. CASE ~InsertsLike(e, u)
      BY <2>1 DEF LikeWrite, PatientInv, LikesCounted
  <2>2. CASE InsertsLike(e, u)
    <3>1. /\ likes' = [likes EXCEPT ![e] = @ \union {u}]
          /\ likeCount' = [likeCount EXCEPT ![e] = @ + 1]
        BY <2>2 DEF LikeWrite, InsertsLike, Bump
    <3>2. Cardinality(likes[e] \union {u}) = Cardinality(likes[e]) + 1
        BY <1>1, <2>2, LikesSize DEF PatientInv, CounterInv, InsertsLike
    <3> QED BY <1>1, <3>1, <3>2 DEF PatientInv, CounterInv, CountersTypeOK, LikesCounted
  <2> QED BY <2>1, <2>2
<1>5. UnlikesHaveLike'
  <2> SUFFICES ASSUME NEW s \in Requests, req'[s].op = "unlike", req'[s].event \in events
               PROVE  req'[s].user \in likes'[req'[s].event]
      BY <1>2 DEF UnlikesHaveLike
  <2>1. req'[s] = req[s]
      BY <1>2 DEF PatientInv, CounterInv, CountersTypeOK, Idle
  <2>2. req[s].user \in likes[req[s].event] /\ req[s].event \in Events
      BY <2>1, RunningTyped DEF PatientInv, CounterInv, UnlikesHaveLike, Idle
  <2> QED BY <1>3, <2>1, <2>2
<1> QED BY <1>4, <1>5

(* Requests about comments, those that give up and those that begin leave  *)
(* the likes alone, and an unlike begins only where there is one.          *)
LEMMA PatientOthers ==
    ASSUME PatientInv, NEW r \in Requests, Step(r), ~LikeWrite(r), ~UnlikeWrite(r)
    PROVE  LikesCounted' /\ UnlikesHaveLike'
<1>1. UNCHANGED <<events, likes, likeCount>>
    BY DEF Step, AddCommentWrite, DeleteCommentWrite, GiveUp, ToggleLikeCheck,
           AddCommentCheck, DeleteCommentCheck, Begin
<1>2. LikesCounted'
    BY <1>1 DEF PatientInv, LikesCounted
<1>3. ASSUME NEW e \in Events, NEW u \in Users, ToggleLikeCheck(r, e, u)
      PROVE  UnlikesHaveLike'
    BY <1>1, <1>3 DEF ToggleLikeCheck, Begin, PatientInv, CounterInv, CountersTypeOK,
                      UnlikesHaveLike
<1>4. ASSUME NEW e \in Events, NEW u \in Users, NEW op \in {"comment", "uncomment"},
             NEW c, Begin(r, op, e, u, c)
      PROVE  UnlikesHaveLike'
    BY <1>1, <1>4 DEF Begin, PatientInv, CounterInv, CountersTypeOK, UnlikesHaveLike
<1>5. ASSUME Finish(r)
      PROVE  UnlikesHaveLike'
    BY <1>1, <1>5 DEF Finish, Idle, PatientInv, CounterInv, CountersTypeOK, UnlikesHaveLike
<1>6. \/ Finish(r)
      \/ \E e \in Events, u \in Users :
            \/ ToggleLikeCheck(r, e, u)
            \/ Begin(r, "comment", e, u, "none")
            \/ \E c \in Comments : Begin(r, "uncomment", e, u, c)
    BY DEF Step, AddCommentWrite, DeleteCommentWrite, GiveUp, AddCommentCheck,
           DeleteCommentCheck
<1> QED BY <1>2, <1>3, <1>4, <1>5, <1>6

LEMMA PatientInvStep == PatientInv /\ [Next /\ OneToggleEach']_vars => PatientInv'
<1> SUFFICES ASSUME PatientInv, [Next /\ OneToggleEach']_vars PROVE PatientInv'
    OBVIOUS
<1>1. CounterInv'
    BY CounterInvStep DEF PatientInv
<1>2. CASE UNCHANGED vars
    BY <1>1, <1>2 DEF vars, PatientInv, LikesCounted, UnlikesHaveLike, OneToggleEach, Toggling
<1>3. CASE Next /\ OneToggleEach'
  <2>1. ASSUME NEW e \in Events, DeleteEvent(e) PROVE LikesCounted' /\ UnlikesHaveLike'
    <3>1. Cardinality({}) = 0
        BY FS_EmptySet
    <3>2. LikesCounted'
        BY <2>1, <3>1 DEF DeleteEvent, PatientInv, CounterInv, CountersTypeOK, LikesCounted
    <3>3. UnlikesHaveLike'
      <4> SUFFICES ASSUME NEW s \in Requests, req[s].op = "unlike",
                          req[s].event \in events \ {e}
                   PROVE  req[s].user \in likes'[req[s].event]
          BY <2>1 DEF DeleteEvent, UnlikesHaveLike
      <4>1. req[s].user \in likes[req[s].event] /\ req[s].event \in Events
          BY RunningTyped DEF PatientInv, CounterInv, UnlikesHaveLike, Idle
      <4> QED BY <2>1, <4>1 DEF DeleteEvent, PatientInv, CounterInv, CountersTypeOK
    <3> QED BY <3>2, <3>3
  <2>2. ASSUME NEW r \in Requests, Step(r) PROVE LikesCounted' /\ UnlikesHaveLike'
      BY <2>2, PatientLike, PatientUnlike, PatientOthers
  <2> QED BY <1>1, <1>3, <2>1, <2>2 DEF Next, PatientInv
<1> QED BY <1>2, <1>3

(* like_count is the number of likes while no user has two toggles of      *)
(* theirs under way, whatever else overlaps (ToggleLike).                  *)
THEOREM LikeCountIsExact == PatientSpec => []LikesCounted
<1>1. PatientInv => LikesCounted
    BY DEF PatientInv
<1> QED BY <1>1, PatientInvInit, PatientInvStep, PTL DEF PatientSpec
=============================================================================
