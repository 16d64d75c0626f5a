--------------------------- MODULE EventCounters ---------------------------
(***************************************************************************)
(* Likes and comments of group events, and the two counters the row of an  *)
(* event keeps of them (backend/internal/groupevent).  Every operation     *)
(* decides on a SELECT and later writes the row and the counter in one     *)
(* transaction; other requests commit in between.                          *)
(*                                                                         *)
(* The writes of one transaction are one step: the first of them locks the *)
(* row of the like or the comment, and the counter is changed in place.    *)
(***************************************************************************)
EXTENDS Integers, FiniteSets

CONSTANTS Users,     \* accounts
          Events,    \* group events; the id of a deleted one does not return
          Comments,  \* comment ids, each given once
          Requests,  \* requests the server works on at the same time
          Nobody,    \* the author of a comment that was never written
          MaxDrift   \* bound on how far below zero a counter is followed

ASSUME NobodyWrites == Nobody \notin Users
ASSUME CountedSetsAreFinite == IsFiniteSet(Users) /\ IsFiniteSet(Comments)
ASSUME DriftIsBounded == MaxDrift \in Nat

VARIABLES
    events,        \* the events that have a row
    likes,         \* group_event_likes, the users by event
    posted,        \* group_event_comments, the ids by event
    author,        \* who wrote a comment
    likeCount,     \* group_events.like_count
    commentCount,  \* group_events.comment_count
    req            \* what each running request has read

vars == <<events, likes, posted, author, likeCount, commentCount, req>>

Idle == [op |-> "idle"]
Running == [op : {"like", "unlike", "comment", "uncomment"},
            event : Events, user : Users, comment : Comments \union {"none"}]

CountersTypeOK ==
    /\ events \in SUBSET Events
    /\ likes \in [Events -> SUBSET Users]
    /\ posted \in [Events -> SUBSET Comments]
    /\ author \in [Comments -> Users \union {Nobody}]
    /\ likeCount \in [Events -> Int]
    /\ commentCount \in [Events -> Nat]
    /\ req \in [Requests -> Running \union {Idle}]

Init ==
    /\ events = Events
    /\ likes = [e \in Events |-> {}]
    /\ posted = [e \in Events |-> {}]
    /\ author = [c \in Comments |-> Nobody]
    /\ likeCount = [e \in Events |-> 0]
    /\ commentCount = [e \in Events |-> 0]
    /\ req = [r \in Requests |-> Idle]

Begin(r, op, e, u, c) ==
    /\ req[r] = Idle
    /\ req' = [req EXCEPT ![r] = [op |-> op, event |-> e, user |-> u, comment |-> c]]
    /\ UNCHANGED <<events, likes, posted, author, likeCount, commentCount>>

Finish(r) == req' = [req EXCEPT ![r] = Idle]

(* UPDATE of a counter in place: the row of a deleted event is not there.  *)
Bump(count, e, by) == IF e \in events THEN [count EXCEPT ![e] = @ + by] ELSE count

-----------------------------------------------------------------------------
(* ToggleLike asks first whether the like is there. *)
ToggleLikeCheck(r, e, u) ==
    /\ likeCount[e] > -MaxDrift
    /\ Begin(r, IF u \in likes[e] THEN "unlike" ELSE "like", e, u, "none")

(* INSERT fails where the like or no event is there.                       *)
InsertsLike(e, u) == e \in events /\ u \notin likes[e]

LikeWrite(r) ==
    LET e == req[r].event
        u == req[r].user
    IN
    /\ req[r].op = "like"
    /\ IF InsertsLike(e, u)
         THEN /\ likes' = [likes EXCEPT ![e] = @ \union {u}]
              /\ likeCount' = Bump(likeCount, e, 1)
         ELSE UNCHANGED <<likes, likeCount>>
    /\ Finish(r)
    /\ UNCHANGED <<events, posted, author, commentCount>>

(* The rows DELETE removed are not counted.  And with the counter left     *)
(* alone.                                                                  *)
NoDecrement(e) == likeCount
Decrement(e) == Bump(likeCount, e, -1)

UnlikeWrite(r) ==
    LET e == req[r].event IN
    /\ req[r].op = "unlike"
    /\ likes' = [likes EXCEPT ![e] = @ \ {req[r].user}]
    /\ likeCount' = Decrement(e)
    /\ Finish(r)
    /\ UNCHANGED <<events, posted, author, commentCount>>

-----------------------------------------------------------------------------
AddCommentCheck(r, e, u) == e \in events /\ Begin(r, "comment", e, u, "none")

(* INSERT fails when the event is gone. *)
AddCommentWrite(r, c) ==
    LET e == req[r].event IN
    /\ req[r].op = "comment"
    /\ author[c] = Nobody
    /\ e \in events
    /\ posted' = [posted EXCEPT ![e] = @ \union {c}]
    /\ author' = [author EXCEPT ![c] = req[r].user]
    /\ commentCount' = Bump(commentCount, e, 1)
    /\ Finish(r)
    /\ UNCHANGED <<events, likes, likeCount>>

DeleteCommentCheck(r, e, u, c) ==
    /\ e \in events /\ c \in posted[e]
    /\ Begin(r, "uncomment", e, u, c)

(* DELETE ... RETURNING: without a row of that user the transaction is     *)
(* rolled back.                                                            *)
RemovesComment(r) ==
    /\ req[r].op = "uncomment"
    /\ req[r].comment \in posted[req[r].event]
    /\ author[req[r].comment] = req[r].user

DeleteCommentWrite(r) ==
    LET e == req[r].event IN
    /\ RemovesComment(r)
    /\ posted' = [posted EXCEPT ![e] = @ \ {req[r].comment}]
    /\ commentCount' = Bump(commentCount, e, -1)
    /\ Finish(r)
    /\ UNCHANGED <<events, likes, author, likeCount>>

(* The rows that refer to the event go with it (ON DELETE CASCADE), and so *)
(* do the counters, which then count nothing; and with the rows kept.      *)
KeepPosted(e) == posted
PostedWithout(e) == [posted EXCEPT ![e] = {}]

DeleteEvent(e) ==
    /\ e \in events
    /\ events' = events \ {e}
    /\ likes' = [likes EXCEPT ![e] = {}]
    /\ posted' = PostedWithout(e)
    /\ likeCount' = [likeCount EXCEPT ![e] = 0]
    /\ commentCount' = [commentCount EXCEPT ![e] = 0]
    /\ UNCHANGED <<author, req>>

(* Refused by the database, timed out, or answered with an error. *)
GiveUp(r) ==
    /\ req[r] # Idle
    /\ Finish(r)
    /\ UNCHANGED <<events, likes, posted, author, likeCount, commentCount>>

-----------------------------------------------------------------------------
Step(r) ==
    \/ LikeWrite(r)
    \/ UnlikeWrite(r)
    \/ \E c \in Comments : AddCommentWrite(r, c)
    \/ DeleteCommentWrite(r)
    \/ GiveUp(r)
    \/ \E e \in Events, u \in Users :
          \/ ToggleLikeCheck(r, e, u)
          \/ AddCommentCheck(r, e, u)
          \/ \E c \in Comments : DeleteCommentCheck(r, e, u, c)

Next == (\E r \in Requests : Step(r)) \/ (\E e \in Events : DeleteEvent(e))

Spec == Init /\ [][Next]_vars

(* A user waits for the answer to one toggle before the next. *)
Toggling(r) == req[r].op \in {"like", "unlike"}
OneToggleEach ==
    \A r, s \in Requests :
        Toggling(r) /\ Toggling(s) /\ req[r].user = req[s].user => r = s

PatientSpec == Init /\ [][Next /\ OneToggleEach']_vars

-----------------------------------------------------------------------------
(* The comment counter of an event is the number of its comments, however  *)
(* additions, deletions of the same comment and the removal of the event   *)
(* overlap (AddComment, DeleteComment, DeleteEvent).                       *)
CommentsCounted == \A e \in Events : commentCount[e] = Cardinality(posted[e])

(* Overlapping toggles never count a like twice: the primary key refuses   *)
(* the second insert, and its transaction takes the increment along.       *)
LikesNotOvercounted == \A e \in Events : likeCount[e] <= Cardinality(likes[e])

(* The like counter is the number of likes.  It is as long as no user has  *)
(* two toggles under way: the toggles of different users may overlap.      *)
LikesCounted == \A e \in Events : likeCount[e] = Cardinality(likes[e])

(* Where the rows of likes and comments come from. *)
RowsHaveEvent == \A e \in Events \ events : likes[e] = {} /\ posted[e] = {}
AuthorsKnown == \A e \in Events : \A c \in posted[e] : author[c] # Nobody

(* The inductive strengthening of the first two; and of the third, with    *)
(* what a toggle has seen that nobody else can change.                     *)
CounterInv ==
    /\ CountersTypeOK
    /\ CommentsCounted
    /\ LikesNotOvercounted
    /\ RowsHaveEvent
    /\ AuthorsKnown

UnlikesHaveLike ==
    \A r \in Requests :
        req[r].op = "unlike" /\ req[r].event \in events => req[r].user \in likes[req[r].event]

PatientInv == CounterInv /\ LikesCounted /\ UnlikesHaveLike /\ OneToggleEach
=============================================================================
