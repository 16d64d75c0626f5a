----------------------------- MODULE PollVoting -----------------------------
(***************************************************************************)
(* Polls of a trip (backend/internal/interaction).  A vote is a            *)
(* transaction of up to three statements at READ COMMITTED: each sees what *)
(* has been committed when it starts, and what it changes is seen by       *)
(* others when the transaction commits.                                    *)
(*                                                                         *)
(* The other operations are a check and one INSERT or DELETE.  What they   *)
(* check never changes but by a deletion, which makes the write fail, so   *)
(* they are one step each.  Users are the members of the trip: one who     *)
(* leaves during a request could as well leave after it.                   *)
(***************************************************************************)
CONSTANTS Users,     \* members of the trip
          Owner,     \* the one who owns it
          Polls,     \* poll ids, each given once
          Options,   \* option ids, each given once
          Requests,  \* votes the server works on at the same time
          NoPoll     \* in the place of a poll that has no row

ASSUME OwnerIsMember == Owner \in Users

VARIABLES
    poll,     \* polls: who made it and what it allows
    options,  \* poll_options, by poll
    votes,    \* poll_votes, by user
    req,      \* what each running vote has read
    used      \* history: ids given out

vars == <<poll, options, votes, req, used>>

Settings == [by : Users, multiple : BOOLEAN, adding : BOOLEAN]
Idle == [op |-> "idle", seen |-> {}]
Voting == [op : {"clear", "insert", "unvote"}, seen : SUBSET Options,
           poll : Polls, option : Options, user : Users]

PollTypeOK ==
    /\ poll \in [Polls -> Settings \union {NoPoll}]
    /\ options \in [Polls -> SUBSET Options]
    /\ votes \in [Users -> SUBSET Options]
    /\ req \in [Requests -> Voting \union {Idle}]
    /\ used \in SUBSET (Polls \union Options)

Init ==
    /\ poll = [p \in Polls |-> NoPoll]
    /\ options = [p \in Polls |-> {}]
    /\ votes = [u \in Users |-> {}]
    /\ req = [r \in Requests |-> Idle]
    /\ used = {}

CreateTripPoll(p, settings) ==
    /\ p \notin used
    /\ used' = used \union {p}
    /\ poll' = [poll EXCEPT ![p] = settings]
    /\ UNCHANGED <<options, votes, req>>

(* max_option_limit is not looked at. *)
AddPollOption(p, o, u) ==
    /\ poll[p] # NoPoll
    /\ poll[p].adding \/ poll[p].by = u
    /\ o \notin used
    /\ used' = used \union {o}
    /\ options' = [options EXCEPT ![p] = @ \union {o}]
    /\ UNCHANGED <<poll, votes, req>>

(* Options and votes go with the poll (ON DELETE CASCADE); and without the *)
(* second half of the cascade.                                             *)
KeepVotes(p) == votes
VotesWithout(p) == [u \in Users |-> votes[u] \ options[p]]

DeleteTripPoll(p, u) ==
    /\ poll[p] # NoPoll
    /\ u \in {poll[p].by, Owner}
    /\ poll' = [poll EXCEPT ![p] = NoPoll]
    /\ options' = [options EXCEPT ![p] = {}]
    /\ votes' = VotesWithout(p)
    /\ UNCHANGED <<req, used>>

-----------------------------------------------------------------------------
(* What the vote is to do: to take the same vote back, or to cast it, in a *)
(* single-choice poll after the others are removed.  And with the flag     *)
(* read the other way round.                                               *)
MultipleClears(p, o, u) ==
    IF o \in votes[u] THEN "unvote" ELSE IF poll[p].multiple THEN "clear" ELSE "insert"
Decision(p, o, u) ==
    IF o \in votes[u] THEN "unvote" ELSE IF poll[p].multiple THEN "insert" ELSE "clear"

VoteCount(r, p, o, u) ==
    /\ req[r] = Idle
    /\ poll[p] # NoPoll
    /\ o \in options[p]
    /\ req' = [req EXCEPT ![r] = [op |-> Decision(p, o, u), seen |-> {},
                                  poll |-> p, option |-> o, user |-> u]]
    /\ UNCHANGED <<poll, options, votes, used>>

(* DELETE sees the votes committed so far, takes their rows and leaves     *)
(* those that somebody else was faster to delete.                          *)
VoteClear(r) ==
    /\ req[r].op = "clear"
    /\ req' = [req EXCEPT ![r].op = "insert",
                          ![r].seen = votes[req[r].user] \intersect options[req[r].poll]]
    /\ UNCHANGED <<poll, options, votes, used>>

(* Commit of request r, which removes and adds votes of its user.          *)
Commit(r, gone, new) ==
    LET u == req[r].user IN
    /\ votes' = [votes EXCEPT ![u] = (@ \ gone) \union new]
    /\ req' = [q \in Requests |->
                  IF q = r THEN Idle
                  ELSE IF req[q] # Idle /\ req[q].user = u
                         THEN [req[q] EXCEPT !.seen = @ \ gone]
                         ELSE req[q]]
    /\ UNCHANGED <<poll, options, used>>

(* A vote refers to its option and is there once; and without the foreign  *)
(* key.                                                                    *)
NoForeignKey(r) == req[r].option \notin votes[req[r].user] \ req[r].seen
MayInsert(r) ==
    /\ req[r].option \in options[req[r].poll]
    /\ req[r].option \notin votes[req[r].user] \ req[r].seen

VoteInsert(r) ==
    /\ req[r].op = "insert"
    /\ MayInsert(r)
    /\ Commit(r, req[r].seen, {req[r].option})

VoteRemove(r) ==
    /\ req[r].op = "unvote"
    /\ Commit(r, {req[r].option}, {})

(* Timed out, refused by the database or rolled back. *)
GiveUp(r) ==
    /\ req[r] # Idle
    /\ req' = [req EXCEPT ![r] = Idle]
    /\ UNCHANGED <<poll, options, votes, used>>

-----------------------------------------------------------------------------
PollStep ==
    \E p \in Polls :
       \/ \E settings \in Settings : CreateTripPoll(p, settings)
       \/ \E o \in Options, u \in Users : AddPollOption(p, o, u)
       \/ \E u \in Users : DeleteTripPoll(p, u)

VoteStep(r) ==
    \/ \E p \in Polls, o \in Options, u \in Users : VoteCount(r, p, o, u)
    \/ VoteClear(r)
    \/ VoteInsert(r)
    \/ VoteRemove(r)
    \/ GiveUp(r)

Next == PollStep \/ \E r \in Requests : VoteStep(r)

Spec == Init /\ [][Next]_vars

(* A user waits for the answer to one vote before the next. *)
OneVoteEach ==
    \A r, s \in Requests :
        req[r] # Idle /\ req[s] # Idle /\ req[r].user = req[s].user => r = s

PatientSpec == Init /\ [][Next /\ OneVoteEach']_vars

-----------------------------------------------------------------------------
(* Every vote is for an option that exists, however voting overlaps with   *)
(* the deletion of the poll (VoteOption, DeleteTripPoll).                  *)
VotesHaveOptions == \A u \in Users : votes[u] \subseteq UNION {options[p] : p \in Polls}

(* In a single-choice poll nobody has two votes.  It is so as long as no   *)
(* user has two votes under way: those of different users may overlap with *)
(* each other and with everything else.                                    *)
OneChoice ==
    \A p \in Polls, u \in Users :
        poll[p] # NoPoll /\ ~poll[p].multiple =>
            \A o, other \in votes[u] \intersect options[p] : o = other

(* Ids are given out once, options belong to one poll, and polls without a *)
(* row have none.                                                          *)
IdsGivenOnce ==
    /\ \A p \in Polls : poll[p] # NoPoll => p \in used
    /\ \A p \in Polls : options[p] \subseteq used /\ (poll[p] = NoPoll => options[p] = {})
    /\ \A p, q \in Polls : p # q => options[p] \intersect options[q] = {}
    /\ \A r \in Requests : req[r] # Idle => req[r].poll \in used

(* A vote about to be cast in a single-choice poll has seen all others of  *)
(* its user, and takes them back.                                          *)
OthersSeen ==
    \A r \in Requests :
        LET q == req[r] IN
        q.op = "insert" /\ poll[q.poll] # NoPoll =>
            poll[q.poll].multiple \/ votes[q.user] \intersect options[q.poll] \subseteq q.seen

(* The inductive strengthenings of the two.                                *)
PollInv == PollTypeOK /\ IdsGivenOnce /\ VotesHaveOptions

PatientInv == PollInv /\ OthersSeen /\ OneVoteEach /\ OneChoice
=============================================================================
