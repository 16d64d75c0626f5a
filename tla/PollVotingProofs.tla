-------------------------- MODULE PollVotingProofs --------------------------
(***************************************************************************)
(* PollVoting for every set of users, polls, options and overlapping       *)
(* votes, from the inductive invariants PollInv and PatientInv.            *)
(***************************************************************************)
EXTENDS PollVoting, TLAPS

LEMMA VotingTyped ==
    ASSUME PollTypeOK, NEW r \in Requests, req[r] # Idle
    PROVE  /\ req[r] \in Voting
           /\ req[r].op # "idle"
           /\ req[r].poll \in Polls
           /\ req[r].option \in Options
           /\ req[r].user \in Users
           /\ req[r].seen \in SUBSET Options
BY DEF PollTypeOK, Voting

(* The table of requests after a commit: that of the others, but for what  *)
(* they have seen.                                                         *)
LEMMA CommitTyped ==
    ASSUME PollTypeOK, NEW r \in Requests, req[r] # Idle,
           NEW gone \in SUBSET Options, NEW new \in SUBSET Options, Commit(r, gone, new)
    PROVE  /\ req' \in [Requests -> Voting \union {Idle}]
           /\ votes' \in [Users -> SUBSET Options]
           /\ req'[r] = Idle
           /\ \A q \in Requests \ {r} :
                 /\ req[q] = Idle => req'[q] = Idle
                 /\ req[q] # Idle => /\ req'[q] # Idle
                                     /\ req'[q].op = req[q].op
                                     /\ req'[q].poll = req[q].poll
                                     /\ req'[q].user = req[q].user
                                     /\ req[q].user # req[r].user => req'[q] = req[q]
<1>1. req[r].user \in Users
    BY VotingTyped
<1>2. \A q \in Requests : req[q] # Idle => [req[q] EXCEPT !.seen = @ \ gone] \in Voting
    BY VotingTyped DEF Voting
<1>3. votes' \in [Users -> SUBSET Options]
    BY <1>1 DEF Commit, PollTypeOK
<1>4. req' \in [Requests -> Voting \union {Idle}]
    BY <1>2 DEF Commit, PollTypeOK
<1>5. ASSUME NEW q \in Requests \ {r}, req[q] # Idle
      PROVE  /\ req'[q] # Idle
             /\ req'[q].op = req[q].op
             /\ req'[q].poll = req[q].poll
             /\ req'[q].user = req[q].user
             /\ req[q].user # req[r].user => req'[q] = req[q]
  <2>1. req[q] \in Voting
      BY <1>5, VotingTyped
  <2>2. req'[q] = IF req[q].user = req[r].user THEN [req[q] EXCEPT !.seen = @ \ gone] ELSE req[q]
      BY <1>5 DEF Commit
  <2> QED BY <2>1, <2>2 DEF Voting, Idle
<1>6. req'[r] = Idle /\ \A q \in Requests \ {r} : req[q] = Idle => req'[q] = Idle
    BY DEF Commit
<1> QED BY <1>3, <1>4, <1>5, <1>6

LEMMA PollInvInit == Init => PollInv
BY DEF Init, PollInv, PollTypeOK, IdsGivenOnce, VotesHaveOptions

LEMMA PollStepInv == PollInv /\ PollStep => PollInv'
<1> SUFFICES ASSUME PollInv, PollStep PROVE PollInv'
    OBVIOUS
<1>1. ASSUME NEW p \in Polls, NEW settings \in Settings, CreateTripPoll(p, settings)
      PROVE  PollInv'
  <2>1. options[p] = {}
      BY <1>1 DEF CreateTripPoll, PollInv, IdsGivenOnce
  <2> QED BY <1>1, <2>1 DEF CreateTripPoll, PollInv, PollTypeOK, IdsGivenOnce, VotesHaveOptions
<1>2. ASSUME NEW p \in Polls, NEW o \in Options, NEW u \in Users, AddPollOption(p, o, u)
      PROVE  PollInv'
  <2>1. PollTypeOK' /\ VotesHaveOptions'
      BY <1>2 DEF AddPollOption, PollInv, PollTypeOK, VotesHaveOptions
  <2>2. IdsGivenOnce'
      BY <1>2 DEF AddPollOption, PollInv, PollTypeOK, IdsGivenOnce
  <2> QED BY <2>1, <2>2 DEF PollInv
<1>3. ASSUME NEW p \in Polls, NEW u \in Users, DeleteTripPoll(p, u)
      PROVE  PollInv'
  <2>1. PollTypeOK'
      BY <1>3 DEF DeleteTripPoll, VotesWithout, PollInv, PollTypeOK
  <2>2. IdsGivenOnce'
      BY <1>3 DEF DeleteTripPoll, PollInv, PollTypeOK, IdsGivenOnce
  <2>3. VotesHaveOptions'
    <3> SUFFICES ASSUME NEW v \in Users, NEW o \in votes'[v]
                 PROVE  \E q \in Polls : o \in options'[q]
        BY DEF VotesHaveOptions
    <3>1. o \in votes[v] /\ o \notin options[p]
        BY <1>3 DEF DeleteTripPoll, VotesWithout
    <3>2. PICK q \in Polls : o \in options[q]
        BY <3>1 DEF PollInv, VotesHaveOptions
    <3> QED BY <1>3, <3>1, <3>2 DEF DeleteTripPoll, PollInv, PollTypeOK
  <2> QED BY <2>1, <2>2, <2>3 DEF PollInv
<1> QED BY <1>1, <1>2, <1>3 DEF PollStep

(* A commit that adds no vote but for an option that exists.               *)
LEMMA CommitInv ==
    ASSUME PollInv, NEW r \in Requests, req[r] # Idle,
           NEW gone \in SUBSET Options, NEW new \in SUBSET Options, Commit(r, gone, new),
           new \subseteq UNION {options[p] : p \in Polls}
    PROVE  PollInv'
<1>1. PollTypeOK'
    BY CommitTyped DEF Commit, PollInv, PollTypeOK
<1>2. IdsGivenOnce'
    BY CommitTyped DEF Commit, PollInv, IdsGivenOnce
<1>3. \A u \in Users : votes'[u] \subseteq votes[u] \union new
    BY DEF Commit, PollInv, PollTypeOK
<1>4. VotesHaveOptions'
    BY <1>3 DEF Commit, PollInv, VotesHaveOptions
<1> QED BY <1>1, <1>2, <1>4 DEF PollInv

LEMMA VoteStepInv ==
    ASSUME PollInv, NEW r \in Requests, VoteStep(r)
    PROVE  PollInv'
<1>1. ASSUME NEW p \in Polls, NEW o \in Options, NEW u \in Users, VoteCount(r, p, o, u)
      PROVE  PollInv'
  <2>1. Decision(p, o, u) \in {"clear", "insert", "unvote"}
      BY DEF Decision
  <2>2. PollTypeOK'
      BY <1>1, <2>1 DEF VoteCount, PollInv, PollTypeOK, Voting
  <2>3. p \in used
      BY <1>1 DEF VoteCount, PollInv, IdsGivenOnce
  <2>4. IdsGivenOnce'
      BY <1>1, <2>3 DEF VoteCount, PollInv, PollTypeOK, IdsGivenOnce
  <2>5. VotesHaveOptions'
      BY <1>1 DEF VoteCount, PollInv, VotesHaveOptions
  <2> QED BY <2>2, <2>4, <2>5 DEF PollInv
<1>2. CASE VoteClear(r)
  <2>1. req[r] # Idle
      BY <1>2 DEF VoteClear, Idle
  <2>2. req[r] \in Voting
      BY <2>1, VotingTyped DEF PollInv
  <2> DEFINE cleared == [req[r] EXCEPT !.op = "insert",
                            !.seen = votes[req[r].user] \intersect options[req[r].poll]]
  <2>3. cleared \in Voting /\ cleared.poll = req[r].poll
      BY <2>2 DEF Voting, PollInv, PollTypeOK
  <2>4. req' = [req EXCEPT ![r] = cleared] /\ UNCHANGED <<poll, options, votes, used>>
      BY <1>2, <2>2 DEF VoteClear, Voting, PollInv, PollTypeOK
  <2> HIDE DEF cleared
  <2>5. PollTypeOK'
      BY <2>3, <2>4 DEF PollInv, PollTypeOK
  <2>6. IdsGivenOnce' /\ VotesHaveOptions'
      BY <2>1, <2>3, <2>4 DEF PollInv, PollTypeOK, IdsGivenOnce, VotesHaveOptions
  <2> QED BY <2>5, <2>6 DEF PollInv
<1>3. CASE VoteInsert(r)
  <2>1. req[r] # Idle
      BY <1>3 DEF VoteInsert, Idle
  <2>2. /\ req[r].option \in options[req[r].poll]
        /\ Commit(r, req[r].seen, {req[r].option})
      BY <1>3 DEF VoteInsert, MayInsert
  <2>3. /\ req[r].poll \in Polls
        /\ req[r].seen \in SUBSET Options
        /\ {req[r].option} \in SUBSET Options
      BY <2>1, VotingTyped DEF PollInv
  <2>4. {req[r].option} \subseteq UNION {options[p] : p \in Polls}
      BY <2>2, <2>3
  <2> QED BY <2>1, <2>2, <2>3, <2>4, CommitInv
<1>4. CASE VoteRemove(r)
  <2>1. req[r] # Idle
      BY <1>4 DEF VoteRemove, Idle
  <2> QED BY <1>4, <2>1, VotingTyped, CommitInv DEF VoteRemove, PollInv
<1>5. CASE GiveUp(r)
    BY <1>5 DEF GiveUp, PollInv, PollTypeOK, IdsGivenOnce, VotesHaveOptions
<1> QED BY <1>1, <1>2, <1>3, <1>4, <1>5 DEF VoteStep

LEMMA PollInvStep == PollInv /\ [Next]_vars => PollInv'
<1>1. PollInv /\ UNCHANGED vars => PollInv'
    BY DEF vars, PollInv, PollTypeOK, IdsGivenOnce, VotesHaveOptions
<1> QED BY <1>1, PollStepInv, VoteStepInv DEF Next

LEMMA PollInvariant == Spec => []PollInv
BY PollInvInit, PollInvStep, PTL DEF Spec

(* Polls, options, votes and running requests stay what they are.          *)
THEOREM PollsAreTyped == Spec => []PollTypeOK
<1>1. PollInv => PollTypeOK
    BY DEF PollInv
<1> QED BY <1>1, PollInvariant, PTL

(* No vote outlives its option, however VoteOption overlaps with           *)
(* DeleteTripPoll.                                                         *)
THEOREM VotesAreForOptions == Spec => []VotesHaveOptions
<1>1. PollInv => VotesHaveOptions
    BY DEF PollInv
<1> QED BY <1>1, PollInvariant, PTL

-----------------------------------------------------------------------------
(* Users with one vote at a time. *)

LEMMA PatientInvInit == Init => PatientInv
BY PollInvInit DEF Init, PatientInv, OthersSeen, OneVoteEach, OneChoice, Idle

LEMMA PatientPolls ==
    ASSUME PatientInv, PollStep
    PROVE  OthersSeen' /\ OneChoice'
<1>1. ASSUME NEW p \in Polls, NEW settings \in Settings, CreateTripPoll(p, settings)
      PROVE  OthersSeen' /\ OneChoice'
  <2>1. options[p] = {} /\ \A r \in Requests : req[r] # Idle => req[r].poll # p
      BY <1>1 DEF CreateTripPoll, PatientInv, PollInv, IdsGivenOnce
  <2>2. OneChoice'
      BY <1>1, <2>1 DEF CreateTripPoll, PatientInv, PollInv, PollTypeOK, OneChoice
  <2>3. OthersSeen'
    <3> SUFFICES ASSUME NEW r \in Requests, req[r].op = "insert", poll'[req[r].poll] # NoPoll
                 PROVE  \/ poll'[req[r].poll].multiple
                        \/ votes[req[r].user] \intersect options[req[r].poll] \subseteq req[r].seen
        BY <1>1 DEF CreateTripPoll, OthersSeen
    <3>1. req[r] # Idle
        BY DEF Idle
    <3>2. poll'[req[r].poll] = poll[req[r].poll]
        BY <1>1, <2>1, <3>1, VotingTyped DEF CreateTripPoll, PatientInv, PollInv, PollTypeOK
    <3> QED BY <3>2 DEF PatientInv, OthersSeen
  <2> QED BY <2>2, <2>3
<1>2. ASSUME NEW p \in Polls, NEW o \in Options, NEW u \in Users, AddPollOption(p, o, u)
      PROVE  OthersSeen' /\ OneChoice'
  <2>1. \A v \in Users : o \notin votes[v]
      BY <1>2 DEF AddPollOption, PatientInv, PollInv, VotesHaveOptions, IdsGivenOnce
  <2>2. \A v \in Users, q \in Polls :
           votes[v] \intersect options'[q] = votes[v] \intersect options[q]
      BY <1>2, <2>1 DEF AddPollOption, PatientInv, PollInv, PollTypeOK
  <2>3. OneChoice'
      BY <1>2, <2>2 DEF AddPollOption, PatientInv, OneChoice
  <2>4. OthersSeen'
    <3> SUFFICES ASSUME NEW r \in Requests, req[r].op = "insert", poll[req[r].poll] # NoPoll
                 PROVE  \/ poll[req[r].poll].multiple
                        \/ votes[req[r].user] \intersect options'[req[r].poll] \subseteq req[r].seen
        BY <1>2 DEF AddPollOption, OthersSeen
    <3>1. req[r].poll \in Polls /\ req[r].user \in Users
        BY VotingTyped DEF PatientInv, PollInv, Idle
    <3> QED BY <2>2, <3>1 DEF PatientInv, OthersSeen
  <2> QED BY <2>3, <2>4
<1>3. ASSUME NEW p \in Polls, NEW u \in Users, DeleteTripPoll(p, u)
      PROVE  OthersSeen' /\ OneChoice'
  <2>1. \A v \in Users, q \in Polls :
           /\ votes'[v] \intersect options'[q] \subseteq votes[v] \intersect options[q]
           /\ poll'[q] # NoPoll => poll'[q] = poll[q]
      BY <1>3 DEF DeleteTripPoll, VotesWithout, PatientInv, PollInv, PollTypeOK
  <2>2. OneChoice'
      BY <2>1 DEF PatientInv, OneChoice
  <2>3. OthersSeen'
    <3> SUFFICES ASSUME NEW r \in Requests, req[r].op = "insert", poll'[req[r].poll] # NoPoll
                 PROVE  \/ poll'[req[r].poll].multiple
                        \/ votes'[req[r].user] \intersect options'[req[r].poll] \subseteq req[r].seen
        BY <1>3 DEF DeleteTripPoll, OthersSeen
    <3>1. req[r].poll \in Polls /\ req[r].user \in Users
        BY VotingTyped DEF PatientInv, PollInv, Idle
    <3> QED BY <2>1, <3>1 DEF PatientInv, OthersSeen
  <2> QED BY <2>2, <2>3
<1> QED BY <1>1, <1>2, <1>3 DEF PollStep

(* A commit leaves a user one vote in a single-choice poll when it takes   *)
(* back all others of its user, and the running votes of other users alone.*)
LEMMA PatientCommit ==
    ASSUME PatientInv, NEW r \in Requests, req[r] # Idle,
           NEW gone \in SUBSET Options, NEW new \in SUBSET Options, Commit(r, gone, new),
           \A p \in Polls : poll[p] # NoPoll /\ ~poll[p].multiple =>
              \A o, other \in ((votes[req[r].user] \ gone) \union new) \intersect options[p] :
                 o = other
    PROVE  OthersSeen' /\ OneChoice'
<1>1. req[r].user \in Users
    BY VotingTyped DEF PatientInv, PollInv
<1>2. votes' = [votes EXCEPT ![req[r].user] = (@ \ gone) \union new]
      /\ UNCHANGED <<poll, options>>
    BY DEF Commit
<1>3. OneChoice'
    BY <1>1, <1>2 DEF PatientInv, PollInv, PollTypeOK, OneChoice
<1>4. OthersSeen'
  <2> SUFFICES ASSUME NEW s \in Requests, req'[s].op = "insert", poll[req'[s].poll] # NoPoll
               PROVE  \/ poll[req'[s].poll].multiple
                      \/ votes'[req'[s].user] \intersect options[req'[s].poll]
                            \subseteq req'[s].seen
      BY <1>2 DEF OthersSeen
  <2>1. s # r /\ req[s] # Idle
    <3>1. req'[s] # Idle
        BY DEF Idle
    <3> QED BY <3>1, CommitTyped DEF PatientInv, PollInv
  <2>2. req[s].user # req[r].user
      BY <2>1 DEF PatientInv, OneVoteEach
  <2>3. req'[s] = req[s] /\ req[s].user \in Users
      BY <2>1, <2>2, CommitTyped, VotingTyped DEF PatientInv, PollInv
  <2>4. votes'[req[s].user] = votes[req[s].user]
      BY <1>2, <2>2, <2>3 DEF PatientInv, PollInv, PollTypeOK
  <2> QED BY <2>3, <2>4 DEF PatientInv, OthersSeen
<1> QED BY <1>3, <1>4

LEMMA PatientVotes ==
    ASSUME PatientInv, NEW r \in Requests, VoteStep(r)
    PROVE  OthersSeen' /\ OneChoice'
<1>1. ASSUME NEW p \in Polls, NEW o \in Options, NEW u \in Users, VoteCount(r, p, o, u)
      PROVE  OthersSeen' /\ OneChoice'
  <2>1. Decision(p, o, u) = "insert" => poll[p].multiple
      BY DEF Decision
  <2>2. OneChoice'
      BY <1>1 DEF VoteCount, PatientInv, OneChoice
  <2>3. OthersSeen'
    <3> SUFFICES ASSUME NEW s \in Requests, req'[s].op = "insert", poll[req'[s].poll] # NoPoll
                 PROVE  \/ poll[req'[s].poll].multiple
                        \/ votes[req'[s].user] \intersect options[req'[s].poll]
                              \subseteq req'[s].seen
        BY <1>1 DEF VoteCount, OthersSeen
    <3>1. CASE s = r
        BY <1>1, <2>1, <3>1 DEF VoteCount, PatientInv, PollInv, PollTypeOK
    <3>2. CASE s # r
      <4>1. req'[s] = req[s]
          BY <1>1, <3>2 DEF VoteCount, PatientInv, PollInv, PollTypeOK
      <4> QED BY <4>1 DEF PatientInv, OthersSeen
    <3> QED BY <3>1, <3>2
  <2> QED BY <2>2, <2>3
<1>2. CASE VoteClear(r)
  <2>1. req[r] \in Voting
      BY <1>2, VotingTyped DEF VoteClear, Idle, PatientInv, PollInv
  <2> QED BY <1>2, <2>1 DEF VoteClear, Voting, PatientInv, PollInv, PollTypeOK, OthersSeen,
                            OneChoice
<1>3. CASE VoteInsert(r)
  <2> DEFINE q == req[r]
  <2>1. q # Idle /\ q.op = "insert"
      BY <1>3 DEF VoteInsert, Idle
  <2>2. /\ q.poll \in Polls /\ q.user \in Users /\ q.option \in Options
        /\ q.seen \in SUBSET Options
      BY <2>1, VotingTyped DEF PatientInv, PollInv
  <2>3. q.option \in options[q.poll]
      BY <1>3 DEF VoteInsert, MayInsert
  <2>4. ASSUME NEW p \in Polls, poll[p] # NoPoll, ~poll[p].multiple,
               NEW o \in ((votes[q.user] \ q.seen) \union {q.option}) \intersect options[p],
               NEW other \in ((votes[q.user] \ q.seen) \union {q.option}) \intersect options[p]
        PROVE  o = other
    <3>1. CASE p = q.poll
        BY <2>1, <2>2, <2>4, <3>1 DEF PatientInv, OthersSeen
    <3>2. CASE p # q.poll
      <4>1. q.option \notin options[p]
          BY <2>2, <2>3, <3>2 DEF PatientInv, PollInv, IdsGivenOnce
      <4> QED BY <2>2, <2>4, <4>1 DEF PatientInv, OneChoice
    <3> QED BY <3>1, <3>2
  <2>5. Commit(r, q.seen, {q.option})
      BY <1>3 DEF VoteInsert
  <2> HIDE DEF q
  <2> QED BY <2>1, <2>2, <2>4, <2>5, PatientCommit DEF q
<1>4. CASE VoteRemove(r)
  <2>1. req[r] # Idle
      BY <1>4 DEF VoteRemove, Idle
  <2>2. req[r].user \in Users /\ req[r].option \in Options
      BY <2>1, VotingTyped DEF PatientInv, PollInv
  <2>3. ASSUME NEW p \in Polls, poll[p] # NoPoll, ~poll[p].multiple,
               NEW o \in ((votes[req[r].user] \ {req[r].option}) \union {}) \intersect options[p],
               NEW other \in ((votes[req[r].user] \ {req[r].option}) \union {}) \intersect options[p]
        PROVE  o = other
      BY <2>2, <2>3 DEF PatientInv, OneChoice
  <2> QED BY <1>4, <2>1, <2>2, <2>3, PatientCommit DEF VoteRemove
<1>5. CASE GiveUp(r)
    BY <1>5 DEF GiveUp, Idle, PatientInv, PollInv, PollTypeOK, OthersSeen, OneChoice
<1> QED BY <1>1, <1>2, <1>3, <1>4, <1>5 DEF VoteStep

LEMMA PatientInvStep == PatientInv /\ [Next /\ OneVoteEach']_vars => PatientInv'
<1> SUFFICES ASSUME PatientInv, [Next /\ OneVoteEach']_vars PROVE PatientInv'
    OBVIOUS
<1>1. PollInv'
    BY PollInvStep DEF PatientInv
<1>2. CASE UNCHANGED vars
    BY <1>1, <1>2 DEF vars, PatientInv, OthersSeen, OneVoteEach, OneChoice
<1>3. CASE Next /\ OneVoteEach'
    BY <1>1, <1>3, PatientPolls, PatientVotes DEF Next, PatientInv
<1> QED BY <1>2, <1>3

(* In a single-choice poll nobody has two votes while no user has two      *)
(* under way, whatever else overlaps (VoteOption).                         *)
THEOREM SingleChoiceHolds == PatientSpec => []OneChoice
<1>1. PatientInv => OneChoice
    BY DEF PatientInv
<1> QED BY <1>1, PatientInvInit, PatientInvStep, PTL DEF PatientSpec
=============================================================================
