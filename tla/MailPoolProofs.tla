--------------------------- MODULE MailPoolProofs ---------------------------
(***************************************************************************)
(* MailPool for every number of mails and workers and every capacity of    *)
(* the channel: nothing accepted is lost, from the inductive invariant     *)
(* MailInv.                                                                *)
(***************************************************************************)
EXTENDS MailPool, TLAPS

LEMMA MailInvInit == Init => MailInv
<1> SUFFICES ASSUME Init PROVE MailInv
    OBVIOUS
<1>1. MailTypeOK
  <2>1. queue \in Seq(Mails) /\ Len(queue) = 0
      BY DEF Init
  <2>2. Len(queue) <= Capacity
      BY <2>1, ChannelIsBuffered
  <2>3. /\ handler \in [Mails -> {"unborn", "serving", "accepted", "dropped", "panicked", "silent"}]
        /\ worker \in [Workers -> Mails \union {None, "returned"}]
        /\ closed \in BOOLEAN /\ server = "up" /\ tried \in SUBSET Mails
        /\ forced \in BOOLEAN
      BY DEF Init
  <2> QED BY <2>1, <2>2, <2>3 DEF MailTypeOK
<1>2. \A m \in Mails : ~Waiting(m) /\ ~Sending(m)
  <2>1. Len(queue) = 0
      BY DEF Init
  <2>2. \A w \in Workers : worker[w] = None
      BY DEF Init
  <2> QED BY <2>1, <2>2, NoneIsNoMail DEF Waiting, Sending
<1>3. AcceptedIsSomewhere
    BY <1>2 DEF Init, AcceptedIsSomewhere
<1>4. EachOnce /\ ReturnedFromEmpty
    BY NoneIsNoMail DEF Init, EachOnce, ReturnedFromEmpty
<1>5. StoppedInTime /\ LateSubmitsOnlyForced
    BY DEF Init, StoppedInTime, LateSubmitsOnlyForced
<1> QED BY <1>1, <1>3, <1>4, <1>5 DEF MailInv

(* Only a handler that is serving can find the channel closed, and none is *)
(* left after a shutdown in time.                                          *)
LEMMA InTimeStep == MailInv /\ [Next]_vars => (StoppedInTime /\ LateSubmitsOnlyForced)'
<1> SUFFICES ASSUME MailInv, [Next]_vars
             PROVE  StoppedInTime' /\ LateSubmitsOnlyForced'
    OBVIOUS
<1> USE DEF MailInv, MailTypeOK, StoppedInTime, LateSubmitsOnlyForced, HandlersReturned
<1>1. ASSUME NEW m \in Mails, Arrive(m) \/ AnswerWithoutMail(m)
      PROVE  StoppedInTime' /\ LateSubmitsOnlyForced'
    BY <1>1 DEF Arrive, AnswerWithoutMail
<1>2. ASSUME NEW m \in Mails, Submit(m)
      PROVE  StoppedInTime' /\ LateSubmitsOnlyForced'
  <2>1. /\ handler[m] = "serving"
        /\ \A n \in Mails \ {m} : handler'[n] = handler[n]
        /\ handler'[m] \in {"accepted", "dropped"} \/ closed
        /\ handler'[m] # "serving"
        /\ UNCHANGED <<closed, server, forced>>
      BY <1>2 DEF Submit, AnswerWhenFull
  <2>2. closed => server \in {"drain", "exited"}
      BY DEF ReturnedFromEmpty
  <2> QED BY <2>1, <2>2
<1>3. ASSUME NEW w \in Workers, WorkerStep(w)
      PROVE  StoppedInTime' /\ LateSubmitsOnlyForced'
    BY <1>3 DEF WorkerStep, Take, Send, Return
<1>4. CASE Signal \/ MainStep
    BY <1>4 DEF Signal, MainStep, ServerStops, ServerForced, CloseChannel, Exit
<1>5. CASE UNCHANGED vars
    BY <1>5 DEF vars
<1> QED BY <1>1, <1>2, <1>3, <1>4, <1>5 DEF Next, Others

(* The part of MailInv about the channel and the workers.                  *)
PoolInv == MailTypeOK /\ AcceptedIsSomewhere /\ EachOnce /\ ReturnedFromEmpty

(* A handler that submits, or ends without.                                *)
LEMMA HandlerStep ==
    ASSUME MailInv, NEW m \in Mails, Arrive(m) \/ AnswerWithoutMail(m) \/ Submit(m)
    PROVE  PoolInv'
<1>1. CASE Arrive(m) \/ AnswerWithoutMail(m)
  <2>1. /\ handler[m] # "accepted" /\ handler'[m] # "accepted"
        /\ \A n \in Mails \ {m} : handler'[n] = handler[n]
        /\ UNCHANGED <<queue, closed, worker, server, tried, forced>>
      BY <1>1 DEF Arrive, AnswerWithoutMail, MailInv, MailTypeOK
  <2>2. MailTypeOK'
      BY <1>1 DEF Arrive, AnswerWithoutMail, MailInv, MailTypeOK
  <2>3. AcceptedIsSomewhere' /\ EachOnce' /\ ReturnedFromEmpty'
      BY <2>1 DEF MailInv, AcceptedIsSomewhere, EachOnce, ReturnedFromEmpty,
                  Waiting, Sending, AllReturned
  <2> QED BY <2>2, <2>3 DEF PoolInv
<1>2. CASE Submit(m) /\ queue' = queue
  <2>1. /\ handler[m] # "accepted"
        /\ handler' \in [Mails -> {"unborn", "serving", "accepted", "dropped", "panicked", "silent"}]
        /\ \A n \in Mails \ {m} : handler'[n] = handler[n]
        /\ UNCHANGED <<queue, closed, worker, server, tried, forced>>
      BY <1>2 DEF Submit, AnswerWhenFull, MailInv, MailTypeOK
  <2>2. handler'[m] # "accepted"
    <3>1. queue' # Append(queue, m)
        BY <1>2 DEF MailInv, MailTypeOK
    <3> QED BY <1>2, <3>1 DEF Submit, AnswerWhenFull, MailInv, MailTypeOK
  <2>3. MailTypeOK'
      BY <2>1 DEF MailInv, MailTypeOK
  <2>4. AcceptedIsSomewhere' /\ EachOnce' /\ ReturnedFromEmpty'
      BY <2>1, <2>2 DEF MailInv, AcceptedIsSomewhere, EachOnce, ReturnedFromEmpty,
                        Waiting, Sending, AllReturned
  <2> QED BY <2>3, <2>4 DEF PoolInv
<1>3. CASE Submit(m) /\ queue' # queue
  <2>1. /\ ~closed /\ Len(queue) < Capacity
        /\ handler[m] = "serving"
        /\ handler' = [handler EXCEPT ![m] = "accepted"]
        /\ queue' = Append(queue, m)
        /\ UNCHANGED <<closed, worker, server, tried, forced>>
      BY <1>3 DEF Submit, HasRoom
  <2>2. /\ queue \in Seq(Mails) /\ queue' \in Seq(Mails)
        /\ Len(queue') = Len(queue) + 1
        /\ \A i \in 1..Len(queue) : queue'[i] = queue[i]
        /\ queue'[Len(queue) + 1] = m
      BY <2>1 DEF MailInv, MailTypeOK
  <2>3. ~Waiting(m) /\ ~Sending(m) /\ m \notin tried
      BY <2>1 DEF MailInv, AcceptedIsSomewhere
  <2>4. MailTypeOK'
      BY <2>1, <2>2, ChannelIsBuffered DEF MailInv, MailTypeOK
  <2>5. AcceptedIsSomewhere'
    <3>1. \A n \in Mails : Waiting(n)' <=> Waiting(n) \/ n = m
        BY <2>2 DEF Waiting
    <3>2. \A n \in Mails : Sending(n)' <=> Sending(n)
        BY <2>1 DEF Sending
    <3>3. handler'[m] = "accepted" /\ \A n \in Mails \ {m} : handler'[n] = handler[n]
        BY <2>1 DEF MailInv, MailTypeOK
    <3> QED BY <2>1, <2>3, <3>1, <3>2, <3>3 DEF MailInv, AcceptedIsSomewhere
  <2>6. EachOnce'
    <3>1. \A i \in 1..Len(queue) : queue[i] # m
        BY <2>3 DEF Waiting
    <3> QED BY <2>1, <2>2, <3>1 DEF MailInv, EachOnce
  <2>7. ReturnedFromEmpty'
      BY <2>1 DEF MailInv, ReturnedFromEmpty, AllReturned
  <2> QED BY <2>4, <2>5, <2>6, <2>7 DEF PoolInv
<1> QED BY <1>1, <1>2, <1>3

LEMMA WorkerInv ==
    ASSUME MailInv, NEW w \in Workers, WorkerStep(w)
    PROVE  PoolInv'
<1>1. CASE Take(w)
  <2> DEFINE m == Head(queue)
  <2>1. /\ server # "exited" /\ worker[w] = None
        /\ worker' = [worker EXCEPT ![w] = m]
        /\ queue' = Tail(queue)
        /\ UNCHANGED <<handler, closed, server, tried, forced>>
      BY <1>1 DEF Take, Alive
  <2>2. /\ queue \in Seq(Mails) /\ queue' \in Seq(Mails) /\ Len(queue) \in Nat \ {0}
        /\ Len(queue') = Len(queue) - 1
        /\ \A i \in 1..Len(queue') : queue'[i] = queue[i + 1]
        /\ m = queue[1] /\ m \in Mails
      BY <1>1, <2>1 DEF Take, MailInv, MailTypeOK
  <2>3. MailTypeOK'
      BY <2>1, <2>2, ChannelIsBuffered DEF MailInv, MailTypeOK
  <2>4. \A n \in Mails : Waiting(n)' <=> Waiting(n) /\ n # m
    <3> SUFFICES ASSUME NEW n \in Mails PROVE Waiting(n)' <=> Waiting(n) /\ n # m
        OBVIOUS
    <3>1. ASSUME NEW i \in 1..Len(queue'), queue'[i] = n PROVE Waiting(n) /\ n # m
      <4>1. i + 1 \in 1..Len(queue) /\ i + 1 # 1 /\ 1 \in 1..Len(queue)
          BY <2>2
      <4>2. queue[i + 1] = n
          BY <2>2, <3>1
      <4> QED BY <2>2, <4>1, <4>2 DEF Waiting, MailInv, EachOnce
    <3>2. ASSUME NEW i \in 1..Len(queue), queue[i] = n, n # m PROVE Waiting(n)'
      <4>1. i - 1 \in 1..Len(queue')
          BY <2>2, <3>2
      <4>2. queue'[i - 1] = n
          BY <2>2, <3>2, <4>1
      <4> QED BY <4>1, <4>2 DEF Waiting
    <3> QED BY <3>1, <3>2 DEF Waiting
  <2>5. \A n \in Mails : Sending(n)' <=> Sending(n) \/ n = m
      BY <2>1, NoneIsNoMail DEF Sending, MailInv, MailTypeOK
  <2>6. Waiting(m) /\ ~Sending(m)
    <3>1. Waiting(m)
        BY <2>2 DEF Waiting
    <3> QED BY <2>2, <3>1 DEF MailInv, AcceptedIsSomewhere
  <2>7. AcceptedIsSomewhere'
      BY <2>1, <2>2, <2>4, <2>5, <2>6 DEF MailInv, AcceptedIsSomewhere
  <2>8. EachOnce'
    <3>1. \A i, j \in 1..Len(queue') : queue'[i] = queue'[j] => i = j
      <4> SUFFICES ASSUME NEW i \in 1..Len(queue'), NEW j \in 1..Len(queue'),
                          queue[i + 1] = queue[j + 1]
                   PROVE  i = j
          BY <2>2
      <4>1. i + 1 \in 1..Len(queue) /\ j + 1 \in 1..Len(queue)
          BY <2>2
      <4>2. i + 1 = j + 1
          BY <4>1 DEF MailInv, EachOnce
      <4> QED BY <2>2, <4>2
    <3>2. \A v \in Workers : worker[v] # m
        BY <2>6 DEF Sending
    <3> QED BY <2>1, <3>1, <3>2 DEF MailInv, MailTypeOK, EachOnce
  <2>9. ReturnedFromEmpty'
      BY <1>1, <2>1, <2>2, NoneIsNoMail
         DEF Take, MailInv, MailTypeOK, ReturnedFromEmpty, AllReturned
  <2> QED BY <2>3, <2>7, <2>8, <2>9 DEF PoolInv
<1>2. CASE Send(w)
  <2> DEFINE m == worker[w]
  <2>1. /\ server # "exited" /\ m \in Mails
        /\ tried' = tried \union {m}
        /\ worker' = [worker EXCEPT ![w] = None]
        /\ UNCHANGED <<handler, queue, closed, server, forced>>
      BY <1>2 DEF Send, Alive, AfterMail
  <2>2. MailTypeOK'
      BY <2>1 DEF MailInv, MailTypeOK
  <2>3. \A n \in Mails : Sending(n)' <=> Sending(n) /\ n # m
      BY <2>1, NoneIsNoMail DEF Sending, MailInv, MailTypeOK, EachOnce
  <2>4. Sending(m) /\ \A n \in Mails : Waiting(n)' <=> Waiting(n)
      BY <2>1 DEF Sending, Waiting
  <2>5. AcceptedIsSomewhere'
      BY <2>1, <2>3, <2>4 DEF MailInv, AcceptedIsSomewhere
  <2>6. EachOnce' /\ ReturnedFromEmpty'
      BY <2>1, NoneIsNoMail DEF MailInv, MailTypeOK, EachOnce, ReturnedFromEmpty, AllReturned
  <2> QED BY <2>2, <2>5, <2>6 DEF PoolInv
<1>3. CASE Return(w)
  <2>1. /\ server # "exited" /\ worker[w] = None /\ closed /\ queue = <<>>
        /\ worker' = [worker EXCEPT ![w] = "returned"]
        /\ UNCHANGED <<handler, queue, closed, server, tried, forced>>
      BY <1>3 DEF Return, Alive, LoopEnds
  <2>2. MailTypeOK'
      BY <2>1 DEF MailInv, MailTypeOK
  <2>3. \A n \in Mails : /\ Sending(n)' <=> Sending(n)
                         /\ Waiting(n)' <=> Waiting(n)
      BY <2>1, NoneIsNoMail DEF Sending, Waiting, MailInv, MailTypeOK
  <2>4. AcceptedIsSomewhere'
      BY <2>1, <2>3 DEF MailInv, AcceptedIsSomewhere
  <2>5. EachOnce' /\ ReturnedFromEmpty'
      BY <2>1, NoneIsNoMail DEF MailInv, MailTypeOK, EachOnce, ReturnedFromEmpty, AllReturned
  <2> QED BY <2>2, <2>4, <2>5 DEF PoolInv
<1> QED BY <1>1, <1>2, <1>3 DEF WorkerStep

LEMMA MainInv == MailInv /\ (Signal \/ MainStep) => PoolInv'
<1> SUFFICES ASSUME MailInv, Signal \/ MainStep PROVE PoolInv'
    OBVIOUS
<1>1. UNCHANGED <<handler, queue, worker, tried>>
    BY DEF Signal, MainStep, ServerStops, ServerForced, CloseChannel, Exit
<1>2. MailTypeOK'
    BY <1>1 DEF Signal, MainStep, ServerStops, ServerForced, CloseChannel, Exit,
                Closed, MailInv, MailTypeOK
<1>3. AcceptedIsSomewhere' /\ EachOnce'
    BY <1>1 DEF MailInv, AcceptedIsSomewhere, EachOnce, Waiting, Sending
<1>4. ReturnedFromEmpty'
    BY <1>1 DEF Signal, MainStep, ServerStops, ServerForced, CloseChannel, Exit,
                Closed, MailInv, MailTypeOK, ReturnedFromEmpty, AllReturned
<1> QED BY <1>2, <1>3, <1>4 DEF PoolInv

LEMMA MailInvStep == MailInv /\ [Next]_vars => MailInv'
<1>1. MailInv /\ UNCHANGED vars => PoolInv'
    BY DEF vars, MailInv, PoolInv, MailTypeOK, AcceptedIsSomewhere, EachOnce,
           ReturnedFromEmpty, Waiting, Sending, AllReturned
<1>2. MailInv /\ [Next]_vars => PoolInv'
    BY <1>1, HandlerStep, WorkerInv, MainInv DEF Next, Others
<1> QED BY <1>2, InTimeStep DEF MailInv, PoolInv

LEMMA MailInvariant == Spec => []MailInv
BY MailInvInit, MailInvStep, PTL DEF Spec

(* The channel never holds more than its capacity, and every mail and      *)
(* worker is in one of its states (Submit, run, Shutdown).                 *)
THEOREM PoolIsTyped == Spec => []MailTypeOK
<1>1. MailInv => MailTypeOK
    BY DEF MailInv
<1> QED BY <1>1, MailInvariant, PTL

(* What Submit accepted is in the channel, with one worker, or done with.  *)
THEOREM NothingAcceptedIsLost == Spec => []AcceptedIsSomewhere
<1>1. MailInv => AcceptedIsSomewhere
    BY DEF MailInv
<1> QED BY <1>1, MailInvariant, PTL

(* Shutdown returns only when all that was accepted has been tried.        *)
THEOREM ShutdownDrains == Spec => []ExitsDrained
<1>1. MailInv => ExitsDrained
  <2> SUFFICES ASSUME MailInv, server = "exited", NEW m \in Mails, handler[m] = "accepted"
               PROVE  m \in tried
      BY DEF ExitsDrained
  <2>1. \A w \in Workers : worker[w] = "returned"
      BY DEF MailInv, ReturnedFromEmpty, AllReturned
  <2>2. queue = <<>>
      BY <2>1, ThereAreWorkers DEF MailInv, ReturnedFromEmpty
  <2>3. ~Sending(m) /\ ~Waiting(m)
      BY <2>1, <2>2, NoneIsNoMail DEF Sending, Waiting
  <2> QED BY <2>3 DEF MailInv, AcceptedIsSomewhere
<1> QED BY <1>1, MailInvariant, PTL

(* A request finds the channel closed only when the shutdown ran out of    *)
(* the time it gives to handlers.                                          *)
THEOREM LateSubmitsAfterTimeout == Spec => []LateSubmitsOnlyForced
<1>1. MailInv => LateSubmitsOnlyForced
    BY DEF MailInv
<1> QED BY <1>1, MailInvariant, PTL
=============================================================================
