------------------------------ MODULE MailPool ------------------------------
(***************************************************************************)
(* The background mail of the API server: handlers submit mails to a       *)
(* bounded channel that a fixed number of workers empties (backend/pkg/    *)
(* email/worker_pool.go), and the shutdown of the server, which waits for  *)
(* the handlers for a limited time, closes the channel and waits for the   *)
(* workers (Run and releaseResources of backend/internal/app/app.go).      *)
(*                                                                         *)
(* A handler submits one mail at most, so a mail stands for its handler.   *)
(***************************************************************************)
EXTENDS Naturals, Sequences

CONSTANTS Mails,     \* requests whose handlers submit a mail
          Workers,   \* goroutines of the pool
          Capacity,  \* of the channel
          None

ASSUME NoneIsNoMail == Mails \intersect {None, "returned"} = {} /\ None # "returned"
ASSUME ThereAreWorkers == Workers # {}
ASSUME ChannelIsBuffered == Capacity \in Nat \ {0}

VARIABLES
    handler,  \* what each request has come to
    queue,    \* the channel
    closed,   \* whether the channel is closed
    worker,   \* the mail each worker is sending
    server,   \* where main is: serving, in Server.Shutdown, draining, gone
    tried,    \* mails a worker is through with, sent or failed
    forced    \* history: the wait for the handlers was cut short

vars == <<handler, queue, closed, worker, server, tried, forced>>

MailTypeOK ==
    /\ handler \in [Mails -> {"unborn", "serving", "accepted", "dropped", "panicked", "silent"}]
    /\ queue \in Seq(Mails) /\ Len(queue) <= Capacity
    /\ closed \in BOOLEAN
    /\ worker \in [Workers -> Mails \union {None, "returned"}]
    /\ server \in {"up", "stopping", "stopped", "drain", "exited"}
    /\ tried \in SUBSET Mails
    /\ forced \in BOOLEAN

Init ==
    /\ handler = [m \in Mails |-> "unborn"]
    /\ queue = <<>>
    /\ closed = FALSE
    /\ worker = [w \in Workers |-> None]
    /\ server = "up"
    /\ tried = {}
    /\ forced = FALSE

Alive == server # "exited"

-----------------------------------------------------------------------------
(* Handlers.  The server takes no more requests once it is stopping. *)

Arrive(m) ==
    /\ server = "up" /\ handler[m] = "unborn"
    /\ handler' = [handler EXCEPT ![m] = "serving"]
    /\ UNCHANGED <<queue, closed, worker, server, tried, forced>>

(* The request ends before it comes to the mail. *)
AnswerWithoutMail(m) ==
    /\ Alive /\ handler[m] = "serving"
    /\ handler' = [handler EXCEPT ![m] = "silent"]
    /\ UNCHANGED <<queue, closed, worker, server, tried, forced>>

(* Submit never waits, and tells whether the mail was taken; and with the  *)
(* wrong answer.                                                           *)
HasRoom == Len(queue) < Capacity
TrueWhenFull == "accepted"
AnswerWhenFull == "dropped"

(* A send on a closed channel panics, with a default case as without.      *)
Submit(m) ==
    /\ Alive /\ handler[m] = "serving"
    /\ IF closed
         THEN handler' = [handler EXCEPT ![m] = "panicked"] /\ UNCHANGED queue
         ELSE IF HasRoom
                THEN /\ handler' = [handler EXCEPT ![m] = "accepted"]
                     /\ queue' = Append(queue, m)
                ELSE handler' = [handler EXCEPT ![m] = AnswerWhenFull] /\ UNCHANGED queue
    /\ UNCHANGED <<closed, worker, server, tried, forced>>

-----------------------------------------------------------------------------
(* Workers. *)

Take(w) ==
    /\ Alive /\ worker[w] = None /\ queue # <<>>
    /\ worker' = [worker EXCEPT ![w] = Head(queue)]
    /\ queue' = Tail(queue)
    /\ UNCHANGED <<handler, closed, server, tried, forced>>

(* A mail that fails or runs into its timeout is not tried again, and the  *)
(* worker goes on; and with a worker that stops at the first error.        *)
ReturnsOnError == "returned"
AfterMail == None

Send(w) ==
    /\ Alive /\ worker[w] \in Mails
    /\ tried' = tried \union {worker[w]}
    /\ worker' = [worker EXCEPT ![w] = AfterMail]
    /\ UNCHANGED <<handler, queue, closed, server, forced>>

(* range over a channel ends when it is closed and empty; and with what    *)
(* is left in it forgotten.                                                *)
LoopEndsWhenClosed == closed
LoopEnds == closed /\ queue = <<>>

Return(w) ==
    /\ Alive /\ worker[w] = None
    /\ LoopEnds
    /\ worker' = [worker EXCEPT ![w] = "returned"]
    /\ UNCHANGED <<handler, queue, closed, server, tried, forced>>

-----------------------------------------------------------------------------
(* Shutdown. *)

Signal ==
    /\ server = "up"
    /\ server' = "stopping"
    /\ UNCHANGED <<handler, queue, closed, worker, tried, forced>>

(* Server.Shutdown waits for the handlers; and with Server.Close in its    *)
(* place.                                                                  *)
NoWait == TRUE
HandlersReturned == \A m \in Mails : handler[m] # "serving"

ServerStops ==
    /\ server = "stopping"
    /\ HandlersReturned
    /\ server' = "stopped"
    /\ UNCHANGED <<handler, queue, closed, worker, tried, forced>>

(* The time for that is over: the error is logged, and shutdown goes on.   *)
ServerForced ==
    /\ server = "stopping"
    /\ server' = "stopped"
    /\ forced' = TRUE
    /\ UNCHANGED <<handler, queue, closed, worker, tried>>

(* close(p.tasks); and with the close forgotten. *)
StaysOpen == closed
Closed == TRUE

CloseChannel ==
    /\ server = "stopped"
    /\ closed' = Closed
    /\ server' = "drain"
    /\ UNCHANGED <<handler, queue, worker, tried, forced>>

(* wg.Wait. *)
AllReturned == \A w \in Workers : worker[w] = "returned"

Exit ==
    /\ server = "drain"
    /\ AllReturned
    /\ server' = "exited"
    /\ UNCHANGED <<handler, queue, closed, worker, tried, forced>>

-----------------------------------------------------------------------------
WorkerStep(w) == Take(w) \/ Send(w) \/ Return(w)
MainStep == ServerStops \/ ServerForced \/ CloseChannel \/ Exit

Others ==
    \/ \E m \in Mails : Arrive(m) \/ AnswerWithoutMail(m) \/ Submit(m)
    \/ \E w \in Workers : WorkerStep(w)
    \/ Signal

Next == Others \/ MainStep

Spec == Init /\ [][Next]_vars

(* Every mail has a timeout, and so has the wait for the handlers.         *)
FairSpec ==
    /\ Spec
    /\ \A w \in Workers : WF_vars(WorkerStep(w))
    /\ WF_vars(MainStep)

-----------------------------------------------------------------------------
Waiting(m) == \E i \in 1..Len(queue) : queue[i] = m
Sending(m) == \E w \in Workers : worker[w] = m

(* A mail that was accepted is waiting, being sent by one worker, or done  *)
(* with, and only one of these: none is lost or sent twice.                *)
AcceptedIsSomewhere ==
    \A m \in Mails :
        /\ handler[m] = "accepted" <=> Waiting(m) \/ Sending(m) \/ m \in tried
        /\ ~(Waiting(m) /\ Sending(m))
        /\ m \in tried => ~Waiting(m) /\ ~Sending(m)

(* When the process exits every mail that was accepted has been tried,     *)
(* even those of handlers the shutdown did not wait for.                   *)
ExitsDrained ==
    server = "exited" => \A m \in Mails : handler[m] = "accepted" => m \in tried

(* Nobody is left with a mail that waits for ever: an accepted mail is     *)
(* tried, and a shutdown comes to its end.                                 *)
MailsAreTried == \A m \in Mails : handler[m] = "accepted" ~> m \in tried
ShutdownEnds == server = "stopping" ~> server = "exited"

(* No new tasks may be submitted after Shutdown is called, says the pool:  *)
(* its close waits for every handler that could submit, unless the time    *)
(* given to them ran out.                                                  *)
LateSubmitsOnlyForced == (\E m \in Mails : handler[m] = "panicked") => forced

(* A mail has one place in the channel and one worker; workers return only *)
(* from a closed and empty channel, and the process exits without them.    *)
EachOnce ==
    /\ \A i, j \in 1..Len(queue) : queue[i] = queue[j] => i = j
    /\ \A v, w \in Workers : worker[v] = worker[w] /\ worker[v] \in Mails => v = w

ReturnedFromEmpty ==
    /\ closed <=> server \in {"drain", "exited"}
    /\ \A w \in Workers : worker[w] = "returned" => closed /\ queue = <<>>
    /\ server = "exited" => AllReturned

(* Nobody is left to submit when the server stopped in time. *)
StoppedInTime ==
    server \in {"stopped", "drain", "exited"} /\ ~forced => HandlersReturned

(* The inductive strengthening of the safety properties. *)
MailInv ==
    /\ MailTypeOK
    /\ AcceptedIsSomewhere
    /\ EachOnce
    /\ ReturnedFromEmpty
    /\ StoppedInTime
    /\ LateSubmitsOnlyForced
=============================================================================
