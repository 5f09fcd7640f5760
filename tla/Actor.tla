------------------------------- MODULE Actor -------------------------------
(***************************************************************************)
(* The Actor class of src/python/pysync/actor.py: clients that call        *)
(* methods or tell(), the lazily started worker thread that runs them in   *)
(* batches, and threads that call stop().                                  *)
(*                                                                         *)
(* The mailbox is a Channel, taken at the level of ClosableQueue, whose    *)
(* actions are used here: a send() clones the Sender (Acquire), stores its *)
(* item when there is room (Put), or gives up once the channel is closed,  *)
(* and drops its clone when it returns (Release).  The drop of the stored  *)
(* Sender and the close signal are one step, so a send() may give up a     *)
(* little earlier than Channel allows.                                     *)
(*                                                                         *)
(* Each call stands for one client thread that makes it, or for a tell()   *)
(* that a method makes to its own actor; a method may also stop its actor. *)
(* What a method calls directly on itself sends no message.                *)
(*                                                                         *)
(* An operator whose name ends in _faulty is a variant of the one that     *)
(* follows it with a plausible mistake; nothing refers to it.              *)
(***************************************************************************)
EXTENDS Naturals, Sequences, FiniteSets, SequencesExt

CONSTANTS
  Calls,        \* the method calls made, one client thread each
  Tells,        \* those made with tell(), which have no Future
  Cancellable,  \* those whose client may cancel the Future
  Stoppers,     \* the threads that call stop()
  Timed,        \* those that give it a timeout
  By,           \* the call whose method makes each call or stop(), or Outside
  Outside,
  Capacity,     \* mailbox_capacity
  Started,      \* the worker thread is running to begin with
  Sentinel      \* the None that stop() sends

ASSUME ActorAssumption ==
  /\ Tells \subseteq Calls
  /\ Cancellable \subseteq Calls \ Tells
  /\ Timed \subseteq Stoppers
  /\ Calls \cap Stoppers = {}
  /\ Sentinel \notin Calls /\ Outside \notin Calls
  /\ By \in [Calls \cup Stoppers -> Calls \cup {Outside}]
  /\ \A m \in Calls : By[m] # Outside => m \in Tells
  /\ Capacity \in Nat \ {0}
  /\ Started \in BOOLEAN

VARIABLES
  q, closed, holders,   \* the mailbox
  stopped,    \* _stopped
  worker,     \* where the worker thread is; "none" while _thread is None
  batch,      \* what the worker has taken out of the mailbox, not yet run
  client,     \* where the client of each call is
  future,     \* the state of each call's Future
  stopper,    \* where each stopper is
  accepted,   \* history: the calls put into the mailbox, in order
  ran,        \* history: the calls whose method has run, in order
  backlog,    \* history: what was accepted, not run, when the first stop() began
  gaveUp      \* history: a stop() has given up sending the sentinel

Mailbox == INSTANCE ClosableQueue WITH
  Users <- Calls \cup Stoppers,
  Items <- Calls \cup {Sentinel},
  Bound <- Capacity

mailbox == <<q, closed, holders>>
histories == <<accepted, ran, backlog, gaveUp>>
vars == <<mailbox, stopped, worker, batch, client, future, stopper, histories>>

WorkerPlaces == {"none", "created", "on_start", "recv", "drain", "run", "resolve",
                 "on_stop", "dead"}
ClientPlaces == {"idle", "ensure", "start", "bound", "sending", "sent", "rejected", "refused"}
FutureStates == {"none", "pending", "done", "failed", "cancelled"}
StopperPlaces == {"idle", "flagged", "sentinel", "sending", "sent", "join", "close",
                  "returned", "raised"}

Init ==
  /\ q = <<>> /\ closed = FALSE /\ holders = {}
  /\ stopped = FALSE
  /\ worker = IF Started THEN "recv" ELSE "none"
  /\ batch = <<>>
  /\ client = [m \in Calls |-> "idle"]
  /\ future = [m \in Calls |-> "none"]
  /\ stopper = [s \in Stoppers |-> "idle"]
  /\ accepted = <<>> /\ ran = <<>>
  /\ backlog = {} /\ gaveUp = FALSE

-----------------------------------------------------------------------------
(* Calls made by methods. *)

\* The worker runs the method of the call.
Running(m) == worker = "resolve" /\ Head(batch) = m

\* A tell() or stop() that the method of m makes is in progress.
Within(m) ==
  \/ \E n \in Calls : By[n] = m /\ (client[n] \in {"ensure", "start", "bound", "sending"} \/ n \in holders)
  \/ \E s \in Stoppers : By[s] = m /\ stopper[s] \notin {"idle", "returned", "raised"}

\* A method makes its calls one after the other.
MayCall(x) == By[x] # Outside => Running(By[x]) /\ ~Within(By[x])

-----------------------------------------------------------------------------
(* Clients. *)

ClientGoes(m, from, to) ==
  /\ client[m] = from
  /\ client' = [client EXCEPT ![m] = to]

\* Looking the method up: a stopped actor raises.
Lookup(m) ==
  /\ MayCall(m)
  /\ ClientGoes(m, "idle", IF stopped THEN "refused" ELSE "ensure")
  /\ UNCHANGED <<mailbox, stopped, worker, batch, future, stopper, histories>>

\* Two clients may both find no thread: the lock is not held.
EnsureThread_faulty(m) ==
  /\ ClientGoes(m, "ensure", "start")
  /\ worker' = "created"
  /\ UNCHANGED <<mailbox, stopped, batch, future, stopper, histories>>

\* _ensure_thread_started(): the thread object is made and published under the
\* lock, and started outside it.
EnsureThread(m) ==
  /\ ClientGoes(m, "ensure", IF worker = "none" THEN "start" ELSE "bound")
  /\ worker' = IF worker = "none" THEN "created" ELSE worker
  /\ UNCHANGED <<mailbox, stopped, batch, future, stopper, histories>>

StartThread(m) ==
  /\ ClientGoes(m, "start", "bound")
  /\ worker' = "on_start"
  /\ UNCHANGED <<mailbox, stopped, batch, future, stopper, histories>>

\* The bound method is called, at any later time: a Future is made and the
\* mailbox's Sender cloned.  If the mailbox is closed the Future gets an error,
\* and tell(), which has none, raises.
BeginSend(m) ==
  /\ IF closed
     THEN /\ ClientGoes(m, "bound", "rejected")
          /\ future' = [future EXCEPT ![m] = IF m \in Tells THEN "none" ELSE "failed"]
          /\ UNCHANGED mailbox
     ELSE /\ ClientGoes(m, "bound", "sending")
          /\ future' = [future EXCEPT ![m] = IF m \in Tells THEN "none" ELSE "pending"]
          /\ Mailbox!Acquire(m)
  /\ UNCHANGED <<stopped, worker, batch, stopper, histories>>

PutCall(m) ==
  /\ ClientGoes(m, "sending", "sent")
  /\ Mailbox!Put(m, m)
  /\ accepted' = Append(accepted, m)
  /\ UNCHANGED <<stopped, worker, batch, future, stopper, ran, backlog, gaveUp>>

\* The mailbox was closed while the client waited for room.
GiveUp(m) ==
  /\ closed
  /\ ClientGoes(m, "sending", "rejected")
  /\ Mailbox!Release(m)
  /\ future' = [future EXCEPT ![m] = IF m \in Tells THEN "none" ELSE "failed"]
  /\ UNCHANGED <<stopped, worker, batch, stopper, histories>>

EndSend(m) ==
  /\ client[m] = "sent"
  /\ Mailbox!Release(m)
  /\ UNCHANGED <<stopped, worker, batch, client, future, stopper, histories>>

\* Future.cancel(): the Future is never marked as running, so it can be
\* cancelled until it has a result.
Cancel(m) ==
  /\ m \in Cancellable /\ client[m] = "sent" /\ future[m] = "pending"
  /\ future' = [future EXCEPT ![m] = "cancelled"]
  /\ UNCHANGED <<mailbox, stopped, worker, batch, client, stopper, histories>>

-----------------------------------------------------------------------------
(* The worker, _run_loop(). *)

WorkerGoes(from, to) == worker = from /\ worker' = to

OnStart ==
  /\ WorkerGoes("on_start", "recv")
  /\ UNCHANGED <<mailbox, stopped, batch, client, future, stopper, histories>>

\* recv(): the first message of a batch, the sentinel, or an error at the end
\* of a closed mailbox.
Receive ==
  /\ worker = "recv"
  /\ \/ /\ Mailbox!Take
        /\ IF Head(q) = Sentinel
           THEN WorkerGoes("recv", "on_stop") /\ UNCHANGED batch
           ELSE WorkerGoes("recv", "drain") /\ batch' = <<Head(q)>>
     \/ /\ closed /\ q = <<>>
        /\ WorkerGoes("recv", "on_stop")
        /\ UNCHANGED <<mailbox, batch>>
  /\ UNCHANGED <<stopped, client, future, stopper, histories>>

\* The newest message of the batch goes to its front.
DrainOne_faulty ==
  /\ worker = "drain"
  /\ Mailbox!Take
  /\ WorkerGoes("drain", IF Head(q) = Sentinel THEN "run" ELSE "drain")
  /\ batch' = <<Head(q)>> \o batch
  /\ UNCHANGED <<stopped, client, future, stopper, histories>>

\* try_recv() in the batching loop finds one more message.
DrainOne ==
  /\ worker = "drain"
  /\ Mailbox!Take
  /\ WorkerGoes("drain", IF Head(q) = Sentinel THEN "run" ELSE "drain")
  /\ batch' = Append(batch, Head(q))
  /\ UNCHANGED <<stopped, client, future, stopper, histories>>

\* try_recv() finds none.  A mailbox that is disconnected by then raises
\* ValueError, which ends the loop with the batch not run.
DrainEnd ==
  /\ worker = "drain" /\ q = <<>>
  /\ IF Mailbox!Sealed
     THEN WorkerGoes("drain", "on_stop") /\ batch' = <<>>
     ELSE WorkerGoes("drain", "run") /\ UNCHANGED batch
  /\ UNCHANGED <<mailbox, stopped, client, future, stopper, histories>>

\* The sentinel is skipped and the worker goes on.
Run_faulty ==
  /\ worker = "run"
  /\ IF batch = <<>> \/ Head(batch) = Sentinel
     THEN WorkerGoes("run", "recv") /\ batch' = <<>> /\ UNCHANGED ran
     ELSE WorkerGoes("run", "resolve") /\ ran' = Append(ran, Head(batch)) /\ UNCHANGED batch
  /\ UNCHANGED <<mailbox, stopped, client, future, stopper, accepted, backlog, gaveUp>>

\* The next message of the batch is run; the sentinel ends the loop.
Run ==
  /\ worker = "run"
  /\ IF batch = <<>>
     THEN WorkerGoes("run", "recv") /\ UNCHANGED <<batch, ran>>
     ELSE IF Head(batch) = Sentinel
     THEN WorkerGoes("run", "on_stop") /\ batch' = <<>> /\ UNCHANGED ran
     ELSE WorkerGoes("run", "resolve") /\ ran' = Append(ran, Head(batch)) /\ UNCHANGED batch
  /\ UNCHANGED <<mailbox, stopped, client, future, stopper, accepted, backlog, gaveUp>>

\* The Future gets the method's result or exception.  A cancelled Future
\* refuses both: the second InvalidStateError leaves _run_loop().
Resolve ==
  /\ worker = "resolve" /\ ~Within(Head(batch))
  /\ LET m == Head(batch) IN
     IF future[m] = "cancelled"
     THEN WorkerGoes("resolve", "on_stop") /\ batch' = <<>> /\ UNCHANGED future
     ELSE /\ WorkerGoes("resolve", "run")
          /\ batch' = Tail(batch)
          /\ IF m \in Tells THEN UNCHANGED future
             ELSE \E r \in {"done", "failed"} : future' = [future EXCEPT ![m] = r]
  /\ UNCHANGED <<mailbox, stopped, client, stopper, histories>>

OnStop ==
  /\ WorkerGoes("on_stop", "dead")
  /\ UNCHANGED <<mailbox, stopped, batch, client, future, stopper, histories>>

-----------------------------------------------------------------------------
(* stop(). *)

StopperGoes(s, from, to) ==
  /\ stopper[s] = from
  /\ stopper' = [stopper EXCEPT ![s] = to]

StopFlag(s) ==
  /\ MayCall(s)
  /\ StopperGoes(s, "idle", "flagged")
  /\ stopped' = TRUE
  /\ backlog' = IF stopped THEN backlog ELSE ToSet(accepted) \ ToSet(ran)
  /\ UNCHANGED <<mailbox, worker, batch, client, future, accepted, ran, gaveUp>>

\* With no thread there is nothing to stop, and the mailbox stays open.
ReadThread(s) ==
  /\ StopperGoes(s, "flagged", IF worker = "none" THEN "returned" ELSE "sentinel")
  /\ UNCHANGED <<mailbox, stopped, worker, batch, client, future, histories>>

\* stop() closes the mailbox in place of sending the sentinel.
BeginSentinel_faulty(s) ==
  /\ StopperGoes(s, "sentinel", "join")
  /\ Mailbox!Close
  /\ UNCHANGED <<stopped, worker, batch, client, future, histories>>

BeginSentinel(s) ==
  /\ IF closed THEN StopperGoes(s, "sentinel", "join") /\ UNCHANGED mailbox
     ELSE StopperGoes(s, "sentinel", "sending") /\ Mailbox!Acquire(s)
  /\ UNCHANGED <<stopped, worker, batch, client, future, histories>>

PutSentinel(s) ==
  /\ StopperGoes(s, "sending", "sent")
  /\ Mailbox!Put(s, Sentinel)
  /\ UNCHANGED <<stopped, worker, batch, client, future, histories>>

EndSentinel(s) ==
  /\ StopperGoes(s, "sent", "join")
  /\ Mailbox!Release(s)
  /\ UNCHANGED <<stopped, worker, batch, client, future, histories>>

\* The mailbox was closed by another stop() meanwhile.
SentinelClosed(s) ==
  /\ closed
  /\ StopperGoes(s, "sending", "join")
  /\ Mailbox!Release(s)
  /\ UNCHANGED <<stopped, worker, batch, client, future, histories>>

SentinelTimeout(s) ==
  /\ s \in Timed
  /\ StopperGoes(s, "sending", "join")
  /\ Mailbox!Release(s)
  /\ gaveUp' = TRUE
  /\ UNCHANGED <<stopped, worker, batch, client, future, accepted, ran, backlog>>

\* The thread is not waited for.
Join_faulty(s) ==
  /\ StopperGoes(s, "join", "close")
  /\ UNCHANGED <<mailbox, stopped, worker, batch, client, future, histories>>

\* join() waits for the worker to end; of a thread that has not been started it
\* raises, and stop() does not get to close the mailbox.  The worker does not
\* join itself.
Join(s) ==
  /\ worker \in {"created", "dead"} \/ By[s] # Outside
  /\ StopperGoes(s, "join", IF worker = "created" THEN "raised" ELSE "close")
  /\ UNCHANGED <<mailbox, stopped, worker, batch, client, future, histories>>

JoinTimeout(s) ==
  /\ s \in Timed /\ By[s] = Outside /\ worker \notin {"created", "dead"}
  /\ StopperGoes(s, "join", "close")
  /\ UNCHANGED <<mailbox, stopped, worker, batch, client, future, histories>>

\* The mailbox is left open.
CloseMailbox_faulty(s) ==
  /\ StopperGoes(s, "close", "returned")
  /\ UNCHANGED <<mailbox, stopped, worker, batch, client, future, histories>>

CloseMailbox(s) ==
  /\ StopperGoes(s, "close", "returned")
  /\ Mailbox!Close
  /\ UNCHANGED <<stopped, worker, batch, client, future, histories>>

-----------------------------------------------------------------------------
\* What a client does on its own accord, and what it does once it has begun.
ClientStarts(m) == Lookup(m) \/ (m \notin Tells /\ BeginSend(m)) \/ Cancel(m)
ClientGoesOn(m) ==
  \/ EnsureThread(m) \/ StartThread(m) \/ PutCall(m) \/ GiveUp(m) \/ EndSend(m)
  \/ m \in Tells /\ BeginSend(m)

WorkerStep ==
  OnStart \/ Receive \/ DrainOne \/ DrainEnd \/ Run \/ Resolve \/ OnStop

StopperGoesOn(s) ==
  \/ ReadThread(s) \/ BeginSentinel(s) \/ PutSentinel(s) \/ EndSentinel(s)
  \/ SentinelClosed(s) \/ SentinelTimeout(s) \/ Join(s) \/ JoinTimeout(s)
  \/ CloseMailbox(s)

Next ==
  \/ \E m \in Calls : ClientStarts(m) \/ ClientGoesOn(m)
  \/ WorkerStep
  \/ \E s \in Stoppers : StopFlag(s) \/ StopperGoesOn(s)

Spec == Init /\ [][Next]_vars

\* A thread in the middle of something goes on with it, the methods run by the
\* worker terminate.  No client has to make a call and nobody has to stop.
Fairness ==
  /\ WF_vars(WorkerStep)
  /\ \A m \in Calls : WF_vars(ClientGoesOn(m))
  /\ \A s \in Stoppers : WF_vars(StopperGoesOn(s))

LiveSpec == Spec /\ Fairness

-----------------------------------------------------------------------------
(* Properties. *)

\* The variables have their types.
TypeOK ==
  /\ q \in Seq(Calls \cup {Sentinel}) /\ Len(q) <= Capacity
  /\ closed \in BOOLEAN /\ holders \subseteq Calls \cup Stoppers
  /\ stopped \in BOOLEAN
  /\ worker \in WorkerPlaces
  /\ batch \in Seq(Calls \cup {Sentinel}) /\ (worker = "resolve" => batch # <<>>)
  /\ client \in [Calls -> ClientPlaces]
  /\ future \in [Calls -> FutureStates]
  /\ stopper \in [Stoppers -> StopperPlaces]
  /\ accepted \in Seq(Calls) /\ ran \in Seq(Calls)
  /\ backlog \subseteq Calls /\ gaveUp \in BOOLEAN

\* What the worker holds and what is stored, oldest first.
Held == (IF worker = "resolve" THEN Tail(batch) ELSE batch) \o q

\* How many of the first n messages are calls.
CallsAmong(s, n) == Cardinality({i \in 1..n : s[i] # Sentinel})

\* Methods run one at a time in the order in which the mailbox accepted them,
\* none twice and none skipped: what has run, what the worker holds and what is
\* stored make up what was accepted, until the worker leaves its loop
\* (actor.py:131-174).
MailboxOrder ==
  /\ IsPrefix(ran, accepted)
  /\ worker \notin {"on_stop", "dead"} =>
       /\ Len(accepted) = Len(ran) + CallsAmong(Held, Len(Held))
       /\ \A i \in DOMAIN Held :
            Held[i] # Sentinel => Held[i] = accepted[Len(ran) + CallsAmong(Held, i)]

\* The lock lets one client make the thread: at most one client is about to
\* start it, and only a thread that is not running yet (actor.py:107-116).
OneWorker ==
  \A m \in Calls :
    client[m] = "start" => worker = "created" /\ \A n \in Calls \ {m} : client[n] # "start"

Answered(m) == m \in ToSet(ran) /\ (m \notin Tells => future[m] # "pending")

\* The method that ran last had its Future cancelled, and the worker ended on that
\* (actor.py:168-172).
EndedByCancel ==
  worker \in {"on_stop", "dead"} /\ ran # <<>> /\ future[Last(ran)] = "cancelled"

\* "Gracefully stop the actor, waiting for mailbox backlog to finish"
\* (actor.py:292): when a stop() without a timeout, called outside of the actor,
\* returns, every call that was in the mailbox when the first stop() began has run
\* and its Future has a result; unless a cancelled Future has ended the worker, or
\* another stop() has given up sending the sentinel and closed the mailbox
\* (actor.py:298-305).
StopFinishesBacklog ==
  \A s \in Stoppers \ Timed :
    stopper[s] = "returned" /\ By[s] = Outside =>
      (\A m \in backlog : Answered(m)) \/ EndedByCancel \/ gaveUp

\* The worker ends with that backlog answered.  What it has run of it is always
\* answered, and the rest is lost only if the Future of the method that it ran
\* last was cancelled, or if a stop() gave up sending the sentinel and closed the
\* mailbox under it (actor.py:140, 168-175, 298-305).
BacklogIsLostForAReason ==
  worker = "dead" =>
    /\ \A m \in backlog \cap ToSet(ran) : Answered(m)
    /\ (\A m \in backlog : Answered(m)) \/ EndedByCancel \/ gaveUp

\* The worker waits for itself: the method that it runs tells its own actor, or
\* stops it, and finds the mailbox full (actor.py:90, 298).
SelfBlocked ==
  /\ worker = "resolve" /\ ~closed /\ Len(q) = Capacity
  /\ \/ \E m \in Calls : client[m] = "sending" /\ By[m] # Outside
     \/ \E s \in Stoppers : stopper[s] = "sending" /\ By[s] # Outside

\* The worker has ended and left a full mailbox open: a cancelled Future has ended
\* it (actor.py:168-172), or a stop() has sent it the sentinel and raised at the
\* join() of a thread that was not running yet (actor.py:301-305).
Abandoned ==
  /\ worker = "dead" /\ ~closed /\ Len(q) = Capacity
  /\ EndedByCancel \/ \E s \in Stoppers : stopper[s] = "raised"

\* A call accepted before anybody called stop() is answered in the end
\* (actor.py:131-174, 290-304), unless the worker waits for itself for ever, a
\* cancelled Future has ended it, or a stop() has given up sending the sentinel.
BacklogIsAnswered ==
  \A m \in Calls :
    (m \in ToSet(accepted) /\ ~stopped) ~>
      (Answered(m) \/ []SelfBlocked \/ EndedByCancel \/ gaveUp)

\* Every stop() comes back (actor.py:290-307), unless the worker waits for itself
\* for ever or has left a full mailbox open for ever.
StopReturns ==
  \A s \in Stoppers :
    stopper[s] # "idle" ~>
      (stopper[s] \in {"returned", "raised"} \/ [](SelfBlocked \/ Abandoned))

\* Nobody is left waiting for room in the mailbox: the worker, or the close()
\* after it, ends every send() (actor.py:213-215, 229-231, 298-305), with the same
\* two exceptions.
SendsReturn ==
  \A m \in Calls :
    client[m] = "sending" ~> (client[m] # "sending" \/ [](SelfBlocked \/ Abandoned))

\* "Actor can be stopped immediately after creation", "worker thread exits"
\* (test_actor.py:94-98): once a stop() has returned, the worker ends.
WorkerExits ==
  \A s \in Stoppers : stopper[s] = "returned" ~> [](worker \in {"none", "dead"})
=============================================================================
