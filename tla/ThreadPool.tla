----------------------------- MODULE ThreadPool -----------------------------
(***************************************************************************)
(* The ThreadPool class of src/src/pool.rs: threads that submit tasks, the *)
(* workers that share the unbounded queue, threads that call shutdown(),   *)
(* and the drop of the pool object.                                        *)
(*                                                                         *)
(* PyO3 keeps a borrow flag for the object: submit() borrows it shared and *)
(* shutdown() exclusively, each for the whole call, and a call that finds  *)
(* it borrowed the wrong way raises RuntimeError.                          *)
(*                                                                         *)
(* Each task stands for one thread that submits it.  A task may wait for   *)
(* the Futures that the program had when it submitted the task, and call   *)
(* shutdown() on its own pool; when that comes to the handle of its own    *)
(* worker, join() panics, or waits for ever where the system does not      *)
(* notice (Windows).                                                       *)
(*                                                                         *)
(* Any thread, a task or not, may stop the world, for a garbage collection *)
(* say: no thread can run Python code or attach to the interpreter from    *)
(* then until every attached thread has paused.  A thread that joins       *)
(* workers while it is attached does not pause, and only Drop does that:   *)
(* at all other times a stop of the world is over at once, and is no step  *)
(* of the model.                                                           *)
(*                                                                         *)
(* An operator whose name ends in _faulty is a variant of the one that     *)
(* follows it with a plausible mistake; nothing refers to it.              *)
(***************************************************************************)
EXTENDS Naturals, Sequences, FiniteSets

CONSTANTS
  Tasks,      \* the tasks that may be submitted
  Workers,    \* the worker threads: their places in the Vec of handles
  Closers,    \* the threads that call shutdown()
  Waits,      \* those that call it with wait=True
  Cancels,    \* those that call it with cancel_futures=True
  CallerOf,   \* the task that calls each shutdown(), or NoTask: another thread
  Needs,      \* the tasks whose Futures each task waits for
  SelfJoinPanics,  \* join() of the thread's own handle panics (EDEADLK)
  NoTask

ASSUME PoolAssumption ==
  /\ Waits \subseteq Closers /\ Cancels \subseteq Closers
  /\ Workers # {} /\ Workers \subseteq Nat
  /\ NoTask \notin Tasks
  /\ CallerOf \in [Closers -> Tasks \cup {NoTask}]
  /\ Needs \in [Tasks -> SUBSET Tasks]
  /\ SelfJoinPanics \in BOOLEAN

VARIABLES
  queue,           \* the tasks in the crossbeam channel
  sender,          \* the pool still has its Sender
  active,
  cancelPending,   \* cancel_pending
  handles,         \* the pool still has the workers' JoinHandles
  object,          \* the pool object: held by the program, being dropped, gone
  worker,          \* where each worker is
  current,         \* the task each worker has
  client,          \* where the submit() of each task is
  future,          \* the state of each Future
  closer,          \* where each shutdown() is
  paused           \* somebody stops the world

vars == <<queue, sender, active, cancelPending, handles, object, worker, current,
          client, future, closer, paused>>

Init ==
  /\ queue = <<>>
  /\ sender = TRUE /\ active = TRUE /\ cancelPending = FALSE
  /\ handles = TRUE /\ object = "held"
  /\ worker = [w \in Workers |-> "recv"]
  /\ current = [w \in Workers |-> NoTask]
  /\ client = [t \in Tasks |-> "idle"]
  /\ future = [t \in Tasks |-> "none"]
  /\ closer = [s \in Closers |-> "idle"]
  /\ paused = FALSE

\* A shutdown() is in progress.
Closing(s) == closer[s] \in {"cancel", "drop", "join"}

\* PyO3's borrow flag.
Shared == \E t \in Tasks : client[t] = "submitting"
Exclusive == \E s \in Closers : Closing(s)

AllDead == \A w \in Workers : worker[w] = "dead"

Runs(t) == \E w \in Workers : worker[w] = "run" /\ current[w] = t

\* Drop joins the workers and stays attached to the interpreter.
AttachedJoin == object = "dropping" /\ handles

\* What the code of a task waits for.
MayFinish(t) ==
  /\ \A u \in Needs[t] : future[u] # "pending"
  /\ \A s \in Closers : CallerOf[s] = t => ~Closing(s)

-----------------------------------------------------------------------------
\* submit() is refused while a shutdown() runs and after one.
SubmitBegin(t) ==
  /\ client[t] = "idle" /\ object = "held"
  /\ \A u \in Needs[t] : client[u] = "accepted"
  /\ client' = [client EXCEPT ![t] =
                  IF Exclusive \/ ~active \/ ~sender THEN "refused" ELSE "submitting"]
  /\ UNCHANGED <<queue, sender, active, cancelPending, handles, object, worker, current,
                 future, closer, paused>>

SubmitEnd(t) ==
  /\ client[t] = "submitting"
  /\ client' = [client EXCEPT ![t] = "accepted"]
  /\ queue' = Append(queue, t)
  /\ future' = [future EXCEPT ![t] = "pending"]
  /\ UNCHANGED <<sender, active, cancelPending, handles, object, worker, current,
                 closer, paused>>

\* Future.cancel(): the pool never marks a Future as running.
CancelFuture(t) ==
  /\ future[t] = "pending" /\ ~paused
  /\ future' = [future EXCEPT ![t] = "cancelled"]
  /\ UNCHANGED <<queue, sender, active, cancelPending, handles, object, worker, current,
                 client, closer, paused>>

-----------------------------------------------------------------------------
(* The worker's loop. *)

\* The task that came last goes first.
Receive_faulty(w) ==
  /\ worker[w] = "recv" /\ queue # <<>>
  /\ worker' = [worker EXCEPT ![w] = "check"]
  /\ current' = [current EXCEPT ![w] = queue[Len(queue)]]
  /\ queue' = SubSeq(queue, 1, Len(queue) - 1)
  /\ UNCHANGED <<sender, active, cancelPending, handles, object, client, future,
                 closer, paused>>

Receive(w) ==
  /\ worker[w] = "recv" /\ queue # <<>>
  /\ worker' = [worker EXCEPT ![w] = "check"]
  /\ current' = [current EXCEPT ![w] = Head(queue)]
  /\ queue' = Tail(queue)
  /\ UNCHANGED <<sender, active, cancelPending, handles, object, client, future,
                 closer, paused>>

RecvError(w) ==
  /\ worker[w] = "recv" /\ queue = <<>> /\ ~sender
  /\ worker' = [worker EXCEPT ![w] = "dead"]
  /\ UNCHANGED <<queue, sender, active, cancelPending, handles, object, current,
                 client, future, closer, paused>>

\* The task is dropped, its Future is not cancelled.
CheckCancel_faulty(w) ==
  /\ worker[w] = "check" /\ ~paused
  /\ worker' = [worker EXCEPT ![w] = IF cancelPending THEN "recv" ELSE "run"]
  /\ current' = [current EXCEPT ![w] = IF cancelPending THEN NoTask ELSE @]
  /\ UNCHANGED <<queue, sender, active, cancelPending, handles, object, client,
                 future, closer, paused>>

\* After shutdown(cancel_futures=True) the Future is cancelled in place of
\* running the task.
CheckCancel(w) ==
  /\ worker[w] = "check" /\ ~paused
  /\ IF cancelPending
     THEN /\ worker' = [worker EXCEPT ![w] = "recv"]
          /\ current' = [current EXCEPT ![w] = NoTask]
          /\ future' = [future EXCEPT ![current[w]] = "cancelled"]
     ELSE /\ worker' = [worker EXCEPT ![w] = "run"]
          /\ UNCHANGED <<current, future>>
  /\ UNCHANGED <<queue, sender, active, cancelPending, handles, object, client,
                 closer, paused>>

\* The worker goes back to the queue with its task not dropped.
Resolve_faulty(w) ==
  /\ worker[w] = "run" /\ ~paused /\ MayFinish(current[w])
  /\ worker' = [worker EXCEPT ![w] = "recv"]
  /\ \E r \in {"done", "failed"} : future' = [future EXCEPT ![current[w]] = r]
  /\ UNCHANGED <<queue, sender, active, cancelPending, handles, object, current,
                 client, closer, paused>>

\* A Future that has been cancelled keeps its state.
Resolve(w) ==
  /\ worker[w] = "run" /\ ~paused /\ MayFinish(current[w])
  /\ worker' = [worker EXCEPT ![w] = "recv"]
  /\ current' = [current EXCEPT ![w] = NoTask]
  /\ IF future[current[w]] = "cancelled" THEN UNCHANGED future
     ELSE \E r \in {"done", "failed"} : future' = [future EXCEPT ![current[w]] = r]
  /\ UNCHANGED <<queue, sender, active, cancelPending, handles, object, client,
                 closer, paused>>

-----------------------------------------------------------------------------
(* shutdown() and Drop. *)

CloserGoes(s, from, to) ==
  /\ closer[s] = from
  /\ closer' = [closer EXCEPT ![s] = to]

\* shutdown() does not exclude a submit() that has looked at active.
ShutdownBegin_faulty(s) ==
  /\ object = "held"
  /\ CloserGoes(s, "idle",
       IF Exclusive THEN "raised" ELSE IF active THEN "cancel" ELSE "already")
  /\ active' = (active /\ Exclusive)
  /\ UNCHANGED <<queue, sender, cancelPending, handles, object, worker, current,
                 client, future, paused>>

\* A pool that is shut down already is left alone.
ShutdownBegin(s) ==
  /\ object = "held" /\ (CallerOf[s] # NoTask => Runs(CallerOf[s]))
  /\ CloserGoes(s, "idle",
       IF Shared \/ Exclusive THEN "raised" ELSE IF active THEN "cancel" ELSE "already")
  /\ active' = (active /\ (Shared \/ Exclusive))
  /\ UNCHANGED <<queue, sender, cancelPending, handles, object, worker, current,
                 client, future, paused>>

SetCancel(s) ==
  /\ CloserGoes(s, "cancel", "drop")
  /\ cancelPending' = (cancelPending \/ s \in Cancels)
  /\ UNCHANGED <<queue, sender, active, handles, object, worker, current, client,
                 future, paused>>

\* The Sender stays.
DropSender_faulty(s) ==
  /\ CloserGoes(s, "drop", IF s \in Waits THEN "join" ELSE "returned")
  /\ handles' = FALSE
  /\ UNCHANGED <<queue, sender, active, cancelPending, object, worker, current,
                 client, future, paused>>

\* The Sender is dropped and the workers' handles are taken; without wait they
\* go to a helper thread that nobody waits for.
DropSender(s) ==
  /\ CloserGoes(s, "drop", IF s \in Waits THEN "join" ELSE "returned")
  /\ sender' = FALSE
  /\ handles' = FALSE
  /\ UNCHANGED <<queue, active, cancelPending, object, worker, current, client,
                 future, paused>>

JoinWorkers(s) ==
  /\ AllDead
  /\ CloserGoes(s, "join", "returned")
  /\ UNCHANGED <<queue, sender, active, cancelPending, handles, object, worker, current,
                 client, future, paused>>

\* The task that calls shutdown() comes to its own worker when those before it
\* have ended: an exception leaves shutdown(), the handles that follow are lost.
JoinSelf(s) ==
  /\ SelfJoinPanics
  /\ \E w \in Workers :
       /\ worker[w] = "run" /\ current[w] = CallerOf[s]
       /\ \A v \in Workers : v < w => worker[v] = "dead"
  /\ CloserGoes(s, "join", "panicked")
  /\ UNCHANGED <<queue, sender, active, cancelPending, handles, object, worker, current,
                 client, future, paused>>

\* The last reference goes away: no call is in progress and none follows.
DropPool ==
  /\ object = "held" /\ ~Shared /\ ~Exclusive
  /\ object' = "dropping"
  /\ active' = FALSE /\ sender' = FALSE
  /\ UNCHANGED <<queue, cancelPending, handles, worker, current, client, future,
                 closer, paused>>

\* Some thread stops the world while Drop joins.
StopWorld ==
  /\ AttachedJoin /\ ~paused
  /\ paused' = TRUE
  /\ UNCHANGED <<queue, sender, active, cancelPending, handles, object, worker, current,
                 client, future, closer>>

\* Drop joins the workers if the pool still has their handles, and its thread can
\* pause again.
DropEnd ==
  /\ object = "dropping"
  /\ handles => AllDead
  /\ object' = "gone"
  /\ paused' = FALSE
  /\ UNCHANGED <<queue, sender, active, cancelPending, handles, worker, current, client,
                 future, closer>>

-----------------------------------------------------------------------------
WorkerStep(w) == Receive(w) \/ RecvError(w) \/ CheckCancel(w) \/ Resolve(w)

CloserGoesOn(s) == SetCancel(s) \/ DropSender(s) \/ JoinWorkers(s) \/ JoinSelf(s)

Next ==
  \/ \E t \in Tasks : SubmitBegin(t) \/ SubmitEnd(t) \/ CancelFuture(t)
  \/ \E w \in Workers : WorkerStep(w)
  \/ \E s \in Closers : ShutdownBegin(s) \/ CloserGoesOn(s)
  \/ DropPool \/ StopWorld \/ DropEnd

Spec == Init /\ [][Next]_vars

\* Tasks terminate; a call that has begun goes on.  Nobody has to shut the pool
\* down, to drop it or to stop the world.
Fairness ==
  /\ \A t \in Tasks : WF_vars(SubmitEnd(t))
  /\ \A w \in Workers : WF_vars(WorkerStep(w))
  /\ \A s \in Closers : WF_vars(CloserGoesOn(s))
  /\ WF_vars(DropEnd)

LiveSpec == Spec /\ Fairness

-----------------------------------------------------------------------------
(* Properties. *)

\* The variables have their types; workers in their loop have the task they
\* work on (pool.rs:23-29, 64-103).
TypeOK ==
  /\ queue \in Seq(Tasks)
  /\ {sender, active, cancelPending, handles, paused} \subseteq BOOLEAN
  /\ object \in {"held", "dropping", "gone"}
  /\ worker \in [Workers -> {"recv", "check", "run", "dead"}]
  /\ current \in [Workers -> Tasks \cup {NoTask}]
  /\ \A w \in Workers : current[w] = NoTask <=> worker[w] \in {"recv", "dead"}
  /\ client \in [Tasks -> {"idle", "submitting", "accepted", "refused"}]
  /\ future \in [Tasks -> {"none", "pending", "done", "failed", "cancelled"}]
  /\ closer \in [Closers -> {"idle", "cancel", "drop", "join",
                              "returned", "already", "raised", "panicked"}]

Occurrences(t) ==
  Cardinality({i \in DOMAIN queue : queue[i] = t})
    + Cardinality({w \in Workers : current[w] = t})

\* No task is lost and none is run twice: a Future that waits for its result
\* belongs to a task that is in the queue or with one worker, once, and a task
\* that has a result is nowhere (pool.rs:64-103, 147-157).
EachTaskIsSomewhere ==
  \A t \in Tasks :
    /\ Occurrences(t) <= 1
    /\ future[t] = "pending" => Occurrences(t) = 1
    /\ future[t] \in {"none", "done", "failed"} => Occurrences(t) = 0

\* "Block and join all worker threads" (pool.rs:180): when the shutdown() that
\* closed the pool returns and was to wait, or the drop of a pool that was not
\* shut down is over, the workers have ended and every Future that submit() has
\* given out has a result or is cancelled.
ShutdownFinishesTasks ==
  (\/ \E s \in Waits : closer[s] = "returned"
   \/ object = "gone" /\ handles)
  => AllDead /\ \A t \in Tasks : future[t] # "pending"

\* Task t waits, itself or through the tasks it waits for, for task u to end: every
\* set of tasks that has t, and what each of its members waits for, has u.
WaitsFor(t, u) ==
  \A S \in SUBSET Tasks :
    t \in S /\ (\A x \in S : {n \in Needs[x] : future[n] = "pending"} \subseteq S) => u \in S

\* The world is to be stopped while a worker has a task: it cannot attach to the
\* interpreter, Drop waits for it, and whoever stops the world waits for Drop.
WorldStuck == paused /\ \E w \in Workers : worker[w] \in {"check", "run"}

\* A task is in shutdown(wait=True), and joins its own worker where that is not
\* noticed, or a worker before its own one whose task waits for this task.
JoinStuck ==
  \E s \in Waits, w \in Workers :
    /\ closer[s] = "join" /\ worker[w] = "run" /\ current[w] = CallerOf[s]
    /\ \/ ~SelfJoinPanics
       \/ \E v \in Workers :
            v < w /\ worker[v] = "run" /\ WaitsFor(current[v], CallerOf[s])

Stuck == WorldStuck \/ JoinStuck

\* No Future stays pending for ever, whether the pool is shut down, dropped or
\* kept (pool.rs:199-215, test_integration.py:504), except in a pool that is stuck
\* for ever: the world was to be stopped during Drop, or a task waits in
\* shutdown() for workers that wait for it.  Tasks that wait for tasks submitted
\* before them do not use up the workers (pool.rs:64).
FuturesResolve ==
  \A t \in Tasks : future[t] = "pending" ~> (future[t] # "pending" \/ []Stuck)

\* After a shutdown() or the drop the workers end, waited for or not
\* (pool.rs:64, 177-195, 208-214), with the same exceptions.
WorkersEnd ==
  (~active) ~> (AllDead \/ []Stuck)
=============================================================================
