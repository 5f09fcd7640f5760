-------------------------- MODULE ThreadPoolProofs --------------------------
(***************************************************************************)
(* Theorems about ThreadPool, for any tasks, workers and shutdown() calls: *)
(* its types, that no task is lost or run twice, and that a shutdown() or  *)
(* a drop that waits leaves no worker and no pending Future behind.        *)
(***************************************************************************)
EXTENDS ThreadPool, FiniteSetTheorems, TLAPS

-----------------------------------------------------------------------------
(* Types. *)

\* The variables have their types at the start (pool.rs:35-115).
LEMMA InitTyping == Init => TypeOK
<1> SUFFICES ASSUME Init PROVE TypeOK
  OBVIOUS
<1>1. queue \in Seq(Tasks)
  BY DEF Init
<1> QED BY <1>1, PoolAssumption DEF Init, TypeOK

\* No step leaves the types (pool.rs:62-104, 120-215).
LEMMA StepTyping == TypeOK /\ [Next]_vars => TypeOK'
<1> SUFFICES ASSUME TypeOK, [Next]_vars PROVE TypeOK'
  OBVIOUS
<1> USE PoolAssumption
<1>1. ASSUME NEW t \in Tasks, SubmitBegin(t) PROVE TypeOK'
  BY <1>1 DEF TypeOK, SubmitBegin
<1>2. ASSUME NEW t \in Tasks, SubmitEnd(t) PROVE TypeOK'
  <2>1. queue' \in Seq(Tasks)
    BY <1>2 DEF TypeOK, SubmitEnd
  <2> QED BY <1>2, <2>1 DEF TypeOK, SubmitEnd
<1>3. ASSUME NEW t \in Tasks, CancelFuture(t) PROVE TypeOK'
  BY <1>3 DEF TypeOK, CancelFuture
<1>4. ASSUME NEW w \in Workers, Receive(w) PROVE TypeOK'
  <2>1. queue' \in Seq(Tasks) /\ Head(queue) \in Tasks
    BY <1>4 DEF TypeOK, Receive
  <2> QED BY <1>4, <2>1 DEF TypeOK, Receive
<1>5. ASSUME NEW w \in Workers, RecvError(w) PROVE TypeOK'
  BY <1>5 DEF TypeOK, RecvError
<1>6. ASSUME NEW w \in Workers, CheckCancel(w) PROVE TypeOK'
  <2>1. current[w] \in Tasks
    BY <1>6 DEF TypeOK, CheckCancel
  <2>2. CASE cancelPending
    <3>1. /\ worker' = [worker EXCEPT ![w] = "recv"]
          /\ current' = [current EXCEPT ![w] = NoTask]
          /\ future' = [future EXCEPT ![current[w]] = "cancelled"]
      BY <1>6, <2>2 DEF CheckCancel
    <3>2. /\ worker' \in [Workers -> {"recv", "check", "run", "dead"}]
          /\ current' \in [Workers -> Tasks \cup {NoTask}]
          /\ \A v \in Workers : current'[v] = NoTask <=> worker'[v] \in {"recv", "dead"}
      BY <3>1 DEF TypeOK
    <3>3. future' \in [Tasks -> {"none", "pending", "done", "failed", "cancelled"}]
      BY <2>1, <3>1 DEF TypeOK
    <3> QED BY <1>6, <3>2, <3>3 DEF TypeOK, CheckCancel
  <2>3. CASE ~cancelPending
    BY <1>6, <2>1, <2>3 DEF TypeOK, CheckCancel
  <2> QED BY <2>2, <2>3
<1>7. ASSUME NEW w \in Workers, Resolve(w) PROVE TypeOK'
  BY <1>7 DEF TypeOK, Resolve
<1>8. ASSUME NEW s \in Closers, ShutdownBegin(s) PROVE TypeOK'
  BY <1>8 DEF TypeOK, ShutdownBegin, CloserGoes
<1>9. ASSUME NEW s \in Closers, CloserGoesOn(s) PROVE TypeOK'
  BY <1>9 DEF TypeOK, CloserGoesOn, SetCancel, DropSender, JoinWorkers, JoinSelf, CloserGoes
<1>10. CASE DropPool
  BY <1>10 DEF TypeOK, DropPool
<1>11. CASE DropEnd
  BY <1>11 DEF TypeOK, DropEnd
<1>12. CASE StopWorld
  BY <1>12 DEF TypeOK, StopWorld
<1>13. CASE UNCHANGED vars
  BY <1>13 DEF TypeOK, vars
<1> QED
  BY <1>1, <1>2, <1>3, <1>4, <1>5, <1>6, <1>7, <1>8, <1>9, <1>10, <1>11, <1>12, <1>13
  DEF Next, WorkerStep

\* The variables of ThreadPool keep their types, and a worker has a task exactly
\* while it works on one (pool.rs:23-29, 64-103).
THEOREM TypeCorrect == Spec => []TypeOK
BY InitTyping, StepTyping, PTL DEF Spec

-----------------------------------------------------------------------------
(* The end of the pool. *)

\* PyO3's borrow flag: while a submit() is in progress the pool is open
\* (pool.rs:127-133, 164-178).
SubmitsAreAlone ==
  Shared => sender /\ active /\ ~Exclusive /\ object = "held"

\* A worker ends only when nothing can come any more (pool.rs:64).
EndsAreFinal ==
  \A w \in Workers : worker[w] = "dead" => ~sender /\ queue = <<>>

\* Whoever joined the workers found them dead (pool.rs:182-187, 211-214).
JoinsAreTrue ==
  /\ \A s \in Waits : closer[s] = "returned" => AllDead
  /\ object = "gone" /\ handles => AllDead

EndInv == SubmitsAreAlone /\ EndsAreFinal /\ JoinsAreTrue

\* The end of the pool at the start (pool.rs:47-115).
LEMMA InitEnd == Init => EndInv
BY PoolAssumption DEF Init, EndInv, SubmitsAreAlone, EndsAreFinal, JoinsAreTrue, Shared

\* Every step preserves what is known of the end (pool.rs:64, 127-133, 164-215).
LEMMA StepEnd == TypeOK /\ EndInv /\ [Next]_vars => EndInv'
<1> SUFFICES ASSUME TypeOK, EndInv, [Next]_vars PROVE EndInv'
  OBVIOUS
<1> USE PoolAssumption DEF EndInv
<1>1. ASSUME NEW t \in Tasks, SubmitBegin(t) PROVE EndInv'
  BY <1>1 DEF TypeOK, SubmitBegin, SubmitsAreAlone, EndsAreFinal, JoinsAreTrue,
     Shared, Exclusive, Closing, AllDead
<1>2. ASSUME NEW t \in Tasks, SubmitEnd(t) PROVE EndInv'
  <2>1. Shared
    BY <1>2 DEF SubmitEnd, Shared
  <2> QED
    BY <1>2, <2>1 DEF TypeOK, SubmitEnd, SubmitsAreAlone, EndsAreFinal, JoinsAreTrue,
       Shared, Exclusive, Closing, AllDead
<1>3. ASSUME NEW t \in Tasks, CancelFuture(t) PROVE EndInv'
  BY <1>3 DEF CancelFuture, SubmitsAreAlone, EndsAreFinal, JoinsAreTrue,
     Shared, Exclusive, Closing, AllDead
<1>4. ASSUME NEW w \in Workers, WorkerStep(w) PROVE EndInv'
  <2>1. /\ worker' = [worker EXCEPT ![w] = worker'[w]]
        /\ worker[w] # "dead"
        /\ worker'[w] = "dead" => ~sender /\ queue = <<>>
        /\ queue = <<>> => queue' = <<>>
        /\ UNCHANGED <<sender, active, handles, object, client, closer>>
    BY <1>4 DEF TypeOK, WorkerStep, Receive, RecvError, CheckCancel, Resolve
  <2>2. worker \in [Workers -> {"recv", "check", "run", "dead"}]
    BY DEF TypeOK
  <2>3. \A v \in Workers : worker'[v] = "dead" => v = w \/ worker[v] = "dead"
    BY <2>1, <2>2
  <2>4. ~AllDead
    BY <2>1 DEF AllDead
  <2> HIDE DEF EndInv
  <2>5. SubmitsAreAlone'
    BY <2>1 DEF EndInv, SubmitsAreAlone, Shared, Exclusive, Closing
  <2>6. EndsAreFinal'
    BY <2>1, <2>3 DEF EndInv, EndsAreFinal
  <2>7. JoinsAreTrue'
    BY <2>1, <2>4 DEF EndInv, JoinsAreTrue
  <2> QED BY <2>5, <2>6, <2>7 DEF EndInv
<1>5. ASSUME NEW s \in Closers, ShutdownBegin(s) PROVE EndInv'
  BY <1>5 DEF TypeOK, ShutdownBegin, CloserGoes, SubmitsAreAlone, EndsAreFinal, JoinsAreTrue,
     Shared, Exclusive, Closing, AllDead
<1>6. ASSUME NEW s \in Closers, CloserGoesOn(s) PROVE EndInv'
  <2>1. Closing(s) /\ ~Shared
    BY <1>6 DEF CloserGoesOn, SetCancel, DropSender, JoinWorkers, JoinSelf, CloserGoes,
       Closing, SubmitsAreAlone, Exclusive
  <2>2. CASE SetCancel(s)
    BY <2>1, <2>2 DEF TypeOK, SetCancel, CloserGoes, SubmitsAreAlone, EndsAreFinal, JoinsAreTrue,
       Shared, AllDead
  <2>3. CASE DropSender(s)
    BY <2>1, <2>3 DEF TypeOK, DropSender, CloserGoes, SubmitsAreAlone, EndsAreFinal, JoinsAreTrue,
       Shared, AllDead
  <2>4. CASE JoinWorkers(s)
    BY <2>1, <2>4 DEF TypeOK, JoinWorkers, CloserGoes, SubmitsAreAlone, EndsAreFinal, JoinsAreTrue,
       Shared, AllDead
  <2>5. CASE JoinSelf(s)
    BY <2>1, <2>5 DEF TypeOK, JoinSelf, CloserGoes, SubmitsAreAlone, EndsAreFinal, JoinsAreTrue,
       Shared, AllDead
  <2> QED BY <1>6, <2>2, <2>3, <2>4, <2>5 DEF CloserGoesOn
<1>7. CASE DropPool
  BY <1>7 DEF DropPool, SubmitsAreAlone, EndsAreFinal, JoinsAreTrue, Shared, AllDead
<1>8. CASE DropEnd
  BY <1>8 DEF DropEnd, SubmitsAreAlone, EndsAreFinal, JoinsAreTrue, Shared, Exclusive, Closing, AllDead
<1>9. CASE UNCHANGED vars \/ StopWorld
  BY <1>9 DEF vars, StopWorld, SubmitsAreAlone, EndsAreFinal, JoinsAreTrue, Shared, Exclusive, Closing, AllDead
<1> QED
  BY <1>1, <1>2, <1>3, <1>4, <1>5, <1>6, <1>7, <1>8, <1>9 DEF Next

-----------------------------------------------------------------------------
(* The places of the tasks. *)

Indices == 1..Len(queue)

Live == {"pending", "cancelled"}

\* A task is in the queue once (pool.rs:147-157).
QueuedOnce == \A i, j \in Indices : queue[i] = queue[j] => i = j

\* A task is with one worker, and then out of the queue (pool.rs:64).
TakenOnce ==
  \A w \in Workers : current[w] # NoTask =>
    /\ \A v \in Workers : current[v] = current[w] => v = w
    /\ \A i \in Indices : queue[i] # current[w]

\* Where a task is, its Future has no result yet (pool.rs:92-100, 147-157).
LiveTasks ==
  /\ \A i \in Indices : future[queue[i]] \in Live
  /\ \A w \in Workers : current[w] # NoTask => future[current[w]] \in Live

\* A Future is made by an accepted submit() (pool.rs:144-159).
FuturesAreNew == \A t \in Tasks : client[t] # "accepted" => future[t] = "none"

\* The task of a pending Future is somewhere (pool.rs:64-100, 155).
NoneLost ==
  \A t \in Tasks : future[t] = "pending" =>
    (\E i \in Indices : queue[i] = t) \/ \E w \in Workers : current[w] = t

PlaceInv == QueuedOnce /\ TakenOnce /\ LiveTasks /\ FuturesAreNew /\ NoneLost

\* At the start there is no task (pool.rs:47).
LEMMA InitPlace == Init => PlaceInv
BY DEF Init, PlaceInv, QueuedOnce, TakenOnce, LiveTasks, FuturesAreNew, NoneLost, Indices

\* Every step preserves what is known of the tasks' places (pool.rs:62-104,
\* 127-159).
LEMMA StepPlace == TypeOK /\ PlaceInv /\ [Next]_vars => PlaceInv'
<1> SUFFICES ASSUME TypeOK, PlaceInv, [Next]_vars PROVE PlaceInv'
  OBVIOUS
<1> USE PoolAssumption
<1>a. /\ queue \in Seq(Tasks) /\ current \in [Workers -> Tasks \cup {NoTask}]
      /\ client \in [Tasks -> {"idle", "submitting", "accepted", "refused"}]
      /\ future \in [Tasks -> {"none", "pending", "done", "failed", "cancelled"}]
      /\ \A w \in Workers : current[w] = NoTask <=> worker[w] \in {"recv", "dead"}
  BY DEF TypeOK
<1>b. \A i \in Indices : queue[i] \in Tasks
  BY <1>a DEF Indices
<1>c. Len(queue) \in Nat
  BY <1>a
<1>1. ASSUME UNCHANGED <<queue, current, future>>,
             \A t \in Tasks : client[t] = "accepted" => client'[t] = "accepted"
      PROVE  PlaceInv'
  BY <1>1 DEF PlaceInv, QueuedOnce, TakenOnce, LiveTasks, FuturesAreNew, NoneLost, Indices
<1>2. ASSUME NEW t \in Tasks, SubmitBegin(t) PROVE PlaceInv'
  BY <1>1, <1>2, <1>a DEF SubmitBegin
<1>3. ASSUME NEW t \in Tasks, SubmitEnd(t) PROVE PlaceInv'
  <2>1. future[t] = "none"
    BY <1>3 DEF SubmitEnd, PlaceInv, FuturesAreNew
  <2>2. /\ \A i \in Indices : queue[i] # t
        /\ \A w \in Workers : current[w] # t
    BY <1>b, <2>1 DEF PlaceInv, LiveTasks, Live
  <2>3. /\ Indices' = Indices \cup {Len(queue) + 1}
        /\ Len(queue) + 1 \notin Indices
        /\ queue'[Len(queue) + 1] = t
        /\ \A i \in Indices : queue'[i] = queue[i]
    BY <1>3, <1>a, <1>c DEF SubmitEnd, Indices
  <2>4. /\ future' = [future EXCEPT ![t] = "pending"]
        /\ client' = [client EXCEPT ![t] = "accepted"]
        /\ current' = current
    BY <1>3 DEF SubmitEnd
  <2>5. QueuedOnce' /\ TakenOnce'
    BY <2>2, <2>3, <2>4 DEF PlaceInv, QueuedOnce, TakenOnce
  <2>6. LiveTasks'
    BY <1>a, <1>b, <2>2, <2>3, <2>4 DEF PlaceInv, LiveTasks, Live
  <2>7. FuturesAreNew'
    BY <1>a, <2>4 DEF PlaceInv, FuturesAreNew
  <2>8. NoneLost'
    <3> SUFFICES ASSUME NEW u \in Tasks, future'[u] = "pending"
                 PROVE  (\E i \in Indices' : queue'[i] = u) \/ \E w \in Workers : current'[w] = u
      BY DEF NoneLost
    <3>1. CASE u = t
      BY <2>3, <3>1
    <3>2. CASE u # t
      <4>1. (\E i \in Indices : queue[i] = u) \/ \E w \in Workers : current[w] = u
        BY <1>a, <2>4, <3>2 DEF PlaceInv, NoneLost
      <4> QED BY <2>3, <2>4, <4>1
    <3> QED BY <3>1, <3>2
  <2> QED BY <2>5, <2>6, <2>7, <2>8 DEF PlaceInv
<1>4. ASSUME NEW t \in Tasks, CancelFuture(t) PROVE PlaceInv'
  BY <1>4, <1>a, <1>b DEF CancelFuture, PlaceInv, QueuedOnce, TakenOnce, LiveTasks, Live,
     FuturesAreNew, NoneLost, Indices
<1>5. ASSUME NEW w \in Workers, Receive(w) PROVE PlaceInv'
  <2>1. /\ current[w] = NoTask /\ Len(queue) >= 1
        /\ queue' \in Seq(Tasks) /\ Len(queue') = Len(queue) - 1
        /\ \A i \in 1..Len(queue') : queue'[i] = queue[i + 1]
        /\ current' = [current EXCEPT ![w] = queue[1]]
        /\ UNCHANGED <<client, future>>
    BY <1>5, <1>a, <1>c DEF Receive
  <2>2. /\ 1 \in Indices /\ queue[1] \in Tasks
        /\ \A i \in Indices' : i + 1 \in Indices /\ i + 1 # 1 /\ queue'[i] = queue[i + 1]
        /\ \A i \in Indices : i = 1 \/ (i - 1 \in Indices' /\ queue'[i - 1] = queue[i])
    BY <1>b, <1>c, <2>1 DEF Indices
  <2>3. QueuedOnce'
    <3> SUFFICES ASSUME NEW i \in Indices', NEW j \in Indices', queue'[i] = queue'[j]
                 PROVE  i = j
      BY DEF QueuedOnce
    <3>1. i + 1 = j + 1
      BY <2>2 DEF PlaceInv, QueuedOnce
    <3>2. i \in Nat /\ j \in Nat
      BY <2>1 DEF Indices
    <3> QED BY <3>1, <3>2
  <2>4. TakenOnce'
    <3>1. /\ \A v \in Workers : current[v] # queue[1]
          /\ \A i \in Indices' : queue'[i] # queue[1]
      BY <2>2 DEF PlaceInv, TakenOnce, QueuedOnce
    <3>2. \A v \in Workers : current'[v] = IF v = w THEN queue[1] ELSE current[v]
      BY <1>a, <2>1
    <3> SUFFICES ASSUME NEW v \in Workers, current'[v] # NoTask
                 PROVE  /\ \A u \in Workers : current'[u] = current'[v] => u = v
                        /\ \A i \in Indices' : queue'[i] # current'[v]
      BY DEF TakenOnce
    <3>3. CASE v = w
      BY <3>1, <3>2, <3>3
    <3>4. CASE v # w
      <4>1. current'[v] = current[v] /\ current[v] # queue[1]
        BY <3>1, <3>2, <3>4
      <4>2. \A u \in Workers : current[u] = current[v] => u = v
        BY <4>1 DEF PlaceInv, TakenOnce
      <4>3. \A i \in Indices : queue[i] # current[v]
        BY <4>1 DEF PlaceInv, TakenOnce
      <4> QED BY <2>2, <3>2, <4>1, <4>2, <4>3
    <3> QED BY <3>3, <3>4
  <2>5. LiveTasks'
    <3>1. \A i \in Indices' : future[queue'[i]] \in Live
      BY <2>2 DEF PlaceInv, LiveTasks
    <3>2. \A v \in Workers : current'[v] = IF v = w THEN queue[1] ELSE current[v]
      BY <1>a, <2>1
    <3>3. future[queue[1]] \in Live
      BY <2>2 DEF PlaceInv, LiveTasks
    <3>4. \A v \in Workers : current'[v] # NoTask => future[current'[v]] \in Live
      BY <3>2, <3>3 DEF PlaceInv, LiveTasks
    <3> QED BY <2>1, <3>1, <3>4 DEF LiveTasks
  <2>6. FuturesAreNew'
    BY <2>1 DEF PlaceInv, FuturesAreNew
  <2>7. NoneLost'
    <3> SUFFICES ASSUME NEW t \in Tasks, future[t] = "pending"
                 PROVE  (\E i \in Indices' : queue'[i] = t) \/ \E v \in Workers : current'[v] = t
      BY <2>1 DEF NoneLost
    <3>1. CASE \E i \in Indices : queue[i] = t
      <4>1. PICK i \in Indices : queue[i] = t
        BY <3>1
      <4>2. CASE i = 1
        BY <1>a, <2>1, <4>1, <4>2
      <4> QED BY <2>2, <4>1, <4>2
    <3>2. CASE \E v \in Workers : current[v] = t
      BY <1>a, <2>1, <3>2
    <3> QED BY <3>1, <3>2 DEF PlaceInv, NoneLost
  <2> QED BY <2>3, <2>4, <2>5, <2>6, <2>7 DEF PlaceInv
<1>6. ASSUME NEW w \in Workers, RecvError(w) PROVE PlaceInv'
  BY <1>1, <1>6 DEF RecvError
<1>7. ASSUME NEW w \in Workers,
             current[w] # NoTask, UNCHANGED <<queue, client>>,
             current' = [current EXCEPT ![w] = NoTask],
             NEW r \in {"done", "failed", "cancelled"},
             future' = [future EXCEPT ![current[w]] = r]
      PROVE  PlaceInv'
  <2>1. /\ Indices' = Indices
        /\ \A v \in Workers : current'[v] = IF v = w THEN NoTask ELSE current[v]
        /\ \A t \in Tasks : future'[t] = IF t = current[w] THEN r ELSE future[t]
    BY <1>7, <1>a DEF Indices
  <2>2. \A v \in Workers \ {w} : current[v] # current[w]
    BY <1>7 DEF PlaceInv, TakenOnce
  <2>3. \A i \in Indices : queue[i] # current[w]
    BY <1>7 DEF PlaceInv, TakenOnce
  <2>4. QueuedOnce' /\ TakenOnce'
    BY <1>7, <2>1 DEF PlaceInv, QueuedOnce, TakenOnce
  <2>5. LiveTasks'
    BY <1>7, <1>a, <1>b, <2>1, <2>2, <2>3 DEF PlaceInv, LiveTasks
  <2>6. FuturesAreNew'
    <3>1. future[current[w]] # "none" /\ current[w] \in Tasks
      BY <1>7, <1>a DEF PlaceInv, LiveTasks, Live
    <3> QED BY <1>7, <2>1, <3>1 DEF PlaceInv, FuturesAreNew
  <2>7. NoneLost'
    BY <1>7, <2>1 DEF PlaceInv, NoneLost
  <2> QED BY <2>4, <2>5, <2>6, <2>7 DEF PlaceInv
<1>8. ASSUME NEW w \in Workers, CheckCancel(w) PROVE PlaceInv'
  <2>1. current[w] # NoTask
    BY <1>8, <1>a DEF CheckCancel
  <2>2. CASE cancelPending
    BY <1>7, <1>8, <2>1, <2>2 DEF CheckCancel
  <2>3. CASE ~cancelPending
    BY <1>1, <1>8, <2>3 DEF CheckCancel
  <2> QED BY <2>2, <2>3
<1>9. ASSUME NEW w \in Workers, Resolve(w) PROVE PlaceInv'
  <2>1. current[w] # NoTask
    BY <1>9, <1>a DEF Resolve
  <2>2. CASE future[current[w]] = "cancelled"
    <3>1. future' = [future EXCEPT ![current[w]] = "cancelled"]
      BY <1>9, <1>a, <2>1, <2>2 DEF Resolve
    <3> QED BY <1>7, <1>9, <2>1, <3>1 DEF Resolve
  <2>3. CASE future[current[w]] # "cancelled"
    <3>1. PICK r \in {"done", "failed"} : future' = [future EXCEPT ![current[w]] = r]
      BY <1>9, <2>3 DEF Resolve
    <3> QED BY <1>7, <1>9, <2>1, <3>1 DEF Resolve
  <2> QED BY <2>2, <2>3
<1>10. ASSUME NEW s \in Closers, ShutdownBegin(s) PROVE PlaceInv'
  BY <1>1, <1>10 DEF ShutdownBegin
<1>11. ASSUME NEW s \in Closers, CloserGoesOn(s) PROVE PlaceInv'
  BY <1>1, <1>11 DEF CloserGoesOn, SetCancel, DropSender, JoinWorkers, JoinSelf
<1>12. CASE DropPool \/ StopWorld \/ DropEnd
  BY <1>1, <1>12 DEF DropPool, StopWorld, DropEnd
<1>13. CASE UNCHANGED vars
  BY <1>1, <1>13 DEF vars
<1> QED
  BY <1>2, <1>3, <1>4, <1>5, <1>6, <1>8, <1>9, <1>10, <1>11, <1>12, <1>13 DEF Next, WorkerStep

-----------------------------------------------------------------------------
(* The theorems. *)

\* A set of which no two elements differ is empty or a singleton.
LEMMA AtMostOne ==
  ASSUME NEW S, \A x, y \in S : x = y
  PROVE  Cardinality(S) = IF S = {} THEN 0 ELSE 1
<1>1. CASE S = {}
  BY <1>1, FS_EmptySet
<1>2. CASE S # {}
  <2>1. PICK x \in S : S = {x}
    BY <1>2
  <2> QED BY <2>1, FS_Singleton
<1> QED BY <1>1, <1>2

\* Counting the places of a task (pool.rs:64-103, 147-157).
LEMMA Places == TypeOK /\ PlaceInv => EachTaskIsSomewhere
<1> SUFFICES ASSUME TypeOK, PlaceInv, NEW t \in Tasks
             PROVE  /\ Occurrences(t) <= 1
                    /\ future[t] = "pending" => Occurrences(t) = 1
                    /\ future[t] \in {"none", "done", "failed"} => Occurrences(t) = 0
  BY DEF EachTaskIsSomewhere
<1> DEFINE Q == {i \in DOMAIN queue : queue[i] = t}
           W == {w \in Workers : current[w] = t}
<1>1. DOMAIN queue = Indices /\ t # NoTask
  BY PoolAssumption DEF TypeOK, Indices
<1>2. /\ \A i, j \in Q : i = j
      /\ \A v, w \in W : v = w
      /\ Q = {} \/ W = {}
  BY <1>1 DEF PlaceInv, QueuedOnce, TakenOnce
<1>3. /\ Q # {} \/ W # {} => future[t] \in Live
      /\ future[t] = "pending" => Q # {} \/ W # {}
  BY <1>1 DEF PlaceInv, LiveTasks, NoneLost
<1> HIDE DEF Q, W
<1>4. /\ Cardinality(Q) = IF Q = {} THEN 0 ELSE 1
      /\ Cardinality(W) = IF W = {} THEN 0 ELSE 1
  BY <1>2, AtMostOne
<1>5. Occurrences(t) = Cardinality(Q) + Cardinality(W)
  BY DEF Occurrences, Q, W
<1> QED BY <1>2, <1>3, <1>4, <1>5 DEF Live

\* What is known of the end and of the places says that a wait for the workers
\* is a wait for the tasks (pool.rs:177-187, 208-214).
LEMMA EndOfTasks == TypeOK /\ EndInv /\ PlaceInv => ShutdownFinishesTasks
<1> SUFFICES ASSUME TypeOK, EndInv, PlaceInv,
                    (\E s \in Waits : closer[s] = "returned") \/ (object = "gone" /\ handles)
             PROVE  AllDead /\ \A t \in Tasks : future[t] # "pending"
  BY DEF ShutdownFinishesTasks
<1>1. AllDead
  BY DEF EndInv, JoinsAreTrue
<1>2. queue = <<>> /\ \A w \in Workers : current[w] = NoTask
  BY <1>1, PoolAssumption DEF AllDead, TypeOK, EndInv, EndsAreFinal
<1>3. Indices = {}
  BY <1>2 DEF Indices
<1> QED BY <1>1, <1>2, <1>3, PoolAssumption DEF PlaceInv, NoneLost

\* All invariants together.
LEMMA Invariance == Spec => [](TypeOK /\ EndInv /\ PlaceInv)
BY InitTyping, StepTyping, InitEnd, StepEnd, InitPlace, StepPlace, PTL DEF Spec

\* No task is lost and none is run twice, however many threads submit, cancel
\* and shut down (pool.rs:64-103, 147-157).
THEOREM TasksAreSomewhere == Spec => []EachTaskIsSomewhere
BY Invariance, Places, PTL

\* A shutdown() or a drop that waits leaves no living worker and no pending
\* Future behind (pool.rs:180, 211).
THEOREM ShutdownFinishes == Spec => []ShutdownFinishesTasks
BY Invariance, EndOfTasks, PTL
=============================================================================
