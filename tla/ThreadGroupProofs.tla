-------------------------- MODULE ThreadGroupProofs --------------------------
(***************************************************************************)
(* Proofs that ThreadGroup's __exit__ joins every task, and raises what    *)
(* the tasks have raised, for any number of tasks.                         *)
(*                                                                         *)
(* A task that is alive and on no list has been started by a thread that   *)
(* has not put it there yet.  That thread is alive too; if it is not Body, *)
(* it is a task nearer to Body.  When every task on the list is dead,      *)
(* going from task to spawner ends at Body, which does not spawn in        *)
(* __exit__: so no task is alive.  depth makes the descent well-founded.   *)
(* Nobody alive means nobody about to report an exception, so __exit__     *)
(* finds all the exceptions on the list, each once.                        *)
(***************************************************************************)
EXTENDS ThreadGroup, FiniteSetTheorems, FunctionTheorems, SequenceTheorems,
        WellFoundedInduction, TLAPS

\* A thread in the middle of spawn() is running, and its task is farther from
\* Body than itself (group.py:45-48).
SpawnersRun ==
  \A p \in Spawners : spawning[p] # NoTask =>
    /\ Running(p)
    /\ place[spawning[p]] # "unborn"
    /\ depth[p] < depth[spawning[p]]

\* A task that has been started is on the list or on its way there.
Registered ==
  \A t \in Tasks : place[t] # "unborn" =>
    t \in threads \/ \E p \in Spawners : spawning[p] = t

\* What has been joined has ended (group.py:61-64).
JoinedAreDead == \A t \in joined : place[t] = "dead"

IInv == TypeOK /\ SpawnersRun /\ Registered /\ JoinedAreDead /\ ExitJoinsAll

USE DEF Running, Spawners, Outcomes

\* The variables keep their types in every behaviour of the group (__init__,
\* group.py:21-24).
THEOREM TypeCorrect == Spec => []TypeOK
<1>1. Init => TypeOK
  <2> SUFFICES ASSUME Init PROVE TypeOK
    OBVIOUS
  <2>1. place \in [Tasks -> {"unborn", "running", "raising", "dead"}]
    BY DEF Init
  <2>2. spawning \in [Spawners -> Tasks \cup {NoTask}] /\ depth \in [Spawners -> Nat]
    BY DEF Init
  <2>3. errors \in Seq(Tasks) /\ propagated \in Seq(Spawners)
    BY DEF Init
  <2> QED BY <2>1, <2>2, <2>3 DEF Init, TypeOK
<1>2. TypeOK /\ [Next]_vars => TypeOK'
  <2> SUFFICES ASSUME TypeOK, [Next]_vars PROVE TypeOK'
    OBVIOUS
  <2>1. ASSUME NEW p \in Spawners, NEW t \in Tasks, StartThread(p, t) PROVE TypeOK'
    BY <2>1 DEF StartThread, TypeOK
  <2>2. ASSUME NEW p \in Spawners, AppendThread(p) PROVE TypeOK'
    BY <2>2 DEF AppendThread, TypeOK
  <2>3. ASSUME NEW t \in Tasks, TaskStep(t) PROVE TypeOK'
    <3>1. CASE AppendThread(t) BY <2>2, <3>1
    <3>2. CASE Finish(t) BY <3>2 DEF Finish, TypeOK
    <3>3. CASE Raise(t) BY <3>3 DEF Raise, TypeOK
    <3>4. CASE ReportError(t)
      <4>1. errors' \in Seq(Tasks)
        BY <3>4, AppendProperties DEF ReportError, TypeOK
      <4> QED BY <3>4, <4>1 DEF ReportError, TypeOK
    <3> QED BY <2>3, <3>1, <3>2, <3>3, <3>4 DEF TaskStep
  <2>4. CASE AppendThread(Body) BY <2>2, <2>4
  <2>5. CASE Enter BY <2>5 DEF Enter, TypeOK
  <2>6. CASE ExitBlock BY <2>6 DEF ExitBlock, TypeOK
  <2>7. CASE Scan BY <2>7 DEF Scan, TypeOK
  <2>8. CASE JoinOne BY <2>8 DEF JoinOne, TypeOK
  <2>9. CASE Propagate
    <3>1. errors \in Seq(Spawners) /\ <<Body>> \in Seq(Spawners) /\ <<>> \in Seq(Spawners)
      BY DEF TypeOK
    <3>2. propagated' \in Seq(Spawners)
      BY <2>9, <3>1 DEF Propagate
    <3>3. outcome' \in Outcomes
      BY <2>9 DEF Propagate
    <3> QED BY <2>9, <3>2, <3>3 DEF Propagate, TypeOK
  <2>10. CASE UNCHANGED vars BY <2>10 DEF vars, TypeOK
  <2> QED
    BY <2>1, <2>3, <2>4, <2>5, <2>6, <2>7, <2>8, <2>9, <2>10 DEF Next, ExitStep
<1> QED BY <1>1, <1>2, PTL DEF Spec

\* The descent: when all threads on the list are dead and Body is not in its
\* block, nothing is alive (group.py:57-60).
LEMMA NobodyIsAlive ==
  ASSUME TypeOK, SpawnersRun, Registered, body # "block",
         \A t \in threads : place[t] = "dead"
  PROVE  Alive = {}
<1> SUFFICES ASSUME Alive # {} PROVE FALSE
  OBVIOUS
<1> DEFINE Depths == {depth[t] : t \in Alive}
<1>1. Depths \subseteq Nat /\ Depths # {}
  BY DEF TypeOK, Alive
<1>2. PICK d \in Depths : \A e \in Depths : ~(<<e, d>> \in OpToRel(<, Nat))
  BY <1>1, WFMin, NatLessThanWellFounded, Zenon
<1>3. PICK t \in Alive : depth[t] = d
  OBVIOUS
<1>4. PICK p \in Spawners : spawning[p] = t
  BY DEF Alive, Registered
<1>5. Running(p) /\ depth[p] < d
  BY <1>3, <1>4, GroupAssumption DEF Alive, SpawnersRun
<1>6. p \in Alive
  BY <1>5, GroupAssumption DEF Alive
<1>7. depth[p] \in Depths /\ <<depth[p], d>> \in OpToRel(<, Nat)
  BY <1>1, <1>5, <1>6 DEF OpToRel
<1> QED BY <1>2, <1>7

\* The facts above hold together in every behaviour of the group (group.py:21-74).
THEOREM Invariance == Spec => []IInv
<1>1. Init /\ TypeOK => IInv
  BY DEF Init, IInv, SpawnersRun, Registered, JoinedAreDead, ExitJoinsAll, Alive
<1>2. IInv /\ TypeOK' /\ [Next]_vars => IInv'
  <2> SUFFICES ASSUME IInv, TypeOK', [Next]_vars PROVE IInv'
    OBVIOUS
  <2> USE GroupAssumption DEF IInv
  <2>1. ASSUME NEW p \in Spawners, NEW t \in Tasks, StartThread(p, t) PROVE IInv'
    <3> USE <2>1 DEF StartThread
    <3>1. p \in Alive \/ p = Body
      BY DEF Alive
    <3>2. body \notin {"propagate", "outside"}
      BY <3>1 DEF ExitJoinsAll
    <3>3. \A s \in Spawners : spawning[s] # t
      BY DEF SpawnersRun, TypeOK
    <3>4. SpawnersRun'
      <4> SUFFICES ASSUME NEW s \in Spawners, spawning'[s] # NoTask
                   PROVE  Running(s)' /\ place'[spawning'[s]] # "unborn"
                          /\ depth'[s] < depth'[spawning'[s]]
        BY DEF SpawnersRun
      <4>1. s # t
        BY DEF SpawnersRun, TypeOK
      <4>2. t \in Spawners /\ depth'[s] = depth[s] /\ depth[s] \in Nat
        BY <4>1 DEF TypeOK
      <4>3. CASE s = p
        BY <4>1, <4>2, <4>3 DEF TypeOK
      <4>4. CASE s # p
        <5>1. spawning'[s] = spawning[s] /\ spawning[s] # t /\ spawning[s] \in Tasks
          BY <3>3, <4>4 DEF TypeOK
        <5>2. Running(s)'
          BY <5>1, <4>1 DEF SpawnersRun, TypeOK
        <5> QED BY <5>1, <5>2, <4>2 DEF SpawnersRun, TypeOK
      <4> QED BY <4>3, <4>4
    <3>5. Registered'
      BY DEF Registered, TypeOK
    <3>6. JoinedAreDead'
      BY DEF JoinedAreDead, TypeOK
    <3>7. ExitJoinsAll'
      BY <3>2 DEF ExitJoinsAll
    <3> QED BY <3>4, <3>5, <3>6, <3>7
  <2>2. ASSUME NEW p \in Spawners, AppendThread(p) PROVE IInv'
    <3> USE <2>2 DEF AppendThread
    <3>1. SpawnersRun'
      BY DEF SpawnersRun, TypeOK
    <3>2. Registered'
      BY DEF Registered, TypeOK
    <3>3. JoinedAreDead' /\ ExitJoinsAll'
      BY DEF JoinedAreDead, ExitJoinsAll, Alive
    <3> QED BY <3>1, <3>2, <3>3
  <2>3. ASSUME NEW t \in Tasks, Finish(t) \/ Raise(t) \/ ReportError(t) PROVE IInv'
    <3>1. /\ place[t] \in {"running", "raising"} /\ spawning[t] = NoTask
          /\ \E v \in {"raising", "dead"} : place' = [place EXCEPT ![t] = v]
          /\ UNCHANGED <<threads, spawning, body, joined, depth>>
      BY <2>3 DEF Finish, Raise, ReportError, SpawnersRun, TypeOK
    <3>2. SpawnersRun' /\ Registered'
      BY <3>1 DEF SpawnersRun, Registered, TypeOK
    <3>3. JoinedAreDead' /\ ExitJoinsAll'
      BY <3>1 DEF JoinedAreDead, ExitJoinsAll, Alive, TypeOK
    <3> QED BY <3>2, <3>3
  <2>4. CASE Enter
    BY <2>4 DEF Enter, SpawnersRun, Registered, JoinedAreDead, ExitJoinsAll, Alive
  <2>5. CASE ExitBlock
    BY <2>5 DEF ExitBlock, SpawnersRun, Registered, JoinedAreDead, ExitJoinsAll, Alive
  <2>6. CASE Scan
    <3>1. SpawnersRun' /\ Registered' /\ JoinedAreDead'
      BY <2>6 DEF Scan, SpawnersRun, Registered, JoinedAreDead
    <3>2. ASSUME body' = "propagate" PROVE Alive = {}
      <4>1. body # "block" /\ \A t \in threads : place[t] = "dead"
        BY <2>6, <3>2 DEF Scan, JoinedAreDead
      <4> QED BY <4>1, NobodyIsAlive
    <3>3. ExitJoinsAll'
      BY <2>6, <3>2 DEF Scan, ExitJoinsAll, Alive
    <3> QED BY <3>1, <3>3
  <2>7. CASE JoinOne
    BY <2>7 DEF JoinOne, SpawnersRun, Registered, JoinedAreDead, ExitJoinsAll, Alive
  <2>8. CASE Propagate
    BY <2>8 DEF Propagate, SpawnersRun, Registered, JoinedAreDead, ExitJoinsAll, Alive
  <2>9. CASE UNCHANGED vars
    BY <2>9 DEF vars, SpawnersRun, Registered, JoinedAreDead, ExitJoinsAll, Alive
  <2>10. Body \in Spawners /\ Tasks \subseteq Spawners
    OBVIOUS
  <2> QED
    BY <2>1, <2>2, <2>3, <2>4, <2>5, <2>6, <2>7, <2>8, <2>9, <2>10
    DEF Next, TaskStep, ExitStep
<1> QED BY <1>1, <1>2, TypeCorrect, PTL DEF Spec

\* "Upon context exit, it blocks and joins all spawned child threads, including
\* any threads dynamically spawned by child tasks" (group.py:8-9).
THEOREM AllJoined == Spec => []ExitJoinsAll
<1>1. IInv => ExitJoinsAll
  BY DEF IInv
<1> QED BY <1>1, Invariance, PTL

-----------------------------------------------------------------------------
(* Exceptions. *)

Reporting == {t \in Tasks : place[t] = "raising"}

\* Whoever has raised has its exception on the list, or is about to put it
\* there, and no exception is on the list twice (group.py:38-43).
Ledger ==
  /\ IsInjective(errors)
  /\ raised = ToSet(errors) \cup Reporting
  /\ \A t \in ToSet(errors) : place[t] = "dead"

\* One more element, which is not there yet, leaves a list without repetitions.
LEMMA AppendNew ==
  ASSUME NEW T, NEW s \in Seq(T), NEW t \in T, IsInjective(s), t \notin ToSet(s)
  PROVE  IsInjective(Append(s, t)) /\ ToSet(Append(s, t)) = ToSet(s) \cup {t}
<1>1. /\ Len(s) \in Nat /\ DOMAIN s = 1..Len(s)
      /\ DOMAIN Append(s, t) = 1..(Len(s) + 1)
      /\ \A i \in 1..Len(s) : Append(s, t)[i] = s[i]
      /\ Append(s, t)[Len(s) + 1] = t
  BY AppendProperties
<1>2. IsInjective(Append(s, t))
  BY <1>1 DEF IsInjective, ToSet
<1>3. ToSet(Append(s, t)) = ToSet(s) \cup {t}
  BY <1>1 DEF ToSet
<1> QED BY <1>2, <1>3

\* A list without repetitions is as long as the set of its elements is large.
LEMMA LengthCounts ==
  ASSUME NEW T, NEW s \in Seq(T), IsInjective(s)
  PROVE  Cardinality(ToSet(s)) = Len(s)
<1>1. Len(s) \in Nat /\ DOMAIN s = 1..Len(s)
  OBVIOUS
<1>2. s \in [1..Len(s) -> ToSet(s)] /\ \A x \in ToSet(s) : \E i \in 1..Len(s) : s[i] = x
  BY <1>1 DEF ToSet
<1>3. s \in Bijection(1..Len(s), ToSet(s))
  BY <1>2 DEF Bijection, Injection, Surjection
<1> QED BY <1>1, <1>3, FS_CountingElements DEF ExistsBijection

\* The list of exceptions misses only those that are about to be put there, and
\* has none twice (group.py:38-43).
LEMMA LedgerIsKept == TypeOK /\ Ledger /\ [Next]_vars => Ledger'
<1> SUFFICES ASSUME TypeOK, Ledger, [Next]_vars PROVE Ledger'
  OBVIOUS
<1>1. CASE UNCHANGED <<errors, raised, place>>
  BY <1>1 DEF Ledger, Reporting
<1>2. ASSUME NEW t \in Tasks, NEW v \in {"running", "dead"}, place[t] \in {"unborn", "running"},
             place' = [place EXCEPT ![t] = v], UNCHANGED <<errors, raised>>
      PROVE  Ledger'
  <2>1. Reporting' = Reporting
    BY <1>2 DEF Reporting, TypeOK
  <2>2. \A u \in ToSet(errors) : place'[u] = "dead"
    BY <1>2 DEF Ledger, TypeOK
  <2> QED BY <1>2, <2>1, <2>2 DEF Ledger
<1>3. ASSUME NEW t \in Tasks, Raise(t) PROVE Ledger'
  <2>1. Reporting' = Reporting \cup {t} /\ errors' = errors /\ raised' = raised \cup {t}
    BY <1>3 DEF Raise, Reporting, TypeOK
  <2>2. t \notin ToSet(errors)
    BY <1>3 DEF Raise, Ledger
  <2>3. \A u \in ToSet(errors) : place'[u] = "dead"
    BY <1>3, <2>2 DEF Raise, Ledger, TypeOK
  <2> QED BY <2>1, <2>3 DEF Ledger
<1>4. ASSUME NEW t \in Tasks, ReportError(t) PROVE Ledger'
  <2>1. /\ Reporting' = Reporting \ {t} /\ t \in Reporting
        /\ errors' = Append(errors, t) /\ raised' = raised
    BY <1>4 DEF ReportError, Reporting, TypeOK
  <2>2. t \notin ToSet(errors)
    BY <2>1 DEF Ledger, Reporting
  <2>3. IsInjective(errors') /\ ToSet(errors') = ToSet(errors) \cup {t}
    BY <2>1, <2>2, AppendNew DEF Ledger, TypeOK
  <2>4. \A u \in ToSet(errors') : place'[u] = "dead"
    BY <1>4, <2>3 DEF ReportError, Ledger, TypeOK
  <2> QED BY <2>1, <2>3, <2>4 DEF Ledger
<1>5. ASSUME NEW p \in Spawners, NEW t \in Tasks, StartThread(p, t) PROVE Ledger'
  BY <1>2, <1>5 DEF StartThread
<1>6. ASSUME NEW p \in Spawners, AppendThread(p) PROVE Ledger'
  BY <1>1, <1>6 DEF AppendThread
<1>7. ASSUME NEW t \in Tasks, Finish(t) PROVE Ledger'
  BY <1>2, <1>7 DEF Finish
<1>8. CASE Enter \/ ExitBlock \/ ExitStep
  BY <1>1, <1>8 DEF Enter, ExitBlock, ExitStep, Scan, JoinOne, Propagate
<1>9. CASE UNCHANGED vars
  BY <1>1, <1>9 DEF vars
<1> QED BY <1>3, <1>4, <1>5, <1>6, <1>7, <1>8, <1>9 DEF Next, TaskStep

\* What __exit__ has told its caller is still true when it has returned.
LEMMA OutcomeIsKept ==
  IInv /\ Ledger /\ OutcomeIsTrue /\ [Next]_vars => OutcomeIsTrue'
<1> SUFFICES ASSUME IInv, Ledger, OutcomeIsTrue, [Next]_vars, body' = "outside"
             PROVE  OutcomeIsTrue'
  BY DEF OutcomeIsTrue
<1>1. CASE UNCHANGED <<body, crashed, outcome, propagated, raised>>
  BY <1>1 DEF OutcomeIsTrue, Refused
<1>2. CASE Propagate
  <2>1. body = "propagate" /\ raised' = raised /\ crashed' = crashed
    BY <1>2 DEF Propagate
  <2>2. ToSet(errors) = raised /\ IsInjective(errors)
    <3>1. Reporting = {}
      BY <2>1 DEF IInv, ExitJoinsAll, Alive, Reporting
    <3> QED BY <3>1 DEF Ledger
  <2>3. Cardinality(raised) = Len(errors) /\ Len(errors) \in Nat
    BY <2>2, LengthCounts DEF IInv, TypeOK
  <2>4. errors = <<>> <=> raised = {}
    <3>1. errors # <<>> => errors[1] \in ToSet(errors)
      BY EmptySeq, LenProperties DEF IInv, TypeOK, ToSet
    <3>2. errors = <<>> => ToSet(errors) = {}
      BY DEF ToSet
    <3> QED BY <2>2, <3>1, <3>2
  <2>5. IsInjective(<<>>) /\ ToSet(<<>>) = {} /\ IsInjective(<<Body>>) /\ ToSet(<<Body>>) = {Body}
    BY DEF IsInjective, ToSet
  <2>6. CASE crashed
    BY <1>2, <2>1, <2>5, <2>6 DEF Propagate, OutcomeIsTrue
  <2>7. CASE ~crashed /\ Refused
    <3>1. Len(errors) # 1 /\ raised # {} /\ ToSet(errors) \cap Bare # {}
      BY <2>2, <2>3, <2>7 DEF Refused
    <3>2. errors # <<>>
      BY <2>4, <3>1
    <3>3. outcome' = "type_error"
      BY <1>2, <2>7, <3>1, <3>2 DEF Propagate
    <3>4. propagated' = <<>>
      BY <1>2, <2>7, <3>3 DEF Propagate
    <3> QED BY <2>1, <2>5, <2>7, <3>1, <3>3, <3>4 DEF OutcomeIsTrue, Refused
  <2>8. CASE ~crashed /\ ~Refused
    <3>1. errors # <<>> => Len(errors) = 1 \/ ToSet(errors) \cap Bare = {}
      BY <2>2, <2>3, <2>8 DEF Refused, IInv, TypeOK
    <3>2. propagated' = errors /\ (outcome' = "quiet" <=> errors = <<>>)
      BY <1>2, <2>8, <3>1 DEF Propagate
    <3> QED BY <2>1, <2>2, <2>4, <2>8, <3>2 DEF OutcomeIsTrue, Refused
  <2> QED BY <2>6, <2>7, <2>8
<1>3. ASSUME NEW t \in Tasks, Raise(t) PROVE FALSE
  BY <1>3 DEF Raise, IInv, ExitJoinsAll, Alive
<1>4. ASSUME NEW p \in Spawners, NEW t \in Tasks, StartThread(p, t) PROVE OutcomeIsTrue'
  BY <1>1, <1>4 DEF StartThread
<1>5. ASSUME NEW p \in Spawners, AppendThread(p) PROVE OutcomeIsTrue'
  BY <1>1, <1>5 DEF AppendThread
<1>6. ASSUME NEW t \in Tasks, Finish(t) \/ ReportError(t) PROVE OutcomeIsTrue'
  BY <1>1, <1>6 DEF Finish, ReportError
<1>7. ~(Enter \/ ExitBlock \/ Scan \/ JoinOne)
  BY DEF Enter, ExitBlock, Scan, JoinOne
<1>8. CASE UNCHANGED vars
  BY <1>1, <1>8 DEF vars
<1> QED BY <1>2, <1>3, <1>4, <1>5, <1>6, <1>7, <1>8 DEF Next, TaskStep, ExitStep

\* After every __exit__ of a group of any number of tasks, however they were
\* spawned, the with statement has raised the exception of every task that has
\* raised, each once, unless the body has raised or ExceptionGroup has refused the
\* list, when it raises none of them (group.py:38-43, 66-74).
THEOREM NothingIsLost == Spec => []OutcomeIsTrue
<1>1. Init => Ledger /\ OutcomeIsTrue
  BY DEF Init, Ledger, OutcomeIsTrue, IsInjective, ToSet, Reporting
<1> QED BY <1>1, LedgerIsKept, OutcomeIsKept, TypeCorrect, Invariance, PTL DEF Spec
=============================================================================
