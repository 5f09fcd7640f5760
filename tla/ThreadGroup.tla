---------------------------- MODULE ThreadGroup ----------------------------
(***************************************************************************)
(* The ThreadGroup class of src/python/pysync/group.py: one group object   *)
(* that a thread uses in with blocks, one after the other, and the tasks   *)
(* spawned in it, by the body of the block and by the tasks themselves,    *)
(* also while __exit__ is waiting.                                         *)
(*                                                                         *)
(* spawn() starts the thread first and puts it on the list afterwards, so  *)
(* a task may run, spawn others and end while it is on no list.            *)
(*                                                                         *)
(* The list _threads is a set here: every task is on it at most once and   *)
(* the order is that of the joins only.                                    *)
(*                                                                         *)
(* An operator whose name ends in _faulty is a variant of the one that     *)
(* follows it with a plausible mistake; nothing refers to it.              *)
(***************************************************************************)
EXTENDS Naturals, Sequences, FiniteSets, SequencesExt

CONSTANTS
  Tasks,    \* what may be spawned
  Bare,     \* the tasks whose exception would not be an Exception
  Body,     \* the thread that runs the with blocks
  NoTask

ASSUME GroupAssumption ==
  /\ Bare \subseteq Tasks
  /\ Body \notin Tasks
  /\ NoTask \notin Tasks

VARIABLES
  threads,    \* _threads
  errors,     \* _errors: the exceptions, each named by its task
  place,      \* where the thread of each task is
  spawning,   \* the task a thread has started and not yet put on the list
  body,       \* where Body is
  crashed,    \* the body of the block has raised
  joined,     \* joined, of __exit__
  todo,       \* what is left of unjoined, of __exit__
  outcome,    \* how the last __exit__ has ended
  propagated, \* whose exceptions it has let out, Body's own one included
  raised,     \* history: the tasks that have raised
  depth       \* history: how far below Body a task was spawned

vars == <<threads, errors, place, spawning, body, crashed, joined, todo, outcome,
          propagated, raised, depth>>

Spawners == Tasks \cup {Body}
Outcomes == {"none", "quiet", "body_error", "error", "group", "type_error"}

Init ==
  /\ threads = {} /\ errors = <<>>
  /\ place = [t \in Tasks |-> "unborn"]
  /\ spawning = [p \in Spawners |-> NoTask]
  /\ body = "outside" /\ crashed = FALSE
  /\ joined = {} /\ todo = {}
  /\ outcome = "none" /\ propagated = <<>>
  /\ raised = {}
  /\ depth = [p \in Spawners |-> 0]

Running(p) == IF p = Body THEN body = "block" ELSE place[p] = "running"

\* spawn(): the thread is started,
StartThread(p, t) ==
  /\ Running(p) /\ spawning[p] = NoTask
  /\ place[t] = "unborn"
  /\ place' = [place EXCEPT ![t] = "running"]
  /\ spawning' = [spawning EXCEPT ![p] = t]
  /\ depth' = [depth EXCEPT ![t] = depth[p] + 1]
  /\ UNCHANGED <<threads, errors, body, crashed, joined, todo, outcome,
                 propagated, raised>>

\* and then put on the list.
AppendThread(p) ==
  /\ spawning[p] # NoTask
  /\ threads' = threads \cup {spawning[p]}
  /\ spawning' = [spawning EXCEPT ![p] = NoTask]
  /\ UNCHANGED <<errors, place, body, crashed, joined, todo, outcome, propagated,
                 raised, depth>>

Finish(t) ==
  /\ place[t] = "running" /\ spawning[t] = NoTask
  /\ place' = [place EXCEPT ![t] = "dead"]
  /\ UNCHANGED <<threads, errors, spawning, body, crashed, joined, todo, outcome,
                 propagated, raised, depth>>

Raise(t) ==
  /\ place[t] = "running" /\ spawning[t] = NoTask
  /\ place' = [place EXCEPT ![t] = "raising"]
  /\ raised' = raised \cup {t}
  /\ UNCHANGED <<threads, errors, spawning, body, crashed, joined, todo, outcome,
                 propagated, depth>>

\* Only an Exception is caught.
ReportError_faulty(t) ==
  /\ place[t] = "raising"
  /\ errors' = IF t \in Bare THEN errors ELSE Append(errors, t)
  /\ place' = [place EXCEPT ![t] = "dead"]
  /\ UNCHANGED <<threads, spawning, body, crashed, joined, todo, outcome,
                 propagated, raised, depth>>

ReportError(t) ==
  /\ place[t] = "raising"
  /\ errors' = Append(errors, t)
  /\ place' = [place EXCEPT ![t] = "dead"]
  /\ UNCHANGED <<threads, spawning, body, crashed, joined, todo, outcome,
                 propagated, raised, depth>>

-----------------------------------------------------------------------------
\* Nothing is reset: a group that is entered again keeps its lists.
Enter ==
  /\ body = "outside"
  /\ body' = "block"
  /\ outcome' = "none"
  /\ propagated' = <<>>
  /\ UNCHANGED <<threads, errors, place, spawning, crashed, joined, todo, raised, depth>>

\* The block ends, with or without an exception, and __exit__ begins.
ExitBlock ==
  /\ body = "block" /\ spawning[Body] = NoTask
  /\ body' = "scan"
  /\ crashed' \in BOOLEAN
  /\ joined' = {}
  /\ UNCHANGED <<threads, errors, place, spawning, todo, outcome, propagated, raised,
                 depth>>

\* __exit__ never finds out that there is nothing left.
Scan_faulty ==
  /\ body = "scan"
  /\ todo' = threads \ joined
  /\ body' = "join"
  /\ UNCHANGED <<threads, errors, place, spawning, crashed, joined, outcome,
                 propagated, raised, depth>>

\* Which threads are not joined is looked up under the lock.
Scan ==
  /\ body = "scan"
  /\ todo' = threads \ joined
  /\ body' = IF todo' = {} THEN "propagate" ELSE "join"
  /\ UNCHANGED <<threads, errors, place, spawning, crashed, joined, outcome,
                 propagated, raised, depth>>

\* The list is not looked at again.
JoinOne_faulty ==
  /\ body = "join"
  /\ \E t \in todo :
       /\ place[t] = "dead"
       /\ joined' = joined \cup {t}
       /\ todo' = todo \ {t}
  /\ body' = IF todo' = {} THEN "propagate" ELSE "join"
  /\ UNCHANGED <<threads, errors, place, spawning, crashed, outcome, propagated,
                 raised, depth>>

JoinOne ==
  /\ body = "join"
  /\ \E t \in todo :
       /\ place[t] = "dead"
       /\ joined' = joined \cup {t}
       /\ todo' = todo \ {t}
  /\ body' = IF todo' = {} THEN "scan" ELSE "join"
  /\ UNCHANGED <<threads, errors, place, spawning, crashed, outcome, propagated,
                 raised, depth>>

\* The exception of the body goes first, a single one is raised as it is, and an
\* ExceptionGroup refuses a list with one that is not an Exception: the TypeError
\* it raises names none of them.
Propagate ==
  /\ body = "propagate"
  /\ body' = "outside"
  /\ outcome' = IF crashed THEN "body_error"
                ELSE IF errors = <<>> THEN "quiet"
                ELSE IF Len(errors) = 1 THEN "error"
                ELSE IF ToSet(errors) \cap Bare = {} THEN "group" ELSE "type_error"
  /\ propagated' = IF crashed THEN <<Body>>
                   ELSE IF outcome' = "type_error" THEN <<>> ELSE errors
  /\ UNCHANGED <<threads, errors, place, spawning, crashed, joined, todo, raised, depth>>

-----------------------------------------------------------------------------
TaskStep(t) == AppendThread(t) \/ Finish(t) \/ Raise(t) \/ ReportError(t)

ExitStep == Scan \/ JoinOne \/ Propagate

Next ==
  \/ \E p \in Spawners, t \in Tasks : StartThread(p, t)
  \/ \E t \in Tasks : TaskStep(t)
  \/ AppendThread(Body) \/ Enter \/ ExitBlock \/ ExitStep

Spec == Init /\ [][Next]_vars

\* Tasks terminate, and __exit__ goes on when it can.
Fairness == WF_vars(ExitStep) /\ \A t \in Tasks : WF_vars(TaskStep(t))

LiveSpec == Spec /\ Fairness

-----------------------------------------------------------------------------
(* Properties. *)

\* The variables have their types, and __exit__ waits for something when it
\* waits (group.py:58-64).
TypeOK ==
  /\ threads \subseteq Tasks /\ errors \in Seq(Tasks)
  /\ place \in [Tasks -> {"unborn", "running", "raising", "dead"}]
  /\ spawning \in [Spawners -> Tasks \cup {NoTask}]
  /\ body \in {"outside", "block", "scan", "join", "propagate"}
  /\ crashed \in BOOLEAN
  /\ joined \subseteq Tasks /\ todo \subseteq Tasks
  /\ body = "join" => todo # {}
  /\ outcome \in Outcomes /\ propagated \in Seq(Spawners)
  /\ raised \subseteq Tasks
  /\ depth \in [Spawners -> Nat]

Alive == {t \in Tasks : place[t] \notin {"unborn", "dead"}}

\* "Upon context exit, it blocks and joins all spawned child threads, including
\* any threads dynamically spawned by child tasks" (group.py:8-9): when the
\* joins are over no task is alive, whoever spawned it, although a thread is put
\* on the list only after it has been started (group.py:45-48, 55-64).
ExitJoinsAll ==
  body \in {"propagate", "outside"} => Alive = {}

\* Two tasks or more have raised, and one of the exceptions is not an Exception.
Refused == Cardinality(raised) > 1 /\ raised \cap Bare # {}

\* What the with statement raises: the exception of the body and nothing else, if
\* the body has raised; otherwise, whoever spawned the tasks and whenever they
\* raised, the exception of every task that has raised since the group was made,
\* each once; but none of them when ExceptionGroup refuses the list, against
\* group.py:9-10. It is quiet only if there was no exception at all
\* (group.py:38-43, 66-74).
OutcomeIsTrue ==
  body = "outside" /\ outcome # "none" =>
    /\ IsInjective(propagated)
    /\ ToSet(propagated) = IF crashed THEN {Body} ELSE IF Refused THEN {} ELSE raised
    /\ outcome = "quiet" <=> ~crashed /\ raised = {}

\* If tasks terminate, __exit__ returns, also when tasks go on spawning
\* (group.py:54-64).
ExitReturns ==
  body \in {"scan", "join", "propagate"} ~> body = "outside"
=============================================================================
