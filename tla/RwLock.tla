------------------------------- MODULE RwLock -------------------------------
(***************************************************************************)
(* The RwLock class of src/src/lock.rs: threads that enter and leave read  *)
(* and write guards of several locks.                                      *)
(*                                                                         *)
(* A guard is an object of one thread (it is "unsendable") and one lock.   *)
(* READ_DEPTH counts the read guards a thread is inside of, of all locks   *)
(* together, and decides whether its next read guard is entered            *)
(* recursively.                                                            *)
(*                                                                         *)
(* parking_lot is external.  A writer first takes the writer bit and then  *)
(* waits for the readers to leave.  While the bit is taken a reader waits, *)
(* except that a recursive one gets in as long as there are other readers. *)
(*                                                                         *)
(* An operator whose name ends in _faulty is a variant of the one that     *)
(* follows it with a plausible mistake; nothing refers to it.              *)
(***************************************************************************)
EXTENDS Naturals, FiniteSets

CONSTANTS
  Threads,
  Locks,
  ReadGuards,
  WriteGuards,
  ThreadOf,      \* the thread of each guard
  LockOf,        \* the lock of each guard
  Abandoned,     \* the guards that the program may drop without leaving them
  Disciplined    \* a thread enters a write guard inside of no other guard,
                 \* and no guard inside of a write guard

Guards == ReadGuards \cup WriteGuards

ASSUME LockAssumption ==
  /\ ReadGuards \cap WriteGuards = {}
  /\ IsFiniteSet(ReadGuards)
  /\ ThreadOf \in [Guards -> Threads]
  /\ LockOf \in [Guards -> Locks]
  /\ Abandoned \subseteq Guards
  /\ Disciplined \in BOOLEAN

VARIABLES
  place,   \* out; waiting for the lock; draining, with the writer bit taken; in; gone
  depth    \* READ_DEPTH of each thread

vars == <<place, depth>>

Init ==
  /\ place = [g \in Guards |-> "out"]
  /\ depth = [t \in Threads |-> 0]

-----------------------------------------------------------------------------
In(g) == place[g] = "in"

GuardsOf(t) == {g \in Guards : ThreadOf[g] = t}

\* The thread is inside of __enter__().
Busy(t) == \E g \in GuardsOf(t) : place[g] \in {"waiting", "draining"}

Readers(l) == {g \in ReadGuards : LockOf[g] = l /\ In(g)}

BitTaken(l) == \E g \in WriteGuards : LockOf[g] = l /\ place[g] \in {"draining", "in"}

\* read_arc_recursive() does not ask for other readers.
MayRead_faulty(g) ==
  ~BitTaken(LockOf[g]) \/ depth[ThreadOf[g]] > 0

\* READ_DEPTH is kept per lock.
MayRead_per_lock_faulty(g) ==
  \/ ~BitTaken(LockOf[g])
  \/ \E h \in Readers(LockOf[g]) : ThreadOf[h] = ThreadOf[g]

\* What read_arc() and read_arc_recursive() wait for.
MayRead(g) ==
  \/ ~BitTaken(LockOf[g])
  \/ depth[ThreadOf[g]] > 0 /\ Readers(LockOf[g]) # {}

-----------------------------------------------------------------------------
(* Read guards. *)

Allowed(g) ==
  LET t == ThreadOf[g] IN
  /\ place[g] = "out" /\ ~Busy(t)
  /\ Disciplined => \A h \in GuardsOf(t) : In(h) => {g, h} \subseteq ReadGuards

\* The guard is in: READ_DEPTH goes up.
GetRead(g) ==
  /\ place' = [place EXCEPT ![g] = "in"]
  /\ depth' = [depth EXCEPT ![ThreadOf[g]] = @ + 1]

EnterRead(g) ==
  /\ Allowed(g)
  /\ IF MayRead(g) THEN GetRead(g)
     ELSE /\ place' = [place EXCEPT ![g] = "waiting"]
          /\ UNCHANGED depth

WaitRead(g) ==
  /\ place[g] = "waiting" /\ MayRead(g)
  /\ GetRead(g)

\* Leaving a guard that is not entered counts too.
ExitRead_unentered_faulty(g) ==
  /\ place[g] \in {"out", "in"} /\ ~Busy(ThreadOf[g])
  /\ place' = [place EXCEPT ![g] = "out"]
  /\ depth' = [depth EXCEPT ![ThreadOf[g]] = @ - 1]

\* READ_DEPTH is set to zero: right for one guard, wrong for two.
ExitRead_faulty(g) ==
  /\ In(g) /\ ~Busy(ThreadOf[g])
  /\ place' = [place EXCEPT ![g] = "out"]
  /\ depth' = [depth EXCEPT ![ThreadOf[g]] = 0]

ExitRead(g) ==
  /\ In(g) /\ ~Busy(ThreadOf[g])
  /\ place' = [place EXCEPT ![g] = "out"]
  /\ depth' = [depth EXCEPT ![ThreadOf[g]] = IF @ > 0 THEN @ - 1 ELSE @]

-----------------------------------------------------------------------------
(* Write guards. *)

EnterWrite(g) ==
  /\ Allowed(g)
  /\ place' = [place EXCEPT ![g] =
       IF BitTaken(LockOf[g]) \/ Readers(LockOf[g]) # {} THEN "waiting" ELSE "in"]
  /\ UNCHANGED depth

TakeBit(g) ==
  /\ place[g] = "waiting" /\ ~BitTaken(LockOf[g])
  /\ place' = [place EXCEPT ![g] = "draining"]
  /\ UNCHANGED depth

GetWrite(g) ==
  /\ place[g] = "draining" /\ Readers(LockOf[g]) = {}
  /\ place' = [place EXCEPT ![g] = "in"]
  /\ UNCHANGED depth

ExitWrite(g) ==
  /\ In(g) /\ ~Busy(ThreadOf[g])
  /\ place' = [place EXCEPT ![g] = "out"]
  /\ UNCHANGED depth

\* A guard object that is dropped without __exit__() releases its lock, and
\* READ_DEPTH stays as it is.
DropGuard(g) ==
  /\ g \in Abandoned /\ In(g) /\ ~Busy(ThreadOf[g])
  /\ place' = [place EXCEPT ![g] = "gone"]
  /\ UNCHANGED depth

-----------------------------------------------------------------------------
ReadStep(g) == EnterRead(g) \/ WaitRead(g) \/ ExitRead(g) \/ DropGuard(g)

WriteStep(g) ==
  EnterWrite(g) \/ TakeBit(g) \/ GetWrite(g) \/ ExitWrite(g) \/ DropGuard(g)

Next ==
  \/ \E g \in ReadGuards : ReadStep(g)
  \/ \E g \in WriteGuards : WriteStep(g)

Spec == Init /\ [][Next]_vars

Exit(g) == (g \in ReadGuards /\ ExitRead(g)) \/ (g \in WriteGuards /\ ExitWrite(g))

\* The thread is inside of k guards, and leaves one of them.
Leave(t, k) ==
  /\ Cardinality({g \in GuardsOf(t) : In(g)}) = k
  /\ \E g \in GuardsOf(t) : Exit(g)

\* The program's blocks end, at every depth of nesting.  parking_lot wakes a
\* waiter, and hands the lock over fairly from time to time, so a waiter that
\* could go on again and again does.
Fairness ==
  /\ \A t \in Threads :
       /\ WF_vars(\E g \in GuardsOf(t) : Exit(g))
       /\ \A k \in 1..(Cardinality(GuardsOf(t)) - 1) : SF_vars(Leave(t, k))
  /\ \A t \in {ThreadOf[g] : g \in ReadGuards} :
       SF_vars(\E g \in GuardsOf(t) \cap ReadGuards : WaitRead(g))
  /\ \A g \in WriteGuards : SF_vars(TakeBit(g)) /\ WF_vars(GetWrite(g))

LiveSpec == Spec /\ Fairness

-----------------------------------------------------------------------------
(* Properties. *)

\* The variables have their types (lock.rs:6-8, 25-39).
TypeOK ==
  /\ place \in [Guards -> {"out", "waiting", "draining", "in", "gone"}]
  /\ depth \in [Threads -> Nat]

\* "Allows multiple concurrent readers or a single exclusive writer"
\* (lock.rs:18), recursive readers that pass a waiting writer included.
Exclusion ==
  \A g \in WriteGuards : In(g) =>
    /\ Readers(LockOf[g]) = {}
    /\ \A h \in WriteGuards \ {g} : LockOf[h] = LockOf[g] => ~In(h)

\* "Recursive read locking is supported without deadlocks" (test_lock.py:179):
\* a thread that reads a lock does not wait to read it once more, whatever
\* other locks it enters and leaves (lock.rs:70-117, 120-130).
RecursiveReadsNeverWait ==
  \A g, h \in ReadGuards :
    ThreadOf[g] = ThreadOf[h] /\ LockOf[g] = LockOf[h] /\ In(h)
      => place[g] # "waiting"

\* A reader that is not reading the lock already comes past a writer that has
\* taken the bit.
PassWriter ==
  \E g \in ReadGuards :
    /\ ~In(g) /\ In(g)' /\ BitTaken(LockOf[g])
    /\ \A h \in Readers(LockOf[g]) : ThreadOf[h] # ThreadOf[g]

\* No __enter__() waits for ever: not that of a writer (test_integration.py:197),
\* not that of a reader behind a writer, and threads that read two locks in
\* opposite order do not lock each other out behind two writers.  Only readers
\* that come past a writer again and again may starve it
\* (lock.rs:70-117, 135-165).
EntersReturn ==
  <>[][~PassWriter]_vars => \A t \in Threads : Busy(t) ~> ~Busy(t)
=============================================================================
