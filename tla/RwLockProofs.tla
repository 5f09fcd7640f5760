---------------------------- MODULE RwLockProofs ----------------------------
(***************************************************************************)
(* Proofs about RwLock, for any threads, locks and guards, whether or not  *)
(* the program is disciplined: the types, the exclusion of writers, and    *)
(* that a recursive reader does not wait.                                  *)
(***************************************************************************)
EXTENDS RwLock, FiniteSetTheorems, TLAPS

\* The thread's read guards that are in.
Held(t) == {g \in ReadGuards : ThreadOf[g] = t /\ In(g)}

\* READ_DEPTH is at least the number of them (it is more after a guard was
\* dropped).  That it is positive is not inductive: leaving one of two guards
\* takes one off.
DepthCoversHeld == \A t \in Threads : depth[t] >= Cardinality(Held(t))

\* A thread is in one __enter__() at a time.
OneWait ==
  \A g, h \in Guards :
    /\ ThreadOf[g] = ThreadOf[h]
    /\ place[g] \in {"waiting", "draining"}
    /\ place[h] \in {"waiting", "draining"}
    => g = h

\* One guard has the writer bit of a lock.
OneBit ==
  \A g, h \in WriteGuards :
    /\ LockOf[g] = LockOf[h]
    /\ place[g] \in {"draining", "in"}
    /\ place[h] \in {"draining", "in"}
    => g = h

\* A writer that is in shares the lock with no reader.
WritersAlone == \A g \in WriteGuards : In(g) => Readers(LockOf[g]) = {}

IInv ==
  /\ TypeOK
  /\ DepthCoversHeld
  /\ OneWait
  /\ OneBit
  /\ WritersAlone
  /\ RecursiveReadsNeverWait

-----------------------------------------------------------------------------
\* The variables have their types at the start (lock.rs:44-49).
THEOREM InitTyping == Init => TypeOK
  BY LockAssumption DEF Init, TypeOK, Guards

\* Every step keeps the types of the variables.
THEOREM StepTyping == TypeOK /\ [Next]_vars => TypeOK'
  BY LockAssumption
  DEF TypeOK, Next, vars, ReadStep, WriteStep, EnterRead, WaitRead, ExitRead, DropGuard,
      GetRead, EnterWrite, TakeBit, GetWrite, ExitWrite, Allowed, In, Guards

\* The variables have their types: READ_DEPTH never goes below zero
\* (lock.rs:6-8, 120-130).
THEOREM Typing == Spec => []TypeOK
  BY InitTyping, StepTyping, PTL DEF Spec

-----------------------------------------------------------------------------
(* The read guards a thread is inside of. *)

\* A thread has finitely many read guards, and is inside of one when its count
\* is positive.
LEMMA HeldFinite ==
  ASSUME NEW t \in Threads
  PROVE  /\ IsFiniteSet(Held(t))
         /\ Cardinality(Held(t)) \in Nat
         /\ Held(t) # {} => Cardinality(Held(t)) > 0
<1>1. Held(t) \subseteq ReadGuards
  BY DEF Held
<1>2. IsFiniteSet(Held(t))
  BY <1>1, LockAssumption, FS_Subset
<1> QED
  BY <1>2, FS_CardinalityType, FS_EmptySet

\* A set that grows by an element counts one more.
LEMMA GrowsByOne ==
  ASSUME NEW S, NEW T, NEW x, IsFiniteSet(S), x \notin S, T = S \cup {x}
  PROVE  Cardinality(T) = Cardinality(S) + 1
  BY FS_AddElement

\* A set that loses an element counts one less.
LEMMA ShrinksByOne ==
  ASSUME NEW S, NEW T, NEW x, IsFiniteSet(S), x \in S, T = S \ {x}
  PROVE  Cardinality(T) = Cardinality(S) - 1
  BY FS_RemoveElement

\* When a guard gets in, the others stay where they are.
LEMMA GetReadHeld ==
  ASSUME TypeOK, NEW g \in ReadGuards, GetRead(g), ~In(g), DepthCoversHeld
  PROVE  DepthCoversHeld'
<1> SUFFICES ASSUME NEW t \in Threads
             PROVE  depth[t]' >= Cardinality(Held(t))'
  BY DEF DepthCoversHeld
<1>1. CASE t = ThreadOf[g]
  <2>1. Held(t)' = Held(t) \cup {g}
    BY <1>1, LockAssumption DEF TypeOK, GetRead, Held, In, Guards
  <2>2. g \notin Held(t)
    BY DEF Held
  <2>3. Cardinality(Held(t)') = Cardinality(Held(t)) + 1
    BY <2>1, <2>2, HeldFinite, GrowsByOne
  <2>4. depth'[t] = depth[t] + 1
    BY <1>1 DEF TypeOK, GetRead
  <2> QED
    BY <2>3, <2>4, HeldFinite DEF DepthCoversHeld, TypeOK
<1>2. CASE t # ThreadOf[g]
  <2>1. Held(t)' = Held(t)
    BY <1>2, LockAssumption DEF TypeOK, GetRead, Held, In, Guards
  <2>2. depth'[t] = depth[t]
    BY <1>2 DEF TypeOK, GetRead
  <2> QED
    BY <2>1, <2>2 DEF DepthCoversHeld
<1> QED
  BY <1>1, <1>2

\* A step that lets no reader in and leaves READ_DEPTH alone keeps the count.
LEMMA NobodyIn ==
  ASSUME TypeOK, DepthCoversHeld, depth' = depth,
         \A g \in ReadGuards : In(g)' => In(g)
  PROVE  DepthCoversHeld'
<1> SUFFICES ASSUME NEW t \in Threads
             PROVE  depth[t]' >= Cardinality(Held(t))'
  BY DEF DepthCoversHeld
<1>1. Held(t)' \subseteq Held(t)
  BY DEF Held
<1>2. /\ IsFiniteSet(Held(t)')
      /\ Cardinality(Held(t)') <= Cardinality(Held(t))
  BY <1>1, HeldFinite, FS_Subset
<1>3. Cardinality(Held(t)') \in Nat
  BY <1>2, FS_CardinalityType
<1> QED
  BY <1>2, <1>3, HeldFinite DEF DepthCoversHeld, TypeOK

\* READ_DEPTH counts at least the read guards that are in (lock.rs:91, 111, 120-130).
LEMMA StepDepth == IInv /\ [Next]_vars => DepthCoversHeld'
<1> SUFFICES ASSUME IInv, [Next]_vars
             PROVE  DepthCoversHeld'
  OBVIOUS
<1> USE DEF IInv
<1>1. ASSUME NEW g \in ReadGuards, EnterRead(g)
      PROVE  DepthCoversHeld'
  <2>1. CASE MayRead(g)
    BY <1>1, <2>1, GetReadHeld DEF EnterRead, Allowed, In
  <2>2. CASE ~MayRead(g)
    BY <1>1, <2>2, NobodyIn DEF EnterRead, In, TypeOK, Guards
  <2> QED
    BY <2>1, <2>2
<1>2. ASSUME NEW g \in ReadGuards, WaitRead(g)
      PROVE  DepthCoversHeld'
  BY <1>2, GetReadHeld DEF WaitRead, In
<1>3. ASSUME NEW g \in ReadGuards, ExitRead(g)
      PROVE  DepthCoversHeld'
  <2> SUFFICES ASSUME NEW t \in Threads
               PROVE  depth[t]' >= Cardinality(Held(t))'
    BY DEF DepthCoversHeld
  <2>1. CASE t = ThreadOf[g]
    <3>1. g \in Held(t)
      BY <1>3, <2>1 DEF ExitRead, Held
    <3>2. Held(t)' = Held(t) \ {g}
      BY <1>3, LockAssumption DEF TypeOK, ExitRead, Held, In, Guards
    <3>3. Cardinality(Held(t)') = Cardinality(Held(t)) - 1
      BY <3>1, <3>2, HeldFinite, ShrinksByOne
    <3>4. Cardinality(Held(t)) > 0
      BY <3>1, HeldFinite
    <3>5. depth[t] >= Cardinality(Held(t)) /\ depth[t] \in Nat
      BY DEF DepthCoversHeld, TypeOK
    <3>6. depth'[t] = depth[t] - 1
      BY <1>3, <2>1, <3>4, <3>5, HeldFinite DEF TypeOK, ExitRead
    <3> QED
      BY <3>3, <3>5, <3>6, HeldFinite
  <2>2. CASE t # ThreadOf[g]
    <3>1. Held(t)' = Held(t)
      BY <1>3, <2>2, LockAssumption DEF TypeOK, ExitRead, Held, In, Guards
    <3>2. depth'[t] = depth[t]
      BY <1>3, <2>2 DEF TypeOK, ExitRead
    <3> QED
      BY <3>1, <3>2 DEF DepthCoversHeld
  <2> QED
    BY <2>1, <2>2
<1>4. ASSUME NEW g \in Guards, DropGuard(g)
      PROVE  DepthCoversHeld'
  BY <1>4, NobodyIn DEF DropGuard, In, TypeOK, Guards
<1>5. ASSUME NEW g \in WriteGuards,
             EnterWrite(g) \/ TakeBit(g) \/ GetWrite(g) \/ ExitWrite(g)
      PROVE  DepthCoversHeld'
  BY <1>5, NobodyIn, LockAssumption
  DEF EnterWrite, TakeBit, GetWrite, ExitWrite, In, TypeOK, Guards
<1>6. CASE UNCHANGED vars
  BY <1>6, NobodyIn DEF vars, In
<1> QED
  BY <1>1, <1>2, <1>3, <1>4, <1>5, <1>6 DEF Next, ReadStep, WriteStep, Guards

-----------------------------------------------------------------------------
(* The other conjuncts, and the theorems. *)

\* A thread in __enter__() does nothing else: EnterRead and EnterWrite are the
\* steps that begin a wait (lock.rs:70-117, 135-165).
LEMMA StepOneWait == IInv /\ [Next]_vars => OneWait'
<1> SUFFICES ASSUME IInv, [Next]_vars
             PROVE  OneWait'
  OBVIOUS
<1> USE LockAssumption DEF IInv, TypeOK, OneWait, Guards
<1>1. ASSUME NEW g \in ReadGuards, ReadStep(g)
      PROVE  OneWait'
  BY <1>1
  DEF ReadStep, EnterRead, WaitRead, ExitRead, DropGuard, GetRead, Allowed, Busy, GuardsOf, In
<1>2. ASSUME NEW g \in WriteGuards, WriteStep(g)
      PROVE  OneWait'
  BY <1>2
  DEF WriteStep, EnterWrite, TakeBit, GetWrite, ExitWrite, DropGuard, Allowed, Busy, GuardsOf, In
<1>3. CASE UNCHANGED vars
  BY <1>3 DEF vars
<1> QED
  BY <1>1, <1>2, <1>3 DEF Next

\* The writer bit has one owner (lock.rs:147, 159).
LEMMA StepOneBit == IInv /\ [Next]_vars => OneBit'
<1> SUFFICES ASSUME IInv, [Next]_vars
             PROVE  OneBit'
  OBVIOUS
<1> USE LockAssumption DEF IInv, TypeOK, OneBit, Guards
<1>1. ASSUME NEW g \in ReadGuards, ReadStep(g)
      PROVE  OneBit'
  BY <1>1 DEF ReadStep, EnterRead, WaitRead, ExitRead, DropGuard, GetRead
<1>2. ASSUME NEW g \in WriteGuards, WriteStep(g)
      PROVE  OneBit'
  BY <1>2
  DEF WriteStep, EnterWrite, TakeBit, GetWrite, ExitWrite, DropGuard, BitTaken, In
<1>3. CASE UNCHANGED vars
  BY <1>3 DEF vars
<1> QED
  BY <1>1, <1>2, <1>3 DEF Next

\* No reader comes in past a writer that is in, recursive or not: there are no
\* other readers to join (lock.rs:81-88, 103-109).
LEMMA StepWritersAlone == IInv /\ [Next]_vars => WritersAlone'
<1> SUFFICES ASSUME IInv, [Next]_vars,
                    NEW w \in WriteGuards, In(w)',
                    NEW r \in ReadGuards, LockOf[r] = LockOf[w], In(r)'
             PROVE  FALSE
  BY DEF WritersAlone, Readers
<1> USE LockAssumption DEF IInv, TypeOK, Guards
<1>1. ~(In(w) /\ In(r))
  BY DEF WritersAlone, Readers
<1>2. ASSUME NEW g \in ReadGuards, ReadStep(g)
      PROVE  FALSE
  <2>1. In(w) /\ g = r /\ ~In(r)
    BY <1>1, <1>2
    DEF ReadStep, EnterRead, WaitRead, ExitRead, DropGuard, GetRead, In
  <2>2. ~MayRead(r)
    BY <2>1 DEF MayRead, BitTaken, WritersAlone, In
  <2> QED
    BY <1>2, <2>1, <2>2
    DEF ReadStep, EnterRead, WaitRead, ExitRead, DropGuard, In
<1>3. ASSUME NEW g \in WriteGuards, WriteStep(g)
      PROVE  FALSE
  <2>1. In(r) /\ g = w /\ ~In(w)
    BY <1>1, <1>3
    DEF WriteStep, EnterWrite, TakeBit, GetWrite, ExitWrite, DropGuard, In
  <2>2. Readers(LockOf[w]) # {}
    BY <2>1 DEF Readers
  <2> QED
    BY <1>3, <2>1, <2>2
    DEF WriteStep, EnterWrite, TakeBit, GetWrite, ExitWrite, DropGuard, In
<1>4. CASE UNCHANGED vars
  BY <1>1, <1>4 DEF vars, In
<1> QED
  BY <1>2, <1>3, <1>4 DEF Next

\* A thread with a read guard of the lock that is in has a positive READ_DEPTH
\* and is itself a reader to join (lock.rs:78-88).
LEMMA StepRecursive == IInv /\ [Next]_vars => RecursiveReadsNeverWait'
<1> SUFFICES ASSUME IInv, [Next]_vars,
                    NEW g \in ReadGuards, NEW h \in ReadGuards,
                    ThreadOf[g] = ThreadOf[h], LockOf[g] = LockOf[h],
                    In(h)', place'[g] = "waiting"
             PROVE  FALSE
  BY DEF RecursiveReadsNeverWait
<1> USE LockAssumption DEF IInv, TypeOK, Guards
<1>1. ~(In(h) /\ place[g] = "waiting")
  BY DEF RecursiveReadsNeverWait
<1>2. ASSUME NEW x \in ReadGuards, ReadStep(x)
      PROVE  FALSE
  <2>1. CASE x = g /\ In(h)
    <3>1. EnterRead(g) /\ ~MayRead(g)
      BY <1>1, <1>2, <2>1
      DEF ReadStep, EnterRead, WaitRead, ExitRead, DropGuard, GetRead, In
    <3>2. h \in Held(ThreadOf[g]) /\ h \in Readers(LockOf[g]) /\ ThreadOf[g] \in Threads
      BY <2>1 DEF Held, Readers
    <3>3. depth[ThreadOf[g]] > 0
      BY <3>2, HeldFinite DEF DepthCoversHeld
    <3> QED
      BY <3>1, <3>2, <3>3 DEF MayRead
  <2>2. CASE x = h /\ place[g] = "waiting" /\ ~In(h)
    <3>1. Busy(ThreadOf[h])
      BY <2>2 DEF Busy, GuardsOf
    <3>2. place[h] = "waiting"
      BY <1>2, <2>2, <3>1
      DEF ReadStep, EnterRead, WaitRead, ExitRead, DropGuard, Allowed, In
    <3>3. g = h
      BY <2>2, <3>2 DEF OneWait
    <3> QED
      BY <3>3 DEF In
  <2> QED
    BY <1>1, <1>2, <2>1, <2>2
    DEF ReadStep, EnterRead, WaitRead, ExitRead, DropGuard, GetRead, In
<1>3. ASSUME NEW x \in WriteGuards, WriteStep(x)
      PROVE  FALSE
  BY <1>1, <1>3
  DEF WriteStep, EnterWrite, TakeBit, GetWrite, ExitWrite, DropGuard, In
<1>4. CASE UNCHANGED vars
  BY <1>1, <1>4 DEF vars, In
<1> QED
  BY <1>2, <1>3, <1>4 DEF Next

\* The invariant of the proofs.
LEMMA Invariance == Spec => []IInv
<1>1. Init => IInv
  <2> SUFFICES ASSUME Init
               PROVE  IInv
    OBVIOUS
  <2>1. TypeOK
    BY InitTyping
  <2>2. DepthCoversHeld
    <3>1. \A t \in Threads : Held(t) = {}
      BY DEF Init, Held, In, Guards
    <3> QED
      BY <3>1, FS_EmptySet DEF Init, DepthCoversHeld
  <2> QED
    BY <2>1, <2>2
    DEF IInv, Init, OneWait, OneBit, WritersAlone, RecursiveReadsNeverWait, In, Guards
<1>2. IInv /\ [Next]_vars => IInv'
  BY StepTyping, StepDepth, StepOneWait, StepOneBit, StepWritersAlone, StepRecursive DEF IInv
<1> QED
  BY <1>1, <1>2, PTL DEF Spec

\* "Allows multiple concurrent readers or a single exclusive writer"
\* (lock.rs:18), for any guards, also abandoned ones.
THEOREM ReadersOrWriter == Spec => []Exclusion
<1>1. IInv => Exclusion
  BY DEF IInv, WritersAlone, OneBit, Exclusion, In
<1> QED
  BY <1>1, Invariance, PTL

\* A thread that reads a lock does not wait to read it once more
\* (test_lock.py:179), whatever other guards it enters, leaves or drops.
THEOREM RecursiveReads == Spec => []RecursiveReadsNeverWait
<1>1. IInv => RecursiveReadsNeverWait
  BY DEF IInv
<1> QED
  BY <1>1, Invariance, PTL
=============================================================================
