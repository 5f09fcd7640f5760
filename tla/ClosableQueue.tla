---------------------------- MODULE ClosableQueue ----------------------------
(***************************************************************************)
(* What one pysync Channel promises, without threads' control flow: a      *)
(* bounded FIFO queue q with a closing flag.  A user may put an item only  *)
(* while it holds a handle (a clone of the crossbeam Sender) or, for a     *)
(* non-blocking put, while the queue is open.  Handles come from an open   *)
(* queue or from a user that has one, so once the queue is closed and the  *)
(* last handle is gone nobody can ever put again: the queue is sealed.     *)
(*                                                                         *)
(* Channel.tla implements this module for each of its channels; Actor.tla  *)
(* uses its actions as the actor's mailbox.                                *)
(***************************************************************************)
EXTENDS Naturals, Sequences

CONSTANTS
  Users,     \* whoever can hold a sending handle: threads and SendOp objects
  Items,
  Bound      \* capacity, in Nat; 0 is a rendezvous queue, which never stores an item

VARIABLES
  q,         \* the items stored
  closed,    \* the queue gives out no more handles
  holders    \* the users that hold a handle

qvars == <<q, closed, holders>>

QInit == q = <<>> /\ closed = FALSE /\ holders = {}

\* Every sender is gone: crossbeam reports the channel as disconnected.
Sealed == closed /\ holders = {}

Acquire(u) ==
  /\ ~closed
  /\ holders' = holders \cup {u}
  /\ UNCHANGED <<q, closed>>

\* A handle is cloned from one that somebody else holds.
Share(u, v) ==
  /\ u \in holders
  /\ holders' = holders \cup {v}
  /\ UNCHANGED <<q, closed>>

Release(u) ==
  /\ u \in holders
  /\ holders' = holders \ {u}
  /\ UNCHANGED <<q, closed>>

\* A variant with a plausible mistake, to see that properties notice.
HasRoomFor_faulty(s) == Len(s) <= Bound

HasRoomFor(s) == Len(s) < Bound

Put(u, x) ==
  /\ u \in holders
  /\ HasRoomFor(q)
  /\ q' = Append(q, x)
  /\ UNCHANGED <<closed, holders>>

TryPut(x) ==
  /\ ~closed
  /\ HasRoomFor(q)
  /\ q' = Append(q, x)
  /\ UNCHANGED <<closed, holders>>

Take ==
  /\ q # <<>>
  /\ q' = Tail(q)
  /\ UNCHANGED <<closed, holders>>

Close ==
  /\ closed' = TRUE
  /\ UNCHANGED <<q, holders>>

QNext ==
  \/ \E u \in Users : Acquire(u) \/ Release(u)
  \/ \E u, v \in Users : Share(u, v)
  \/ \E u \in Users, x \in Items : Put(u, x)
  \/ \E x \in Items : TryPut(x)
  \/ Take
  \/ Close

QSpec == QInit /\ [][QNext]_qvars
=============================================================================
