----------------------------- MODULE MCChannel -----------------------------
(* Small instances of Channel for TLC. *)
EXTENDS Channel, TLC

CONSTANTS t1, t2, t3, c1, c2, o1, a, b

\* One channel.
OpChanOne == [o \in SendOps |-> c1]
Capacity0 == [c \in Chans |-> 0]
Capacity1 == [c \in Chans |-> 1]
Capacity2 == [c \in Chans |-> 2]

\* A buffered and a rendezvous channel.
CapacityMixed == (c1 :> 1) @@ (c2 :> 0)

\* Channel's ImplementsQueue for the one channel of an instance: TLC does not
\* take a temporal formula of an INSTANCE that has a parameter.
QueueC1 == INSTANCE ClosableQueue WITH
  Users <- Threads \cup SendOps,
  Bound <- Capacity[c1],
  q <- buf[c1],
  closed <- ~open[c1],
  holders <- Holders(c1)

ImplementsQueueC1 == QueueC1!QSpec

ThreadSymmetry == Permutations(Threads)
=============================================================================
