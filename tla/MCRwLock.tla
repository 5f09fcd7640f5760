------------------------------ MODULE MCRwLock ------------------------------
(* Two readers that read two locks, one of them recursively, and two writers, *)
(* one of them of both locks, for TLC.                                       *)
EXTENDS RwLock, TLC

CONSTANTS r1, r2, w1, w2, A, B, r1A, r1A2, r1B, r2A, r2B, w1A, w2A, w2B

GuardThreads ==
  [g \in {r1A, r1A2, r1B, r2A, r2B, w1A, w2A, w2B} |->
     CASE g \in {r1A, r1A2, r1B} -> r1
       [] g \in {r2A, r2B} -> r2
       [] g = w1A -> w1
       [] g \in {w2A, w2B} -> w2]

GuardLocks ==
  [g \in {r1A, r1A2, r1B, r2A, r2B, w1A, w2A, w2B} |->
     IF g \in {r1B, r2B, w2B} THEN B ELSE A]
=============================================================================
