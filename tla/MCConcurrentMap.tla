--------------------------- MODULE MCConcurrentMap ---------------------------
(* Two equal key objects and one that collides with them, for TLC. *)
EXTENDS ConcurrentMap, TLC

CONSTANTS t1, t2, a1, a2, b, v1, v2

EqualPair == [o \in {a1, a2, b} |-> IF o = b THEN "b" ELSE "a"]

\* Threads, values and the two equal objects are interchangeable.
Symmetric == Permutations({t1, t2}) \cup Permutations({v1, v2}) \cup Permutations({a1, a2})
=============================================================================
