------------------------------ MODULE MCActor ------------------------------
(* Small instances of Actor for TLC. *)
EXTENDS Actor, TLC

CONSTANTS m1, m2, m3, s1, s2

AllOutside == [x \in Calls \cup Stoppers |-> Outside]

\* The method of m1 makes the tell m3 and the stop s2.
M1CallsItsActor == [x \in Calls \cup Stoppers |-> IF x \in {m3, s2} THEN m1 ELSE Outside]
=============================================================================
