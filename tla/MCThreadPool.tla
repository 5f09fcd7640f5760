---------------------------- MODULE MCThreadPool ----------------------------
(* Three tasks, each of which waits for those submitted before it, for TLC. *)
(* The second one may shut its own pool down.                               *)
EXTENDS ThreadPool, TLC

CONSTANTS t1, t2, t3, s1, s2, s3

EachNeedsItsElders ==
  [t \in {t1, t2, t3} |-> CASE t = t1 -> {} [] t = t2 -> {t1} [] t = t3 -> {t1, t2}]

ThirdByT2 == [s \in {s1, s2, s3} |-> IF s = s3 THEN t2 ELSE NoTask]
=============================================================================
