-------------------------- MODULE MCConcurrentDict --------------------------
(* Two dictionaries with two keys in two shards, for TLC. *)
EXTENDS ConcurrentDict, TLC

CONSTANTS d1, d2, k1, k2

OneKeyPerShard == [k \in {k1, k2} |-> IF k = k1 THEN 1 ELSE 2]
=============================================================================
