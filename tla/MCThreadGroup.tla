---------------------------- MODULE MCThreadGroup ----------------------------
(* A small instance of ThreadGroup for TLC. *)
EXTENDS ThreadGroup, TLC

CONSTANTS k1, k2, k3
=============================================================================
