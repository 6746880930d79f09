----------------------------- MODULE MCTSQueue -----------------------------
(* A small instance of TSQueue for TLC. *)
EXTENDS TSQueue

CONSTANTS m1, m2, m3, m4, v1, v2
============================================================================
