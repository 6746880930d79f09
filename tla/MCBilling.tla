---------------------------- MODULE MCBilling -----------------------------
(* A small instance of Billing for TLC. *)
EXTENDS Billing

CONSTANTS u1, u2, s1, s2
============================================================================
