------------------------------- MODULE MCFTP --------------------------------
(* Payloads for TLC: up to five characters, text, CR and LF in any order. *)
EXTENDS FTP

MCBodies == UNION {[1..n -> {"x", CR, LF}] : n \in 0..5}
=============================================================================
