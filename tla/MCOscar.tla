------------------------------ MODULE MCOscar ------------------------------
(* Payloads for TLC: shorter than a FLAP, cut off in every part of a message,
   and with room for two sub-TLVs. *)
EXTENDS Oscar

MCSizes == {5, 13, 29, 33, 34, 37, 46, 61, 75, 110}

(* Nothing, odd and even fields, a fragment's least length, the length of a
   capability, more than any payload has. *)
MCLengths == {0, 1, 5, 6, 27, 65535}

MCCounts == {0, 1, 3}
=============================================================================
