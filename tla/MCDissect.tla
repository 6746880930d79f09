----------------------------- MODULE MCDissect ------------------------------
(* A set of frames for TLC: headers at the edges of what the layers tell
   apart, complete and truncated. *)
EXTENDS Dissect

(* Addresses below 128.0.0.0, which TLC's integers can hold. *)
Header(etype, first, proto, ports, doff, flags) ==
  [i \in 0..53 |->
    CASE i = 12 -> etype \div 256  [] i = 13 -> etype % 256
      [] i = 14 -> first
      [] i = 23 -> proto
      [] i = 26 -> 10  [] i = 29 -> 1
      [] i = 30 -> 10  [] i = 33 -> 2
      [] i = 34 -> ports[1] \div 256  [] i = 35 -> ports[1] % 256
      [] i = 36 -> ports[2] \div 256  [] i = 37 -> ports[2] % 256
      [] i = 46 -> 16 * doff
      [] i = 47 -> flags
      [] OTHER -> 0]

(* What follows the headers: nothing but zeros, words that read as port 21, or
   bytes with the bits of FIN and RST. *)
Fills == {[even |-> 0, odd |-> 0], [even |-> 0, odd |-> 21],
          [even |-> 5, odd |-> 5]}

Frame(header, fill, len) ==
  [len |-> len,
   byte |-> [i \in 0..(len + Overread - 1) |->
     IF i <= 53 /\ i < len THEN header[i]
     ELSE IF i % 2 = 0 THEN fill.even ELSE fill.odd]]

PortPairs == {<<49152, 80>>, <<80, 21>>, <<49152, 21>>, <<5190, 49152>>,
              <<49152, 8000>>}

Segments ==
  {Frame(Header(2048, 69, 6, ports, doff, flags), fill, len) :
     ports \in PortPairs, doff \in {5, 15}, flags \in {16, 17, 4},
     fill \in Fills, len \in {54, 70}}

(* Other protocols, IP options, an odd version, truncated frames. *)
Others ==
  {Frame(Header(etype, first, proto, ports, 5, 17), fill, len) :
     etype \in {2048, 34525}, first \in {69, 70, 79, 95}, proto \in {6, 17},
     ports \in {<<49152, 80>>, <<49152, 8000>>}, fill \in Fills,
     len \in {13, 16, 34, 40, 54}}

MCFrames == Segments \cup Others
=============================================================================
