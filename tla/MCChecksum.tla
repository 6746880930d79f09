---------------------------- MODULE MCChecksum -----------------------------
(* Bytes and packets for TLC: short sequences at the edges of a byte, and IP
   packets with and without options, whose segments have odd and even
   lengths. *)
EXTENDS Checksum

Edges == {0, 1, 255}

ShortData == UNION {[1..n -> Edges] : n \in 0..5}
Payloads == UNION {[1..n -> Edges] : n \in 0..2}

(* The packet of terminateRequest(), or one with options and a payload. *)
Datagram(words, port, payload) ==
  LET segment == <<0, 80, port, port, 0, 0, 0, 0, 0, 0, 0, 0, 80, 4, 0, 0,
                   0, 0, 0, 0>> \o payload
      options == [i \in 1..(4 * (words - 5)) |-> 1]
      size == 4 * words + Len(segment)
  IN  <<64 + words, 0, size \div 256, size % 256, 0, 0, 0, 0, 64, 6, 0, 0,
        10, 0, 0, 1, 255, 255, 255, 254>> \o options \o segment

MCDatagrams ==
  {Datagram(words, port, payload) :
     words \in {5, 6, 15}, port \in {0, 255}, payload \in Payloads}
============================================================================
