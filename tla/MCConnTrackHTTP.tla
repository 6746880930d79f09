-------------------------- MODULE MCConnTrackHTTP --------------------------
(* ConnTrack with the packets that the layers make of an HTTP exchange on port
   80: the composition of the two halves of Listener::start. *)
EXTENDS MCConnTrack

Dissection == INSTANCE Layers

(* A TCP segment between two hosts, with what matters of its payload: the
   first four bytes and the fourteenth. *)
Segment(from, to, sport, dport, flags, first, fourteenth) ==
  [len |-> 68,
   byte |-> [i \in 0..87 |->
     CASE i = 12 -> 8
       [] i = 14 -> 69
       [] i = 23 -> 6
       [] i = 29 -> from
       [] i = 33 -> to
       [] i = 35 -> sport
       [] i = 37 -> dport
       [] i = 46 -> 80
       [] i = 47 -> flags
       [] i \in 54..57 -> first[i - 53]
       [] i = 67 -> fourteenth
       [] OTHER -> 0]]

(* GET /index.html and HTTP/1.1 200 OK, whose fourteenth characters read as FIN;
   more of the answer, with the letters PPPP; and a FIN without a payload. *)
Exchange ==
  {Segment(1, 2, 100, 80, 16, <<71, 69, 84, 32>>, 109),
   Segment(2, 1, 80, 100, 16, <<72, 84, 84, 80>>, 79),
   Segment(2, 1, 80, 100, 16, <<80, 80, 80, 80>>, 80),
   Segment(1, 2, 100, 80, 17, <<0, 0, 0, 0>>, 0)}

(* What the Listener has when the walk over a frame is done. *)
Dissected(f) ==
  LET w == Dissection!Result(f)
  IN  [key |-> w.key, close_wait |-> w.close_wait, kind |-> w.layer, len |-> 1]

HTTPPackets == {Dissected(f) : f \in Exchange}
============================================================================
