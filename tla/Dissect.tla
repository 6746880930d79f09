------------------------------ MODULE Dissect -------------------------------
(***************************************************************************)
(* The Listener's inner loop as a state machine: frame after frame, layer  *)
(* after layer.  The walk's key and close_wait are what Listener::start    *)
(* looks up in the map of connections; ConnTrack begins where a walk is    *)
(* done.                                                                   *)
(***************************************************************************)
EXTENDS Layers

CONSTANT Frames   (* the frames that may be captured *)

ASSUME FramesAssumption == \A f \in Frames : IsFrame(f)

VARIABLES
  frame,   (* header.len and the bytes that data points to                  *)
  walk     (* cur, and the Listener's c                                     *)

vars == <<frame, walk>>

Init == \E f \in Frames : frame = f /\ walk = Start(f)

(* Mutant: c is not cleared for the next packet. *)
CaptureStale(f) ==
  /\ walk.done
  /\ frame' = f
  /\ walk' = [Start(f) EXCEPT !.key = walk.key, !.close_wait = walk.close_wait]

(* The packet has been dealt with, and pcap_next() returns another one. *)
Capture(f) ==
  /\ walk.done
  /\ frame' = f
  /\ walk' = Start(f)

Descend ==
  /\ ~walk.done
  /\ walk' = Turn(frame, walk)
  /\ UNCHANGED frame

Next == (\E f \in Frames : Capture(f)) \/ Descend

Spec == Init /\ [][Next]_vars

(* The Listener goes on with a packet it has. *)
FairSpec == Spec /\ WF_vars(Descend)

----------------------------------------------------------------------------
TypeOK == frame \in Frames /\ walk \in Walk

(* The window never leaves the frame, whatever lengths its headers claim: what
   a layer skips is cut to what there is, so no unsigned length goes below 0
   and no accessor reads farther than Overread bytes behind the frame. *)
WindowInFrame ==
  /\ walk.len >= 0
  /\ walk.off + walk.len = frame.len

----------------------------------------------------------------------------
(* The reference: the fields of an Ethernet frame with an IPv4 header of five
   words, at their places in the standards. *)
Word(f, i) == 256 * f.byte[i] + f.byte[i + 1]

IPv4(f) == f.len >= 34 /\ Word(f, 12) = EtherIP /\ f.byte[14] = 69

TCPSegment(f) == IPv4(f) /\ f.byte[23] = ProtoTCP /\ f.len >= 54

Ports(f) == {Word(f, 34), Word(f, 36)}

(* Ports whose classes read the payload as if it were a TCP header. *)
Rereads(f) == TCPSegment(f) /\ Ports(f) \cap (PortsHTTP \cup PortsFTP) # {}

FinOrRst(f) == Bit(f.byte[47], 1) = 1 \/ Bit(f.byte[47], 4) = 1

Addresses(f) ==
  [saddr |-> 256 * 256 * Word(f, 26) + Word(f, 28),
   daddr |-> 256 * 256 * Word(f, 30) + Word(f, 32), proto |-> f.byte[23]]

Reference(f) ==
  [key |-> [proto |-> f.byte[23],
            saddr |-> Addresses(f).saddr, daddr |-> Addresses(f).daddr,
            src_port |-> IF TCPSegment(f) THEN Word(f, 34) ELSE 0,
            dst_port |-> IF TCPSegment(f) THEN Word(f, 36) ELSE 0],
   close_wait |-> TCPSegment(f) /\ FinOrRst(f)]

(* A complete IPv4 packet without options that is no TCP, or TCP to and from
   other ports than those of HTTP and FTP. *)
Plain(f) == IPv4(f) /\ (f.byte[23] = ProtoTCP => TCPSegment(f)) /\ ~Rereads(f)

(* A plain packet is tracked under the addresses, the protocol and the ports in
   its headers, and closes its connection if and only if it has FIN or RST:
   whatever the packet before it was. *)
PlainRight ==
  walk.done /\ Plain(frame) =>
    /\ walk.key = Reference(frame).key
    /\ walk.close_wait = Reference(frame).close_wait

(* The mask of IP::header_length() is wrong for headers with options, but in one
   direction only: TCP is read from within the header or from its end, never
   from behind it, where the payload would pass for ports and flags. *)
Version4(f) == f.len >= 34 /\ f.byte[14] \div 16 = 4

HeaderBound ==
  walk.layer = "TCP" /\ Version4(frame) =>
    walk.off >= 14 /\ walk.off <= 14 + 4 * (frame.byte[14] % 16)

(* The deeper classes overwrite ports, but never addresses and protocol. *)
AddressesRight ==
  walk.done /\ IPv4(frame) =>
    /\ walk.key.saddr = Addresses(frame).saddr
    /\ walk.key.daddr = Addresses(frame).daddr
    /\ walk.key.proto = Addresses(frame).proto

(* No class loses the FIN or RST that the TCP layer has seen, although HTTP and
   FTP run the same make_track() again, on the payload. *)
CloseKept ==
  walk.done /\ TCPSegment(frame) /\ FinOrRst(frame) => walk.close_wait

(* The packet that goes back: addresses and ports are exchanged. *)
MirrorAt(i) ==
  CASE i \in 26..29 -> i + 4
    [] i \in 30..33 -> i - 4
    [] i \in 34..35 -> i + 2
    [] i \in 36..37 -> i - 2
    [] OTHER -> i

Mirror(f) ==
  [len |-> f.len, byte |-> [i \in DOMAIN f.byte |-> f.byte[MirrorAt(i)]]]

(* What Connection::operator== relies on: the packets of the two directions of
   a plain flow have keys that mirror one another. *)
MirrorKeys ==
  walk.done /\ Plain(frame) =>
    LET back == Result(Mirror(frame))
    IN  /\ back.done
        /\ back.key.saddr = walk.key.daddr /\ back.key.daddr = walk.key.saddr
        /\ back.key.src_port = walk.key.dst_port
        /\ back.key.dst_port = walk.key.src_port
        /\ back.key.proto = walk.key.proto

(* The walk ends for every frame: the loop has no bound of its own. *)
WalkEnds == ~walk.done ~> walk.done
=============================================================================
