------------------------------- MODULE Layers -------------------------------
(***************************************************************************)
(* The protocol layers of csharker: what one turn of the Listener's inner  *)
(* loop (make_track, nextProto) does with a captured frame.  Each Protocol *)
(* object is a class and a window of the frame, __data, given by its       *)
(* offset and its length.                                                  *)
(*                                                                         *)
(* The accessors do not look at the window's length: they read whatever is *)
(* in memory, up to Overread bytes behind the frame.                       *)
(***************************************************************************)
EXTENDS Integers

Overread == 20

Byte == 0..255
Short == {256 * h + l : h, l \in Byte}

(* A frame: its length, its bytes, and the memory behind it. *)
IsFrame(f) ==
  /\ f.len \in Nat
  /\ f.byte \in [0..(f.len + Overread - 1) -> Byte]

EtherIP == 2048
ProtoTCP == 6
PortsHTTP == {80}
PortsFTP == {21}
PortsOSCAR == {5190, 443}

Classes == {"Packet", "Ethernet", "IP", "TCP", "HTTP", "FTP", "OSCAR"}

(* Packet::xchar, xshort, xint, at offset i of the frame. *)
xchar(f, i) == f.byte[i]
xshort(f, i) == 256 * xchar(f, i) + xchar(f, i + 1)
xint(f, i) == 256 * 256 * xshort(f, i) + xshort(f, i + 2)

Bit(b, n) == (b \div n) % 2

(* A walk: the class and the window of cur, what c has so far, and whether
   nextProto() has returned NULL. *)
Key == [proto: Byte, saddr: Nat, daddr: Nat, src_port: Short, dst_port: Short]

Walk == [layer: Classes, off: Nat, len: Nat, key: Key, close_wait: BOOLEAN,
         done: BOOLEAN]

ZeroKey == [proto |-> 0, saddr |-> 0, daddr |-> 0,
            src_port |-> 0, dst_port |-> 0]

(* c.clear() and a Packet that holds the whole frame. *)
Start(f) ==
  [layer |-> "Packet", off |-> 0, len |-> f.len, key |-> ZeroKey,
   close_wait |-> FALSE, done |-> FALSE]

(* Mutant: the header length is taken for bytes, not words. *)
IPHeaderLengthBytes(f, w) == LET b == xchar(f, w.off) IN b % 16

(* Mutant: the version is not masked out. *)
IPHeaderLengthUnmasked(f, w) == 4 * xchar(f, w.off)

(* IP::header_length(): the mask is 0x15, not 15. *)
IPHeaderLength(f, w) ==
  LET b == xchar(f, w.off)
  IN  4 * (Bit(b, 1) + 4 * Bit(b, 4) + 16 * Bit(b, 16))

(* header_length() of the classes whose next() is called. *)
HeaderLength(f, w) ==
  CASE w.layer = "Ethernet" -> 14
    [] w.layer = "IP" -> IPHeaderLength(f, w)
    [] w.layer = "TCP" -> 4 * (xchar(f, w.off + 12) \div 16)
    [] OTHER -> 0

(* Mutant: next() trusts the header. *)
SkipUnclamped(f, w) == HeaderLength(f, w)

(* How far next() moves the window.  (Packet::nextProto() passes on its whole
   window, without next().) *)
Skip(f, w) == IF HeaderLength(f, w) > w.len THEN w.len ELSE HeaderLength(f, w)

(* Mutant: both addresses are the source's. *)
IPTrackTwice(f, w) ==
  [w EXCEPT !.key = [@ EXCEPT !.saddr = xint(f, w.off + 12),
                              !.daddr = xint(f, w.off + 12),
                              !.proto = xchar(f, w.off + 9)]]

(* IP::make_track(). *)
IPTrack(f, w) ==
  [w EXCEPT !.key = [@ EXCEPT !.saddr = xint(f, w.off + 12),
                              !.daddr = xint(f, w.off + 16),
                              !.proto = xchar(f, w.off + 9)]]

(* TCP::is_rst() || TCP::is_fin(), wherever the window is. *)
Closing(f, w) ==
  Bit(xchar(f, w.off + 13), 4) = 1 \/ Bit(xchar(f, w.off + 13), 1) = 1

(* Mutant: close_wait is assigned instead of set. *)
TCPTrackAssigns(f, w) ==
  [w EXCEPT !.key = [@ EXCEPT !.src_port = xshort(f, w.off),
                              !.dst_port = xshort(f, w.off + 2)],
            !.close_wait = Closing(f, w)]

(* TCP::make_track(), which HTTP and FTP inherit and apply to the payload. *)
TCPTrack(f, w) ==
  [w EXCEPT !.key = [@ EXCEPT !.src_port = xshort(f, w.off),
                              !.dst_port = xshort(f, w.off + 2)],
            !.close_wait = @ \/ Closing(f, w)]

(* make_track(), if is_trackable(). *)
Tracked(f, w) ==
  CASE w.layer = "IP" -> IPTrack(f, w)
    [] w.layer \in {"TCP", "HTTP", "FTP"} -> TCPTrack(f, w)
    [] OTHER -> w

(* A port of the TCP header at the window is in S. *)
OnPort(f, w, S) == xshort(f, w.off) \in S \/ xshort(f, w.off + 2) \in S

(* TCP::nextProto(). *)
TCPNext(f, w) ==
  CASE OnPort(f, w, PortsHTTP) -> "HTTP"
    [] ~OnPort(f, w, PortsHTTP) /\ OnPort(f, w, PortsFTP) -> "FTP"
    [] ~OnPort(f, w, PortsHTTP \cup PortsFTP) /\ OnPort(f, w, PortsOSCAR) ->
         "OSCAR"
    [] OTHER -> "none"

(* Mutant: FTP does not override the nextProto() of TCP. *)
NextProtoInherited(f, w) ==
  CASE w.layer = "Packet" -> "Ethernet"
    [] w.layer = "Ethernet" /\ xshort(f, w.off + 12) = EtherIP -> "IP"
    [] w.layer = "IP" /\ xchar(f, w.off + 9) = ProtoTCP -> "TCP"
    [] w.layer \in {"TCP", "FTP"} -> TCPNext(f, w)
    [] OTHER -> "none"

(* nextProto(): the class of the next object, or "none". *)
NextProto(f, w) ==
  CASE w.layer = "Packet" -> "Ethernet"
    [] w.layer = "Ethernet" /\ xshort(f, w.off + 12) = EtherIP -> "IP"
    [] w.layer = "IP" /\ xchar(f, w.off + 9) = ProtoTCP -> "TCP"
    [] w.layer = "TCP" -> TCPNext(f, w)
    [] OTHER -> "none"

(* One turn of Listener::start's inner loop. *)
Turn(f, w) ==
  LET t == Tracked(f, w)
  IN  IF NextProto(f, w) = "none"
      THEN [t EXCEPT !.done = TRUE]
      ELSE [t EXCEPT !.layer = NextProto(f, w),
                     !.off = w.off + Skip(f, w), !.len = w.len - Skip(f, w)]

(* The walk of g, which has at most five turns. *)
Go(g, w) == IF w.done THEN w ELSE Turn(g, w)

Result(g) == Go(g, Go(g, Go(g, Go(g, Go(g, Start(g))))))
=============================================================================
