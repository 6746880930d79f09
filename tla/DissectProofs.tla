--------------------------- MODULE DissectProofs ----------------------------
(* Proofs about the walk over a frame's layers, for frames of any length and
   content.  Every fact is about one Turn of one walk, so that it serves the
   state machine and the Result of the mirrored frame alike. *)
EXTENDS Dissect, TLAPS

(* What two bytes make is a number. *)
LEMMA ShortNat == Short \subseteq Nat
<1> SUFFICES ASSUME NEW n \in Short PROVE n \in Nat
  OBVIOUS
<1>1. PICK h \in Byte, l \in Byte : n = 256 * h + l
  BY DEF Short
<1> QED  BY <1>1 DEF Byte

(* The accessors return what their types can hold. *)
LEMMA Accessors ==
  ASSUME NEW f, IsFrame(f), NEW i \in Nat
  PROVE  /\ i < f.len + Overread => xchar(f, i) \in Byte
         /\ i + 1 < f.len + Overread => xshort(f, i) \in Short
         /\ i + 3 < f.len + Overread => xint(f, i) \in Nat
<1> DEFINE N == f.len + Overread
<1>1. N \in Nat /\ f.byte \in [0..(N - 1) -> Byte]
  BY DEF IsFrame, Overread
<1> HIDE DEF N
<1>2. \A n \in Nat : n < N => f.byte[n] \in Byte
  <2> SUFFICES ASSUME NEW n \in Nat, n < N PROVE f.byte[n] \in Byte
    OBVIOUS
  <2>1. n \in 0..(N - 1)
    BY <1>1
  <2> QED  BY <1>1, <2>1
<1>3. i < N => xchar(f, i) \in Byte
  BY <1>2 DEF xchar
<1>4. \A n \in Nat : n + 1 < N => xshort(f, n) \in Short
  <2> SUFFICES ASSUME NEW n \in Nat, n + 1 < N
               PROVE  xshort(f, n) \in Short
    OBVIOUS
  <2>1. f.byte[n] \in Byte /\ f.byte[n + 1] \in Byte
    BY <1>1, <1>2
  <2> QED  BY <2>1 DEF xshort, xchar, Short
<1>5. i + 3 < N => xint(f, i) \in Nat
  <2> SUFFICES ASSUME i + 3 < N PROVE xint(f, i) \in Nat
    OBVIOUS
  <2>1. xshort(f, i) \in Short /\ xshort(f, i + 2) \in Short
    BY <1>1, <1>4
  <2>2. xshort(f, i) \in Nat /\ xshort(f, i + 2) \in Nat
    BY <2>1, ShortNat
  <2> QED  BY <2>2 DEF xint
<1> QED  BY <1>3, <1>4, <1>5 DEF N

(* The window of a walk lies in its frame. *)
Inside(f, w) == w \in Walk /\ w.off + w.len = f.len

(* What next() skips stays in the window. *)
LEMMA SkipInside ==
  ASSUME NEW f, IsFrame(f), NEW w, Inside(f, w)
  PROVE  Skip(f, w) \in Nat /\ Skip(f, w) <= w.len
<1>1. w.off \in Nat /\ w.len \in Nat /\ w.off + w.len = f.len /\ f.len \in Nat
  BY DEF Inside, Walk, IsFrame
<1>2. xchar(f, w.off) \in Byte /\ xchar(f, w.off + 12) \in Byte
  BY <1>1, Accessors DEF Overread
<1>3. IPHeaderLength(f, w) \in Nat
  BY <1>2 DEF IPHeaderLength, Bit, Byte
<1>4. 4 * (xchar(f, w.off + 12) \div 16) \in Nat
  BY <1>2 DEF Byte
<1>5. HeaderLength(f, w) \in Nat
  BY <1>3, <1>4 DEF HeaderLength
<1> QED  BY <1>1, <1>5 DEF Skip

(* nextProto() makes an object of one of the classes. *)
LEMMA NextClass ==
  ASSUME NEW f, NEW w, NextProto(f, w) # "none"
  PROVE  NextProto(f, w) \in Classes
BY DEF NextProto, TCPNext, Classes

(* make_track() keeps the window and the types. *)
LEMMA TrackedType ==
  ASSUME NEW f, IsFrame(f), NEW w, Inside(f, w)
  PROVE  /\ Tracked(f, w) \in Walk
         /\ Tracked(f, w).off = w.off /\ Tracked(f, w).len = w.len
         /\ Tracked(f, w).layer = w.layer /\ Tracked(f, w).done = w.done
<1>1. /\ w.off \in Nat /\ w.len \in Nat /\ w.off + w.len = f.len
      /\ f.len \in Nat /\ w \in Walk
  BY DEF Inside, Walk, IsFrame
<1>2. CASE w.layer = "IP"
  <2>1. /\ xint(f, w.off + 12) \in Nat /\ xint(f, w.off + 16) \in Nat
        /\ xchar(f, w.off + 9) \in Byte
    BY <1>1, Accessors DEF Overread
  <2>2. Tracked(f, w) = IPTrack(f, w)
    BY <1>2 DEF Tracked
  <2>3. w.key \in Key
    BY <1>1 DEF Walk
  <2>4. [w.key EXCEPT !.saddr = xint(f, w.off + 12),
                      !.daddr = xint(f, w.off + 16),
                      !.proto = xchar(f, w.off + 9)] \in Key
    BY <2>1, <2>3 DEF Key
  <2> QED  BY <1>1, <2>2, <2>4 DEF IPTrack, Walk
<1>3. CASE w.layer \in {"TCP", "HTTP", "FTP"}
  <2>1. /\ xshort(f, w.off) \in Short /\ xshort(f, w.off + 2) \in Short
    BY <1>1, Accessors DEF Overread
  <2>2. Tracked(f, w) = TCPTrack(f, w)
    BY <1>3 DEF Tracked
  <2>3. Closing(f, w) \in BOOLEAN
    BY DEF Closing
  <2>4. w.key \in Key
    BY <1>1 DEF Walk
  <2>5. [w.key EXCEPT !.src_port = xshort(f, w.off),
                      !.dst_port = xshort(f, w.off + 2)] \in Key
    BY <2>1, <2>4 DEF Key
  <2>6. (w.close_wait \/ Closing(f, w)) \in BOOLEAN
    BY <2>3
  <2> QED  BY <1>1, <2>2, <2>5, <2>6 DEF TCPTrack, Walk
<1>4. CASE w.layer \notin {"IP", "TCP", "HTTP", "FTP"}
  BY <1>1, <1>4 DEF Tracked
<1> QED  BY <1>2, <1>3, <1>4

(* A turn keeps the window in the frame. *)
LEMMA TurnInside ==
  ASSUME NEW f, IsFrame(f), NEW w, Inside(f, w)
  PROVE  Inside(f, Turn(f, w))
<1> DEFINE t == Tracked(f, w)
<1>1. /\ t \in Walk /\ t.off = w.off /\ t.len = w.len
  BY TrackedType
<1>2. w.off \in Nat /\ w.len \in Nat /\ w.off + w.len = f.len
  BY DEF Inside, Walk
<1>3. Skip(f, w) \in Nat /\ Skip(f, w) <= w.len
  BY SkipInside
<1> HIDE DEF t
<1>4. CASE NextProto(f, w) = "none"
  <2>1. Turn(f, w) = [t EXCEPT !.done = TRUE]
    BY <1>4 DEF Turn, t
  <2> QED  BY <1>1, <1>2, <2>1 DEF Inside, Walk
<1>5. CASE NextProto(f, w) # "none"
  <2>1. Turn(f, w) = [t EXCEPT !.layer = NextProto(f, w),
                               !.off = w.off + Skip(f, w),
                               !.len = w.len - Skip(f, w)]
    BY <1>5 DEF Turn, t
  <2>2. NextProto(f, w) \in Classes
    BY <1>5, NextClass
  <2>3. w.off + Skip(f, w) \in Nat /\ w.len - Skip(f, w) \in Nat
    BY <1>2, <1>3
  <2>4. Turn(f, w) \in Walk
    BY <1>1, <2>1, <2>2, <2>3 DEF Walk
  <2>5. /\ Turn(f, w).off = w.off + Skip(f, w)
        /\ Turn(f, w).len = w.len - Skip(f, w)
    BY <1>1, <2>1 DEF Walk
  <2>6. (w.off + Skip(f, w)) + (w.len - Skip(f, w)) = f.len
    BY <1>2, <1>3
  <2> QED  BY <2>4, <2>5, <2>6 DEF Inside
<1> QED  BY <1>4, <1>5

(* A cleared key has the types of a key. *)
LEMMA Zeros == 0 \in Byte /\ 0 \in Short
<1>1. 0 \in Byte
  BY DEF Byte
<1>2. 0 = 256 * 0 + 0
  OBVIOUS
<1> QED  BY <1>1, <1>2 DEF Short

(* A walk begins with the whole frame. *)
LEMMA StartInside ==
  ASSUME NEW f, IsFrame(f)
  PROVE  Inside(f, Start(f))
BY Zeros DEF IsFrame, Inside, Walk, Start, Classes, Key, ZeroKey

InsideInv == frame \in Frames /\ Inside(frame, walk)

(* Whatever the frames contain, the window stays in the frame and the accessors
   within reach of it. *)
THEOREM WindowSafe == Spec => [](TypeOK /\ WindowInFrame)
<1>1. Init => InsideInv
  BY FramesAssumption, StartInside DEF Init, InsideInv
<1>2. InsideInv /\ [Next]_vars => InsideInv'
  <2> SUFFICES ASSUME InsideInv, [Next]_vars PROVE InsideInv'
    OBVIOUS
  <2>1. CASE \E f \in Frames : Capture(f)
    BY <2>1, FramesAssumption, StartInside DEF Capture, InsideInv
  <2>2. CASE Descend
    BY <2>2, FramesAssumption, TurnInside DEF Descend, InsideInv
  <2>3. CASE UNCHANGED vars
    BY <2>3 DEF vars, InsideInv
  <2> QED  BY <2>1, <2>2, <2>3 DEF Next
<1>3. InsideInv => TypeOK /\ WindowInFrame
  BY DEF InsideInv, Inside, TypeOK, WindowInFrame, Walk
<1> QED  BY <1>1, <1>2, <1>3, PTL DEF Spec

(* The types alone. *)
THEOREM TypeCorrect == Spec => []TypeOK
  BY WindowSafe, PTL

----------------------------------------------------------------------------
(* Where the windows of a complete IPv4 frame begin.                       *)

Begins(f, w) ==
  f.len >= 34 =>
    /\ w.layer \in {"Packet", "Ethernet"} => w.off = 0
    /\ w.layer = "IP" => w.off = 14
    /\ w.layer = "TCP" /\ f.byte[14] \div 16 = 4 =>
         w.off >= 14 /\ w.off <= 14 + 4 * (f.byte[14] % 16)

(* The bits that the mask leaves of a header length make no larger number. *)
LEMMA MaskLowers ==
  ASSUME NEW b \in Byte, b \div 16 = 4
  PROVE  /\ 4 * (Bit(b, 1) + 4 * Bit(b, 4) + 16 * Bit(b, 16)) <= 4 * (b % 16)
         /\ 4 * (Bit(b, 1) + 4 * Bit(b, 4) + 16 * Bit(b, 16)) >= 0
BY DEF Bit, Byte

(* A turn leaves a window where it was or sets it behind the header. *)
LEMMA TurnBegins ==
  ASSUME NEW f, IsFrame(f), NEW w, Inside(f, w), Begins(f, w)
  PROVE  Begins(f, Turn(f, w))
<1> SUFFICES ASSUME f.len >= 34 PROVE Begins(f, Turn(f, w))
  BY DEF Begins
<1> DEFINE t == Tracked(f, w)
<1>1. /\ t \in Walk /\ t.off = w.off /\ t.layer = w.layer
      /\ w.layer \in Classes
  BY TrackedType DEF Inside, Walk
<1>2. w.off \in Nat /\ w.len \in Nat /\ w.off + w.len = f.len /\ f.len \in Nat
  BY DEF Inside, Walk, IsFrame
<1> HIDE DEF t
<1>3. CASE NextProto(f, w) = "none"
  <2>1. Turn(f, w).layer = w.layer /\ Turn(f, w).off = w.off
    BY <1>1, <1>3 DEF Turn, t, Walk
  <2> QED  BY <2>1 DEF Begins
<1>4. CASE NextProto(f, w) # "none"
  <2>1. /\ Turn(f, w).layer = NextProto(f, w)
        /\ Turn(f, w).off = w.off + Skip(f, w)
    <3>1. Turn(f, w) = [t EXCEPT !.layer = NextProto(f, w),
                                 !.off = w.off + Skip(f, w),
                                 !.len = w.len - Skip(f, w)]
      BY <1>4 DEF Turn, t
    <3> QED  BY <1>1, <3>1 DEF Walk
  <2>2. CASE w.layer = "Packet"
    <3>1. Skip(f, w) = 0 /\ NextProto(f, w) = "Ethernet"
      BY <1>2, <2>2 DEF Skip, HeaderLength, NextProto
    <3> QED  BY <1>2, <2>1, <2>2, <3>1 DEF Begins
  <2>3. CASE w.layer = "Ethernet"
    <3>1. w.off = 0 /\ NextProto(f, w) = "IP"
      BY <1>4, <2>3 DEF Begins, NextProto
    <3>2. Skip(f, w) = 14
      BY <1>2, <2>3, <3>1 DEF Skip, HeaderLength
    <3> QED  BY <2>1, <3>1, <3>2 DEF Begins
  <2>4. CASE w.layer = "IP"
    <3>1. w.off = 14 /\ NextProto(f, w) = "TCP"
      BY <1>4, <2>4 DEF Begins, NextProto
    <3>2. f.byte[14] \in Byte /\ xchar(f, 14) = f.byte[14]
      BY <1>2, Accessors DEF xchar, Overread
    <3>3. ASSUME f.byte[14] \div 16 = 4
          PROVE  Skip(f, w) \in Nat /\ Skip(f, w) <= 4 * (f.byte[14] % 16)
      <4>1. Skip(f, w) \in Nat
        BY SkipInside
      <4>2. Skip(f, w) <= HeaderLength(f, w)
        <5>1. HeaderLength(f, w) \in Int
          BY <2>4, <3>1, <3>2 DEF HeaderLength, IPHeaderLength, Bit, Byte
        <5> QED  BY <1>2, <5>1 DEF Skip
      <4>3. HeaderLength(f, w) <= 4 * (f.byte[14] % 16)
        BY <2>4, <3>1, <3>2, <3>3, MaskLowers DEF HeaderLength, IPHeaderLength
      <4>4. HeaderLength(f, w) \in Int
        BY <2>4, <3>1, <3>2 DEF HeaderLength, IPHeaderLength, Bit, Byte
      <4>5. f.byte[14] % 16 \in Int
        BY <3>2 DEF Byte
      <4> QED  BY <4>1, <4>2, <4>3, <4>4, <4>5
    <3>4. f.byte[14] % 16 \in Int
      BY <3>2 DEF Byte
    <3> QED  BY <2>1, <3>1, <3>3, <3>4 DEF Begins
  <2>5. CASE w.layer \notin {"Packet", "Ethernet", "IP"}
    <3>1. NextProto(f, w) \in {"HTTP", "FTP", "OSCAR"}
      BY <1>4, <2>5 DEF NextProto, TCPNext
    <3> QED  BY <2>1, <3>1 DEF Begins
  <2> QED  BY <2>2, <2>3, <2>4, <2>5
<1> QED  BY <1>3, <1>4

(* For every frame, options are never skipped beyond their end. *)
THEOREM HeaderNotLonger == Spec => []HeaderBound
<1> DEFINE I == InsideInv /\ Begins(frame, walk)
<1>1. Init => I
  BY FramesAssumption, StartInside DEF Init, InsideInv, Begins, Start
<1>2. I /\ [Next]_vars => I'
  <2> SUFFICES ASSUME I, [Next]_vars PROVE I'
    OBVIOUS
  <2>1. CASE \E f \in Frames : Capture(f)
    BY <2>1, FramesAssumption, StartInside
       DEF Capture, InsideInv, Begins, Start
  <2>2. CASE Descend
    BY <2>2, FramesAssumption, TurnInside, TurnBegins DEF Descend, InsideInv
  <2>3. CASE UNCHANGED vars
    BY <2>3 DEF vars, InsideInv
  <2> QED  BY <2>1, <2>2, <2>3 DEF Next
<1>3. I => HeaderBound
  BY DEF Begins, HeaderBound, Version4
<1> QED  BY <1>1, <1>2, <1>3, PTL DEF Spec

----------------------------------------------------------------------------
(* What a walk over an IPv4 frame without options knows in each layer.     *)

AddressesAre(f, w) ==
  /\ w.key.saddr = Addresses(f).saddr
  /\ w.key.daddr = Addresses(f).daddr
  /\ w.key.proto = f.byte[23]

PortsAre(w, p, q) == w.key.src_port = p /\ w.key.dst_port = q

IsTCP(f) == f.byte[23] = ProtoTCP

Fresh(w) == w.key = ZeroKey /\ ~w.close_wait /\ ~w.done

AtEthernet(w) == w.layer \in {"Packet", "Ethernet"} => w.off = 0 /\ Fresh(w)

AtIP(f, w) ==
  w.layer = "IP" =>
    IF w.done
    THEN /\ ~IsTCP(f) /\ AddressesAre(f, w)
         /\ PortsAre(w, 0, 0) /\ ~w.close_wait
    ELSE w.off = 14 /\ Fresh(w)

AtTCP(f, w) ==
  w.layer = "TCP" =>
    /\ IsTCP(f) /\ AddressesAre(f, w)
    /\ IF w.done
       THEN PortsAre(w, Word(f, 34), Word(f, 36)) /\ w.close_wait = FinOrRst(f)
       ELSE w.off = 34 /\ ~w.close_wait

AtOSCAR(f, w) ==
  w.layer = "OSCAR" =>
    /\ IsTCP(f) /\ AddressesAre(f, w)
    /\ PortsAre(w, Word(f, 34), Word(f, 36)) /\ w.close_wait = FinOrRst(f)

AtRereader(f, w) ==
  w.layer \in {"HTTP", "FTP"} =>
    /\ IsTCP(f) /\ AddressesAre(f, w)
    /\ Ports(f) \cap (PortsHTTP \cup PortsFTP) # {}
    /\ FinOrRst(f) => w.close_wait

Path(f, w) ==
  IPv4(f) => /\ AtEthernet(w) /\ AtIP(f, w) /\ AtTCP(f, w)
             /\ AtOSCAR(f, w) /\ AtRereader(f, w)

(* The fields of the reference are what the accessors read. *)
LEMMA ReferenceFields ==
  ASSUME NEW f, NEW i
  PROVE  /\ xshort(f, i) = Word(f, i)
         /\ xint(f, i) = 256 * 256 * Word(f, i) + Word(f, i + 2)
BY DEF xint, xshort, xchar, Word

(* A turn that finds a next protocol. *)
LEMMA TurnOn ==
  ASSUME NEW f, IsFrame(f), NEW w, Inside(f, w), NextProto(f, w) # "none"
  PROVE  /\ Turn(f, w).layer = NextProto(f, w)
         /\ Turn(f, w).off = w.off + Skip(f, w)
         /\ Turn(f, w).key = Tracked(f, w).key
         /\ Turn(f, w).close_wait = Tracked(f, w).close_wait
         /\ Turn(f, w).done = w.done
<1> DEFINE t == Tracked(f, w)
<1>1. t \in Walk /\ t.done = w.done
  BY TrackedType
<1>2. Turn(f, w) = [t EXCEPT !.layer = NextProto(f, w),
                             !.off = w.off + Skip(f, w),
                             !.len = w.len - Skip(f, w)]
  BY DEF Turn
<1> HIDE DEF t
<1>3. /\ Turn(f, w).layer = NextProto(f, w)
      /\ Turn(f, w).off = w.off + Skip(f, w)
      /\ Turn(f, w).key = t.key /\ Turn(f, w).close_wait = t.close_wait
      /\ Turn(f, w).done = t.done
  BY <1>1, <1>2 DEF Walk
<1> QED  BY <1>1, <1>3 DEF t

(* A turn that finds none: the walk is done. *)
LEMMA TurnOff ==
  ASSUME NEW f, IsFrame(f), NEW w, Inside(f, w), NextProto(f, w) = "none"
  PROVE  /\ Turn(f, w).layer = w.layer
         /\ Turn(f, w).key = Tracked(f, w).key
         /\ Turn(f, w).close_wait = Tracked(f, w).close_wait
         /\ Turn(f, w).done
<1> DEFINE t == Tracked(f, w)
<1>1. t \in Walk /\ t.layer = w.layer
  BY TrackedType
<1>2. Turn(f, w) = [t EXCEPT !.done = TRUE]
  BY DEF Turn
<1> HIDE DEF t
<1>3. /\ Turn(f, w).layer = t.layer /\ Turn(f, w).done
      /\ Turn(f, w).key = t.key /\ Turn(f, w).close_wait = t.close_wait
  BY <1>1, <1>2 DEF Walk
<1> QED  BY <1>1, <1>3 DEF t

(* The Packet and Ethernet layers of an IPv4 frame. *)
LEMMA TurnEthernet ==
  ASSUME NEW f, IsFrame(f), NEW w, Inside(f, w), Path(f, w), IPv4(f), ~w.done,
         w.layer \in {"Packet", "Ethernet"}
  PROVE  Path(f, Turn(f, w))
<1>1. w.off = 0 /\ w.key = ZeroKey /\ ~w.close_wait
  BY DEF Path, AtEthernet, Fresh
<1>2. Tracked(f, w) = w
  BY DEF Tracked
<1>3. w.len = f.len /\ f.len \in Nat /\ f.len >= 34
  BY <1>1 DEF Inside, Walk, IsFrame, IPv4
<1>4. CASE w.layer = "Packet"
  <2>1. NextProto(f, w) = "Ethernet" /\ HeaderLength(f, w) = 0
    BY <1>4 DEF NextProto, HeaderLength
  <2>2. w.off + Skip(f, w) = 0
    BY <1>1, <1>3, <2>1 DEF Skip
  <2>3. Turn(f, w).layer = "Ethernet" /\ Turn(f, w).off = 0
    BY <2>1, <2>2, TurnOn
  <2>4. Fresh(Turn(f, w))
    BY <1>1, <1>2, <2>1, TurnOn DEF Fresh
  <2> QED  BY <2>3, <2>4 DEF Path, AtEthernet, AtIP, AtTCP, AtOSCAR, AtRereader
<1>5. CASE w.layer = "Ethernet"
  <2>1. xshort(f, w.off + 12) = EtherIP
    BY <1>1, ReferenceFields DEF IPv4
  <2>2. NextProto(f, w) = "IP" /\ HeaderLength(f, w) = 14
    BY <1>5, <2>1 DEF NextProto, HeaderLength
  <2>3. w.off + Skip(f, w) = 14
    BY <1>1, <1>3, <2>2 DEF Skip
  <2>4. Turn(f, w).layer = "IP" /\ Turn(f, w).off = 14
    BY <2>2, <2>3, TurnOn
  <2>5. Fresh(Turn(f, w))
    BY <1>1, <1>2, <2>2, TurnOn DEF Fresh
  <2> QED
    BY <2>4, <2>5 DEF Path, AtEthernet, AtIP, AtTCP, AtOSCAR, AtRereader, Fresh
<1> QED  BY <1>4, <1>5

(* The header of an IPv4 frame without options has five words: the bits that
   the mask keeps are those of 5. *)
LEMMA TwentyBytes ==
  ASSUME NEW f, IPv4(f), NEW w, w.off = 14
  PROVE  IPHeaderLength(f, w) = 20
<1>1. xchar(f, w.off) = 69
  BY DEF IPv4, xchar
<1>2. Bit(69, 1) = 1 /\ Bit(69, 4) = 1 /\ Bit(69, 16) = 0
  BY DEF Bit
<1> QED  BY <1>1, <1>2 DEF IPHeaderLength

(* What IP::make_track() leaves in the key of a fresh walk. *)
LEMMA IPTracks ==
  ASSUME NEW f, NEW w \in Walk, w.off = 14, w.layer = "IP", Fresh(w)
  PROVE  LET t == Tracked(f, w)
         IN  AddressesAre(f, t) /\ PortsAre(t, 0, 0) /\ ~t.close_wait
<1> DEFINE t == Tracked(f, w)
<1>1. /\ xint(f, w.off + 12) = Addresses(f).saddr
      /\ xint(f, w.off + 16) = Addresses(f).daddr
      /\ xchar(f, w.off + 9) = f.byte[23]
  <2>1. w.off + 12 = 26 /\ w.off + 16 = 30 /\ w.off + 9 = 23
    OBVIOUS
  <2>2. 26 + 2 = 28 /\ 30 + 2 = 32
    OBVIOUS
  <2>3. /\ xint(f, 26) = 256 * 256 * Word(f, 26) + Word(f, 28)
        /\ xint(f, 30) = 256 * 256 * Word(f, 30) + Word(f, 32)
    BY <2>2, ReferenceFields
  <2> QED  BY <2>1, <2>3 DEF Addresses, xchar
<1>2. t = [w EXCEPT !.key = [w.key EXCEPT !.saddr = Addresses(f).saddr,
                                          !.daddr = Addresses(f).daddr,
                                          !.proto = f.byte[23]]]
  BY <1>1 DEF Tracked, IPTrack
<1>3. /\ t.key = [w.key EXCEPT !.saddr = Addresses(f).saddr,
                               !.daddr = Addresses(f).daddr,
                               !.proto = f.byte[23]]
      /\ t.close_wait = w.close_wait
  BY <1>2 DEF Walk
<1> HIDE DEF t
<1>4. w.key = ZeroKey /\ ~w.close_wait
  BY DEF Fresh
<1> QED
  BY <1>3, <1>4 DEF t, ZeroKey, AddressesAre, PortsAre

(* The IP layer of an IPv4 frame. *)
LEMMA TurnIP ==
  ASSUME NEW f, IsFrame(f), NEW w, Inside(f, w), Path(f, w), IPv4(f), ~w.done,
         w.layer = "IP"
  PROVE  Path(f, Turn(f, w))
<1> DEFINE t == Tracked(f, w)
<1>1. w.off = 14 /\ Fresh(w) /\ w \in Walk
  BY DEF Path, AtIP, Inside
<1>2. w.len = f.len - 14 /\ f.len \in Nat /\ f.len >= 34
  BY <1>1 DEF Inside, Walk, IsFrame, IPv4
<1>3. AddressesAre(f, t) /\ PortsAre(t, 0, 0) /\ ~t.close_wait
  BY <1>1, IPTracks
<1>4. xchar(f, w.off + 9) = f.byte[23]
  <2>1. w.off + 9 = 23
    BY <1>1
  <2> QED  BY <2>1 DEF xchar
<1> HIDE DEF t
<1>5. CASE IsTCP(f)
  <2>1. NextProto(f, w) = "TCP"
    BY <1>4, <1>5 DEF NextProto, IsTCP
  <2>2. HeaderLength(f, w) = 20
    BY <1>1, TwentyBytes DEF HeaderLength
  <2>3. w.off + Skip(f, w) = 34
    BY <1>1, <1>2, <2>2 DEF Skip
  <2>4. /\ Turn(f, w).layer = "TCP" /\ Turn(f, w).off = 34
        /\ Turn(f, w).key = t.key /\ Turn(f, w).close_wait = t.close_wait
        /\ ~Turn(f, w).done
    BY <2>1, <2>3, TurnOn DEF t
  <2>5. AddressesAre(f, Turn(f, w)) /\ ~Turn(f, w).close_wait
    BY <1>3, <2>4 DEF AddressesAre
  <2> QED
    BY <1>5, <2>4, <2>5
    DEF Path, AtEthernet, AtIP, AtTCP, AtOSCAR, AtRereader
<1>6. CASE ~IsTCP(f)
  <2>1. NextProto(f, w) = "none"
    BY <1>4, <1>6 DEF NextProto, IsTCP
  <2>2. /\ Turn(f, w).layer = "IP" /\ Turn(f, w).done
        /\ Turn(f, w).key = t.key /\ Turn(f, w).close_wait = t.close_wait
    BY <2>1, TurnOff DEF t
  <2>3. /\ AddressesAre(f, Turn(f, w)) /\ PortsAre(Turn(f, w), 0, 0)
        /\ ~Turn(f, w).close_wait
    BY <1>3, <2>2 DEF AddressesAre, PortsAre
  <2> QED
    BY <1>6, <2>2, <2>3
    DEF Path, AtEthernet, AtIP, AtTCP, AtOSCAR, AtRereader
<1> QED  BY <1>5, <1>6

(* What TCP::make_track() leaves in the key, at the TCP header. *)
LEMMA TCPTracks ==
  ASSUME NEW f, NEW w \in Walk, w.off = 34, w.layer = "TCP",
         AddressesAre(f, w), ~w.close_wait
  PROVE  LET t == Tracked(f, w)
         IN  /\ AddressesAre(f, t) /\ PortsAre(t, Word(f, 34), Word(f, 36))
             /\ t.close_wait = FinOrRst(f)
<1> DEFINE t == Tracked(f, w)
<1>1. xshort(f, w.off) = Word(f, 34) /\ xshort(f, w.off + 2) = Word(f, 36)
  <2>1. w.off + 2 = 36
    OBVIOUS
  <2> QED  BY <2>1, ReferenceFields
<1>2. Closing(f, w) = FinOrRst(f)
  <2>1. w.off + 13 = 47
    OBVIOUS
  <2> QED  BY <2>1 DEF Closing, FinOrRst, xchar
<1>3. t = [w EXCEPT !.key = [w.key EXCEPT !.src_port = Word(f, 34),
                                          !.dst_port = Word(f, 36)],
                    !.close_wait = w.close_wait \/ FinOrRst(f)]
  BY <1>1, <1>2 DEF Tracked, TCPTrack
<1>4. /\ t.key = [w.key EXCEPT !.src_port = Word(f, 34),
                               !.dst_port = Word(f, 36)]
      /\ t.close_wait = (w.close_wait \/ FinOrRst(f))
  BY <1>3 DEF Walk
<1>5. w.key \in Key
  BY DEF Walk
<1> HIDE DEF t
<1>6. /\ t.key.saddr = w.key.saddr /\ t.key.daddr = w.key.daddr
      /\ t.key.proto = w.key.proto
      /\ t.key.src_port = Word(f, 34) /\ t.key.dst_port = Word(f, 36)
  BY <1>4, <1>5 DEF Key
<1>7. FinOrRst(f) \in BOOLEAN
  BY DEF FinOrRst
<1>8. t.close_wait = FinOrRst(f)
  BY <1>4, <1>7
<1> QED  BY <1>6, <1>8 DEF t, AddressesAre, PortsAre

(* The TCP layer of an IPv4 frame. *)
LEMMA TurnTCP ==
  ASSUME NEW f, IsFrame(f), NEW w, Inside(f, w), Path(f, w), IPv4(f), ~w.done,
         w.layer = "TCP"
  PROVE  Path(f, Turn(f, w))
<1> DEFINE t == Tracked(f, w)
           n == Turn(f, w)
<1>1. /\ IsTCP(f) /\ AddressesAre(f, w) /\ w.off = 34 /\ ~w.close_wait
      /\ w \in Walk
  BY DEF Path, AtTCP, Inside
<1>2. /\ AddressesAre(f, t) /\ PortsAre(t, Word(f, 34), Word(f, 36))
      /\ t.close_wait = FinOrRst(f)
  BY <1>1, TCPTracks
<1>3. /\ n.key = t.key /\ n.close_wait = t.close_wait
      /\ n.layer = IF NextProto(f, w) = "none" THEN "TCP" ELSE NextProto(f, w)
      /\ n.done = (NextProto(f, w) = "none")
  <2>1. CASE NextProto(f, w) = "none"
    <3>1. n.done \in BOOLEAN
      BY TurnInside DEF Inside, Walk
    <3> QED  BY <2>1, <3>1, TurnOff
  <2>2. CASE NextProto(f, w) # "none"
    <3>1. n.done = FALSE
      BY <2>2, TurnOn, TurnInside DEF Inside, Walk
    <3> QED  BY <2>2, <3>1, TurnOn
  <2> QED  BY <2>1, <2>2
<1>4. /\ NextProto(f, w) \in {"none", "HTTP", "FTP", "OSCAR"}
      /\ NextProto(f, w) \in {"HTTP", "FTP"}
           => Ports(f) \cap (PortsHTTP \cup PortsFTP) # {}
  <2>1. NextProto(f, w) = TCPNext(f, w)
    BY DEF NextProto
  <2>2. \A S : OnPort(f, w, S) => Ports(f) \cap S # {}
    <3>1. xshort(f, w.off) = Word(f, 34) /\ xshort(f, w.off + 2) = Word(f, 36)
      <4>1. w.off + 2 = 36
        BY <1>1
      <4> QED  BY <1>1, <4>1, ReferenceFields
    <3> QED  BY <3>1 DEF OnPort, Ports
  <2>3. /\ TCPNext(f, w) \in {"none", "HTTP", "FTP", "OSCAR"}
        /\ TCPNext(f, w) = "HTTP" => OnPort(f, w, PortsHTTP)
        /\ TCPNext(f, w) = "FTP" => OnPort(f, w, PortsFTP)
    BY DEF TCPNext
  <2> QED  BY <2>1, <2>2, <2>3
<1> HIDE DEF t, n
<1>5. /\ AddressesAre(f, n) /\ PortsAre(n, Word(f, 34), Word(f, 36))
      /\ n.close_wait = FinOrRst(f)
  BY <1>2, <1>3 DEF AddressesAre, PortsAre
<1>6. n.layer \in {"TCP", "HTTP", "FTP", "OSCAR"} /\ (n.layer = "TCP" => n.done)
  BY <1>3, <1>4
<1>7. n.layer \in {"HTTP", "FTP"}
        => Ports(f) \cap (PortsHTTP \cup PortsFTP) # {}
  BY <1>3, <1>4
<1>8. Path(f, n)
  BY <1>1, <1>5, <1>6, <1>7
  DEF Path, AtEthernet, AtIP, AtTCP, AtOSCAR, AtRereader
<1> QED  BY <1>8 DEF n

(* The layers above TCP: OSCAR tracks nothing, HTTP and FTP read ports and
   flags again but keep the addresses and a close that is already known. *)
LEMMA TurnPayload ==
  ASSUME NEW f, IsFrame(f), NEW w, Inside(f, w), Path(f, w), IPv4(f), ~w.done,
         w.layer \in {"HTTP", "FTP", "OSCAR"}
  PROVE  Path(f, Turn(f, w))
<1> DEFINE t == Tracked(f, w)
           n == Turn(f, w)
<1>1. w \in Walk /\ w.key \in Key
  BY DEF Inside, Walk
<1>2. n.key = t.key /\ n.close_wait = t.close_wait /\ n.layer = w.layer
  BY TurnOff DEF NextProto
<1>3. CASE w.layer = "OSCAR"
  <2>1. t = w
    BY <1>3 DEF Tracked
  <2> HIDE DEF t, n
  <2>2. Path(f, n)
    BY <1>2, <1>3, <2>1
    DEF Path, AtEthernet, AtIP, AtTCP, AtOSCAR, AtRereader, AddressesAre,
        PortsAre
  <2> QED  BY <2>2 DEF n
<1>4. CASE w.layer \in {"HTTP", "FTP"}
  <2>1. t = TCPTrack(f, w)
    BY <1>4 DEF Tracked
  <2>2. /\ t.key = [w.key EXCEPT !.src_port = xshort(f, w.off),
                                 !.dst_port = xshort(f, w.off + 2)]
        /\ t.close_wait = (w.close_wait \/ Closing(f, w))
    BY <1>1, <2>1 DEF TCPTrack, Walk
  <2> HIDE DEF t, n
  <2>3. /\ t.key.saddr = w.key.saddr /\ t.key.daddr = w.key.daddr
        /\ t.key.proto = w.key.proto
    BY <1>1, <2>2 DEF Key
  <2>4. w.close_wait => n.close_wait
    BY <1>2, <2>2
  <2>5. AddressesAre(f, w) => AddressesAre(f, n)
    BY <1>2, <2>3 DEF AddressesAre
  <2>6. Path(f, n)
    BY <1>2, <1>4, <2>4, <2>5
    DEF Path, AtEthernet, AtIP, AtTCP, AtOSCAR, AtRereader
  <2> QED  BY <2>6 DEF n
<1> QED  BY <1>3, <1>4

(* Every turn. *)
LEMMA TurnPath ==
  ASSUME NEW f, IsFrame(f), NEW w, Inside(f, w), Path(f, w), ~w.done
  PROVE  Path(f, Turn(f, w))
<1>1. CASE ~IPv4(f)
  BY <1>1 DEF Path
<1>2. w.layer \in Classes
  BY DEF Inside, Walk
<1>3. CASE IPv4(f)
  BY <1>2, <1>3, TurnEthernet, TurnIP, TurnTCP, TurnPayload DEF Classes
<1> QED  BY <1>1, <1>3

(* The first layer. *)
LEMMA StartPath ==
  ASSUME NEW f
  PROVE  Path(f, Start(f))
BY DEF Path, Start, Fresh, AtEthernet, AtIP, AtTCP, AtOSCAR, AtRereader

PathInv == InsideInv /\ Path(frame, walk)

(* The invariant of every walk: it is inside its frame and knows what the
   layers it has passed say. *)
LEMMA PathHolds == Spec => []PathInv
<1>1. Init => PathInv
  BY FramesAssumption, StartInside, StartPath DEF Init, InsideInv, PathInv
<1>2. PathInv /\ [Next]_vars => PathInv'
  <2> SUFFICES ASSUME PathInv, [Next]_vars PROVE PathInv'
    OBVIOUS
  <2>1. CASE \E f \in Frames : Capture(f)
    BY <2>1, FramesAssumption, StartInside, StartPath
    DEF Capture, InsideInv, PathInv
  <2>2. CASE Descend
    BY <2>2, FramesAssumption, TurnInside, TurnPath
    DEF Descend, InsideInv, PathInv
  <2>3. CASE UNCHANGED vars
    BY <2>3 DEF vars, InsideInv, PathInv
  <2> QED  BY <2>1, <2>2, <2>3 DEF Next
<1> QED  BY <1>1, <1>2, PTL DEF Spec

(* A finished walk over a plain packet has found the reference. *)
LEMMA PlainPath ==
  ASSUME NEW f, NEW w, Inside(f, w), Path(f, w), w.done, Plain(f)
  PROVE  /\ w.key = Reference(f).key
         /\ w.close_wait = Reference(f).close_wait
<1>1. /\ w.layer \in Classes /\ w.key \in Key /\ w.close_wait \in BOOLEAN
      /\ IPv4(f)
  BY DEF Inside, Walk, Plain
<1>2. /\ AddressesAre(f, w)
      /\ \/ ~IsTCP(f) /\ PortsAre(w, 0, 0) /\ ~w.close_wait
         \/ /\ IsTCP(f) /\ w.close_wait = FinOrRst(f)
            /\ PortsAre(w, Word(f, 34), Word(f, 36))
  <2>1. w.layer \notin {"Packet", "Ethernet"}
    BY <1>1 DEF Path, AtEthernet, Fresh
  <2>2. w.layer \notin {"HTTP", "FTP"}
    BY <1>1 DEF Path, AtRereader, Plain, Rereads, IsTCP
  <2>3. w.layer \in {"IP", "TCP", "OSCAR"}
    BY <1>1, <2>1, <2>2 DEF Classes
  <2> QED  BY <1>1, <2>3 DEF Path, AtIP, AtTCP, AtOSCAR
<1>3. TCPSegment(f) = IsTCP(f)
  BY DEF Plain, TCPSegment, IsTCP
<1>4. /\ w.close_wait = Reference(f).close_wait
      /\ w.key.src_port = Reference(f).key.src_port
      /\ w.key.dst_port = Reference(f).key.dst_port
  BY <1>1, <1>2, <1>3 DEF PortsAre, Reference, FinOrRst
<1>5. /\ w.key.saddr = Reference(f).key.saddr
      /\ w.key.daddr = Reference(f).key.daddr
      /\ w.key.proto = Reference(f).key.proto
  BY <1>2 DEF AddressesAre, Reference
<1> QED  BY <1>1, <1>4, <1>5 DEF Key, Reference

(* A plain packet is tracked under what its headers say, whatever came before
   it. *)
THEOREM PlainCorrect == Spec => []PlainRight
<1>1. PathInv => PlainRight
  BY PlainPath DEF PathInv, InsideInv, PlainRight
<1> QED  BY <1>1, PathHolds, PTL

(* Addresses and protocol survive the classes that read the payload. *)
THEOREM AddressesCorrect == Spec => []AddressesRight
<1>1. PathInv => AddressesRight
  <2> SUFFICES ASSUME PathInv, walk.done, IPv4(frame)
               PROVE  AddressesAre(frame, walk)
    BY DEF AddressesRight, AddressesAre, Addresses
  <2>1. walk.layer \in Classes
    BY DEF PathInv, InsideInv, Inside, Walk
  <2> QED
    BY <2>1
    DEF PathInv, Path, Classes, AtEthernet, AtIP, AtTCP, AtOSCAR, AtRereader,
        Fresh
<1> QED  BY <1>1, PathHolds, PTL

(* So does a FIN or RST. *)
THEOREM CloseCorrect == Spec => []CloseKept
<1>1. PathInv => CloseKept
  <2> SUFFICES ASSUME PathInv, walk.done, TCPSegment(frame), FinOrRst(frame)
               PROVE  walk.close_wait
    BY DEF CloseKept
  <2>1. walk.layer \in Classes /\ IPv4(frame) /\ IsTCP(frame)
    BY DEF PathInv, InsideInv, Inside, Walk, TCPSegment, IsTCP
  <2> QED
    BY <2>1
    DEF PathInv, Path, Classes, AtEthernet, AtIP, AtTCP, AtOSCAR, AtRereader,
        Fresh
<1> QED  BY <1>1, PathHolds, PTL

----------------------------------------------------------------------------
(* The packet that goes back.                                              *)

(* Its fields are the exchanged fields. *)
LEMMA Mirrored ==
  ASSUME NEW f, IsFrame(f), IPv4(f)
  PROVE  /\ IsFrame(Mirror(f)) /\ Mirror(f).len = f.len
         /\ \A i \in 0..25 : Mirror(f).byte[i] = f.byte[i]
         /\ Word(Mirror(f), 26) = Word(f, 30)
         /\ Word(Mirror(f), 28) = Word(f, 32)
         /\ Word(Mirror(f), 30) = Word(f, 26)
         /\ Word(Mirror(f), 32) = Word(f, 28)
         /\ Word(Mirror(f), 34) = Word(f, 36)
         /\ Word(Mirror(f), 36) = Word(f, 34)
<1> DEFINE D == 0..(f.len + Overread - 1)
           b == Mirror(f).byte
<1>1. /\ f.len \in Nat /\ f.len >= 34
      /\ DOMAIN f.byte = D /\ f.byte \in [D -> Byte]
  BY DEF IsFrame, IPv4
<1>2. 0..53 \subseteq D
  <2>1. f.len + Overread - 1 \in Int /\ f.len + Overread - 1 >= 53
    BY <1>1 DEF Overread
  <2>2. \A n \in Int : n >= 53 => 0..53 \subseteq 0..n
    OBVIOUS
  <2> QED  BY <2>1, <2>2
<1>3. \A i \in D : MirrorAt(i) \in D
  <2> SUFFICES ASSUME NEW i \in D PROVE MirrorAt(i) \in D
    OBVIOUS
  <2>1. i \in Int
    OBVIOUS
  <2>2. CASE i \in 26..37
    <3>1. MirrorAt(i) \in 0..53
      BY <2>2 DEF MirrorAt
    <3> QED  BY <3>1, <1>2
  <2>3. CASE i \notin 26..37
    BY <2>1, <2>3 DEF MirrorAt
  <2> QED  BY <2>2, <2>3
<1>4. b = [i \in D |-> f.byte[MirrorAt(i)]]
  BY <1>1 DEF Mirror
<1> HIDE DEF b, D
<1>5. b \in [D -> Byte]
  BY <1>1, <1>3, <1>4
<1>6. Mirror(f).len = f.len
  BY DEF Mirror
<1>7. IsFrame(Mirror(f))
  BY <1>1, <1>5, <1>6 DEF IsFrame, b, D
<1>8. \A i \in 0..53 : b[i] = f.byte[MirrorAt(i)]
  BY <1>2, <1>4
<1>9. \A i \in 0..25 : b[i] = f.byte[i]
  <2> SUFFICES ASSUME NEW i \in 0..25 PROVE b[i] = f.byte[i]
    OBVIOUS
  <2>1. i \in 0..53 /\ MirrorAt(i) = i
    BY DEF MirrorAt
  <2> QED  BY <1>8, <2>1
<1>10. /\ b[26] = f.byte[30] /\ b[27] = f.byte[31]
       /\ b[28] = f.byte[32] /\ b[29] = f.byte[33]
  <2>1. /\ MirrorAt(26) = 30 /\ MirrorAt(27) = 31
        /\ MirrorAt(28) = 32 /\ MirrorAt(29) = 33
    BY DEF MirrorAt
  <2> QED  BY <1>8, <2>1
<1>11. /\ b[30] = f.byte[26] /\ b[31] = f.byte[27]
       /\ b[32] = f.byte[28] /\ b[33] = f.byte[29]
  <2>1. /\ MirrorAt(30) = 26 /\ MirrorAt(31) = 27
        /\ MirrorAt(32) = 28 /\ MirrorAt(33) = 29
    BY DEF MirrorAt
  <2> QED  BY <1>8, <2>1
<1>12. /\ b[34] = f.byte[36] /\ b[35] = f.byte[37]
       /\ b[36] = f.byte[34] /\ b[37] = f.byte[35]
  <2>1. /\ MirrorAt(34) = 36 /\ MirrorAt(35) = 37
        /\ MirrorAt(36) = 34 /\ MirrorAt(37) = 35
    BY DEF MirrorAt
  <2> QED  BY <1>8, <2>1
<1>13. \A g, i : Word(g, i) = 256 * g.byte[i] + g.byte[i + 1]
  BY DEF Word
<1> QED  BY <1>6, <1>7, <1>9, <1>10, <1>11, <1>12, <1>13 DEF b

(* Its reference is the mirrored reference, and it is plain as well. *)
LEMMA MirrorReference ==
  ASSUME NEW f, IsFrame(f), Plain(f)
  PROVE  LET g == Mirror(f)
         IN  /\ Plain(g)
             /\ Reference(g).key.saddr = Reference(f).key.daddr
             /\ Reference(g).key.daddr = Reference(f).key.saddr
             /\ Reference(g).key.src_port = Reference(f).key.dst_port
             /\ Reference(g).key.dst_port = Reference(f).key.src_port
             /\ Reference(g).key.proto = Reference(f).key.proto
<1> DEFINE g == Mirror(f)
<1>1. IPv4(f)
  BY DEF Plain
<1>2. /\ g.len = f.len /\ \A i \in 0..25 : g.byte[i] = f.byte[i]
      /\ Word(g, 26) = Word(f, 30) /\ Word(g, 28) = Word(f, 32)
      /\ Word(g, 30) = Word(f, 26) /\ Word(g, 32) = Word(f, 28)
      /\ Word(g, 34) = Word(f, 36) /\ Word(g, 36) = Word(f, 34)
  BY <1>1, Mirrored
<1> HIDE DEF g
<1>3. /\ g.byte[12] = f.byte[12] /\ g.byte[13] = f.byte[13]
      /\ g.byte[14] = f.byte[14] /\ g.byte[23] = f.byte[23]
  BY <1>2
<1>4. Word(g, 12) = Word(f, 12)
  BY <1>3 DEF Word
<1>5. IPv4(g) /\ (TCPSegment(g) <=> TCPSegment(f)) /\ Ports(g) = Ports(f)
  BY <1>1, <1>2, <1>3, <1>4 DEF IPv4, TCPSegment, Ports
<1>6. Plain(g)
  BY <1>3, <1>5 DEF Plain, Rereads
<1>7. /\ Addresses(g).saddr = Addresses(f).daddr
      /\ Addresses(g).daddr = Addresses(f).saddr
  BY <1>2 DEF Addresses
<1> QED  BY <1>2, <1>3, <1>5, <1>6, <1>7 DEF Reference, g

(* The layers that a walk may be in after some turns. *)
Below(f, w, S) == Inside(f, w) /\ Path(f, w) /\ (w.done \/ w.layer \in S)

Payload == {"HTTP", "FTP", "OSCAR"}

(* Each turn ends the walk or leaves the layer for a higher one. *)
LEMMA GoUp ==
  ASSUME NEW f, IsFrame(f), NEW w
  PROVE  /\ Below(f, w, {"Packet"}) => Below(f, Go(f, w), {"Ethernet"})
         /\ Below(f, w, {"Ethernet"}) => Below(f, Go(f, w), {"IP"})
         /\ Below(f, w, {"IP"}) => Below(f, Go(f, w), {"TCP"})
         /\ Below(f, w, {"TCP"}) => Below(f, Go(f, w), Payload)
         /\ Below(f, w, Payload) => Below(f, Go(f, w), {})
<1>1. CASE w.done
  BY <1>1 DEF Below, Go
<1>2. CASE ~w.done
  <2> SUFFICES ASSUME Inside(f, w), Path(f, w)
               PROVE  LET t == Turn(f, w)
                      IN  /\ w.layer = "Packet" => t.done \/ t.layer = "Ethernet"
                          /\ w.layer = "Ethernet" => t.done \/ t.layer = "IP"
                          /\ w.layer = "IP" => t.done \/ t.layer = "TCP"
                          /\ w.layer = "TCP" => t.done \/ t.layer \in Payload
                          /\ w.layer \in Payload => t.done
    BY <1>2, TurnInside, TurnPath DEF Below, Go
  <2>1. CASE NextProto(f, w) = "none"
    BY <2>1, TurnOff
  <2>2. CASE NextProto(f, w) # "none"
    <3>1. Turn(f, w).layer = NextProto(f, w)
      BY <2>2, TurnOn
    <3> QED  BY <2>2, <3>1 DEF NextProto, TCPNext, Payload
  <2> QED  BY <2>1, <2>2
<1> QED  BY <1>1, <1>2

(* Five turns are enough. *)
LEMMA ResultDone ==
  ASSUME NEW f, IsFrame(f)
  PROVE  Inside(f, Result(f)) /\ Path(f, Result(f)) /\ Result(f).done
<1> DEFINE w1 == Go(f, Start(f))
           w2 == Go(f, w1)
           w3 == Go(f, w2)
           w4 == Go(f, w3)
           w5 == Go(f, w4)
<1>1. Start(f).layer = "Packet"
  BY DEF Start
<1>2. Below(f, Start(f), {"Packet"})
  BY <1>1, StartInside, StartPath DEF Below
<1>3. Below(f, w1, {"Ethernet"})
  BY <1>2, GoUp
<1> HIDE DEF w1
<1>4. Below(f, w2, {"IP"})
  BY <1>3, GoUp
<1> HIDE DEF w2
<1>5. Below(f, w3, {"TCP"})
  BY <1>4, GoUp
<1> HIDE DEF w3
<1>6. Below(f, w4, Payload)
  BY <1>5, GoUp
<1> HIDE DEF w4
<1>7. Below(f, w5, {})
  BY <1>6, GoUp
<1> QED  BY <1>7 DEF Below, Result, w1, w2, w3, w4

(* The two directions of every plain flow have keys that mirror one another:
   the map of connections finds one entry for both. *)
THEOREM MirrorCorrect == Spec => []MirrorKeys
<1>1. PathInv => MirrorKeys
  <2> SUFFICES ASSUME PathInv, walk.done, Plain(frame)
               PROVE  LET back == Result(Mirror(frame))
                      IN  /\ back.done
                          /\ back.key.saddr = walk.key.daddr
                          /\ back.key.daddr = walk.key.saddr
                          /\ back.key.src_port = walk.key.dst_port
                          /\ back.key.dst_port = walk.key.src_port
                          /\ back.key.proto = walk.key.proto
    BY DEF MirrorKeys
  <2> DEFINE g == Mirror(frame)
             back == Result(g)
  <2>1. IsFrame(frame) /\ Inside(frame, walk) /\ Path(frame, walk)
    BY FramesAssumption DEF PathInv, InsideInv
  <2>2. IsFrame(g) /\ Plain(g)
    BY <2>1, Mirrored, MirrorReference DEF Plain
  <2> HIDE DEF g
  <2>3. Inside(g, back) /\ Path(g, back) /\ back.done
    BY <2>2, ResultDone
  <2> HIDE DEF back
  <2>4. back.key = Reference(g).key /\ walk.key = Reference(frame).key
    BY <2>1, <2>2, <2>3, PlainPath
  <2> QED  BY <2>1, <2>3, <2>4, MirrorReference DEF back, g
<1> QED  BY <1>1, PathHolds, PTL

(* How many turns a walk can have ahead, whatever its frame contains. *)
TurnsLeft(w) ==
  CASE w.done -> 0
    [] ~w.done /\ w.layer = "Packet" -> 5
    [] ~w.done /\ w.layer = "Ethernet" -> 4
    [] ~w.done /\ w.layer = "IP" -> 3
    [] ~w.done /\ w.layer = "TCP" -> 2
    [] OTHER -> 1

(* A turn leaves fewer ahead. *)
WalkGetsOn == ~walk.done => TurnsLeft(walk') \in 0..(TurnsLeft(walk) - 1)

(* The Listener's inner loop has no bound of its own, but a class never hands on
   to one before it: this is the measure by which WalkEnds holds. *)
THEOREM WalksGetOn == Spec => [][WalkGetsOn]_vars
<1>1. ASSUME PathInv, Descend PROVE WalkGetsOn
  <2>1. IsFrame(frame) /\ Inside(frame, walk) /\ Path(frame, walk)
    BY <1>1, FramesAssumption DEF PathInv, InsideInv
  <2>2. walk' = Go(frame, walk) /\ ~walk.done
    BY <1>1 DEF Descend, Go
  <2>3. /\ walk.layer = "Packet" => walk'.done \/ walk'.layer = "Ethernet"
        /\ walk.layer = "Ethernet" => walk'.done \/ walk'.layer = "IP"
        /\ walk.layer = "IP" => walk'.done \/ walk'.layer = "TCP"
        /\ walk.layer = "TCP" => walk'.done \/ walk'.layer \in Payload
        /\ walk.layer \in Payload => walk'.done
    BY <2>1, <2>2, GoUp DEF Below
  <2>4. walk.layer \in {"Packet", "Ethernet", "IP", "TCP"} \cup Payload
    BY <2>1 DEF Inside, Walk, Classes, Payload
  <2>5. CASE walk.layer = "Packet"
    BY <2>2, <2>3, <2>5 DEF WalkGetsOn, TurnsLeft
  <2>6. CASE walk.layer = "Ethernet"
    BY <2>2, <2>3, <2>6 DEF WalkGetsOn, TurnsLeft
  <2>7. CASE walk.layer = "IP"
    BY <2>2, <2>3, <2>7 DEF WalkGetsOn, TurnsLeft
  <2>8. CASE walk.layer = "TCP"
    BY <2>2, <2>3, <2>8 DEF WalkGetsOn, TurnsLeft, Payload
  <2>9. CASE walk.layer \in Payload
    BY <2>2, <2>3, <2>9 DEF WalkGetsOn, TurnsLeft, Payload
  <2> QED  BY <2>4, <2>5, <2>6, <2>7, <2>8, <2>9
<1>2. PathInv /\ [Next]_vars => [WalkGetsOn]_vars
  BY <1>1 DEF Next, Capture, WalkGetsOn
<1> QED  BY <1>2, PathHolds, PTL DEF Spec
=============================================================================
