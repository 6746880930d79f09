---------------------------- MODULE OscarProofs -----------------------------
(* Proofs about the message parser, for payloads of any size and any values of
   their fields: the cursor stays inside, the fragments are counted, and every
   step gets on. *)
EXTENDS Oscar, TLAPS

(* d is a cursor over the same payload as c, and not before it. *)
Behind(c, d) ==
  d \in Cursor /\ d.pos + d.left = c.pos + c.left /\ d.left <= c.left

(* A reader moves the cursor by n, or not at all. *)
LEMMA TakeBehind ==
  ASSUME NEW c \in Cursor, NEW n \in Nat
  PROVE  /\ Take(c, n) \in Cursor /\ Behind(c, Take(c, n))
         /\ n <= c.left => Take(c, n).left = c.left - n
         /\ c.left < n => Take(c, n) = c
         /\ Take(c, 0) = c
BY DEF Take, Cursor, Behind

(* So does string(). *)
LEMMA StringBehind ==
  ASSUME NEW c \in Cursor, NEW n \in Int
  PROVE  /\ String(c, n) \in Cursor /\ Behind(c, String(c, n))
         /\ String(c, 0) = c
<1>1. CASE n < 0
  BY <1>1, TakeBehind DEF String, Behind, Cursor
<1>2. CASE n >= 0
  BY <1>2, TakeBehind DEF String
<1> QED  BY <1>1, <1>2

(* One reader after another. *)
LEMMA BehindTransitive ==
  ASSUME NEW c \in Cursor, NEW d, NEW e, Behind(c, d), Behind(d, e)
  PROVE  Behind(c, e)
BY DEF Behind, Cursor

(* The limits of an unsigned short. *)
LEMMA Limits ==
  /\ Width \in Nat /\ Width > 16 /\ Short \subseteq Nat /\ 0 \in Short
  /\ \A n \in Short : n < Width
  /\ Capabilities # 0
BY DEF Width, Short, Capabilities

(* Counting down in an unsigned short. *)
LEMMA Modulo ==
  ASSUME NEW n \in Int
  PROVE  /\ n % Width \in Short
         /\ n \in Short => n % Width = n
         /\ \A k \in Int : ((n % Width) - k) % Width = (n - k) % Width
<1>1. n % Width \in Short
  <2>1. \A w \in Nat \ {0} : n % w \in 0..(w - 1)
    OBVIOUS
  <2> QED  BY <2>1, Limits DEF Short
<1>2. n \in Short => n % Width = n
  <2>1. \A w \in Nat : 0 <= n /\ n < w => n % w = n
    OBVIOUS
  <2>2. n \in Short => 0 <= n /\ n < Width
    BY Limits DEF Short
  <2> QED  BY <2>1, <2>2, Limits
<1>3. ASSUME NEW k \in Int
      PROVE  ((n % Width) - k) % Width = (n - k) % Width
  BY DEF Width
<1> QED  BY <1>1, <1>2, <1>3

(* A field is a number that fits. *)
LEMMA GotShort ==
  ASSUME NEW c, NEW n, NEW S, S \subseteq Short, NEW v \in Got(c, n, S)
  PROVE  v \in Short /\ v \in Nat
BY Limits DEF Got

----------------------------------------------------------------------------
(* The bound of Receive holds during the parse. *)
Room == loc # "idle" => messages < MaxMessages

Inv == TypeOK /\ WindowKept /\ FragmentsCounted /\ Room

(* What every step keeps, and what it gets on. *)
Kept == Inv' /\ (vars' = vars \/ Rank' < Rank)

(* How deep the locations are. *)
LEMMA Depths ==
  /\ \A l \in Locations : Depth[l] \in Nat
  /\ \A l \in Locations \ {"idle"} : Depth[l] > 0
BY Limits DEF Locations, Depth

(* Fewer or as many bytes, and less depth. *)
LEMMA Lower ==
  ASSUME NEW a \in Nat, NEW b \in Nat, a <= b,
         NEW d \in Nat, NEW e \in Nat, NEW m \in Nat, NEW n \in Nat,
         d + m < e + n \/ (a < b /\ d + m < e + n + 16)
  PROVE  16 * a + d + m < 16 * b + e + n
OBVIOUS

(* A return leaves nothing to be done. *)
LEMMA ReturnKept ==
  ASSUME Inv, loc \notin {"idle"} \cup InSub, Behind(cur, cur'),
         NEW got \in BOOLEAN, Return(got)
  PROVE  Kept
<1>1. /\ cur \in Cursor /\ cur' \in Cursor /\ cur'.left <= cur.left
      /\ cur'.pos + cur'.left = size
  BY DEF Inv, TypeOK, WindowKept, Behind
<1>2. Inv'
  <2>1. messages' \in 0..MaxMessages
    BY OscarAssumption DEF Inv, TypeOK, Room, Return
  <2>2. sub' \in [at: Cursor, l1: Short] /\ 0 \in Short
    BY Limits DEF Return, NoSub, Nowhere, Cursor
  <2>3. TypeOK'
    BY <1>1, <2>1, <2>2 DEF Inv, TypeOK, Return, Locations
  <2>4. WindowKept'
    BY <1>1 DEF WindowKept, Return, Cursor, InSub
  <2>5. FragmentsCounted' /\ Room'
    BY DEF FragmentsCounted, Room, Return
  <2> QED  BY <2>3, <2>4, <2>5 DEF Inv
<1>3. Rank' < Rank
  <2>1. Depth[loc] > 0 /\ Depth[loc] \in Nat
    BY Depths DEF Inv, TypeOK
  <2>2. loc' = "idle" /\ count' = 0 /\ count \in Nat
    BY Limits DEF Inv, TypeOK, Return
  <2>3. Ahead' = cur'.left /\ Ahead = cur.left
    BY <2>2 DEF Ahead, InSub
  <2>4. Depth["idle"] = 0
    BY DEF Depth
  <2>5. cur.left \in Nat /\ cur'.left \in Nat
    BY <1>1 DEF Cursor
  <2> QED  BY <1>1, <2>1, <2>2, <2>3, <2>4, <2>5, Lower DEF Rank
<1> QED  BY <1>2, <1>3 DEF Kept

(* How far a step gets. *)
Lowers ==
  /\ Ahead' <= Ahead
  /\ \/ Depth[loc'] + count' < Depth[loc] + count
     \/ Ahead' < Ahead /\ Depth[loc'] + count' < Depth[loc] + count + 16

(* A step inside parse(). *)
LEMMA StepKept ==
  ASSUME Inv, TypeOK', Lowers, FragmentsCounted', loc # "idle",
         cur'.pos + cur'.left = size, UNCHANGED <<size, messages>>,
         loc' \in InSub => sub'.at.pos + sub'.at.left = size
  PROVE  Kept
<1>1. WindowKept' /\ Room'
  BY DEF WindowKept, Room, TypeOK, Cursor, Inv
<1>2. Inv'
  BY <1>1 DEF Inv
<1>3. Rank' < Rank
  <2>1. Depth[loc] \in Nat /\ Depth[loc'] \in Nat
    BY Depths DEF Inv, TypeOK
  <2>2. count \in Nat /\ count' \in Nat
    BY Limits DEF Inv, TypeOK
  <2>3. Ahead \in Nat /\ Ahead' \in Nat
    BY DEF Ahead, Inv, TypeOK, Cursor
  <2> QED  BY <2>1, <2>2, <2>3, Lower DEF Lowers, Rank
<1> QED  BY <1>2, <1>3 DEF Kept

(* A step that stays outside the sub-TLVs and reads. *)
LEMMA ReadKept ==
  ASSUME Inv, TypeOK', Behind(cur, cur'), FragmentsCounted',
         loc \notin {"idle"} \cup InSub, loc' \notin InSub,
         UNCHANGED <<size, messages>>,
         \/ Depth[loc'] + count' < Depth[loc] + count
         \/ /\ cur'.left < cur.left
            /\ Depth[loc'] + count' < Depth[loc] + count + 16
  PROVE  Kept
<1>1. Ahead = cur.left /\ Ahead' = cur'.left
  BY DEF Ahead
<1>2. cur'.pos + cur'.left = size /\ cur'.left <= cur.left
  BY DEF Inv, WindowKept, Behind
<1> QED  BY <1>1, <1>2, StepKept DEF Lowers

(* Two readers, three, or four. *)
LEMMA TakesBehind ==
  ASSUME NEW c \in Cursor, NEW k \in Nat, NEW l \in Nat, NEW m \in Nat,
         NEW n \in Nat
  PROVE  /\ Behind(c, c) /\ Behind(c, Take(c, k))
         /\ Behind(c, Take(Take(c, k), l))
         /\ Behind(c, Take(Take(Take(c, k), l), m))
         /\ Behind(c, Take(Take(Take(Take(c, k), l), m), n))
<1>1. Behind(c, c)
  BY DEF Behind, Cursor
<1>2. \A d : Behind(c, d) => d \in Cursor
  BY DEF Behind
<1>3. ASSUME NEW d, Behind(c, d), NEW i \in Nat
      PROVE  Behind(c, Take(d, i))
  BY <1>2, <1>3, TakeBehind, BehindTransitive
<1>4. Behind(c, Take(c, k))
  BY TakeBehind
<1>5. Behind(c, Take(Take(c, k), l))
  BY <1>3, <1>4
<1>6. Behind(c, Take(Take(Take(c, k), l), m))
  BY <1>3, <1>5
<1>7. Behind(c, Take(Take(Take(Take(c, k), l), m), n))
  BY <1>3, <1>6
<1> QED  BY <1>1, <1>4, <1>5, <1>6, <1>7

(* The beginning of a message. *)
LEMMA FlapKept ==
  ASSUME Inv, Flap
  PROVE  Kept
<1>1. cur \in Cursor /\ loc = "flap"
  BY DEF Inv, TypeOK, Flap
<1>2. Behind(cur, cur')
  BY <1>1, TakesBehind DEF Flap
<1>3. CASE Return(FALSE)
  BY <1>1, <1>2, <1>3, ReturnKept DEF InSub
<1>4. CASE loc' = "snac" /\ UNCHANGED <<size, locals, messages>>
  <2>1. cur' \in Cursor
    BY <1>2 DEF Behind
  <2>2. TypeOK' /\ FragmentsCounted'
    BY <1>4, <2>1 DEF Inv, TypeOK, FragmentsCounted, locals, Locations
  <2>3. count \in Nat /\ count' = count
    BY <1>4, Limits DEF Inv, TypeOK, locals
  <2>4. Depth["flap"] = Width + 18 /\ Depth["snac"] = Width + 17
    BY DEF Depth
  <2> QED
    BY <1>1, <1>2, <1>4, <2>2, <2>3, <2>4, Limits, ReadKept DEF InSub
<1> QED  BY <1>3, <1>4 DEF Flap

(* Family and subtype. *)
LEMMA SnacKept ==
  ASSUME Inv, Snac
  PROVE  Kept
<1>1. cur \in Cursor /\ loc = "snac"
  BY DEF Inv, TypeOK, Snac
<1>2. Behind(cur, cur')
  BY <1>1, TakesBehind DEF Snac
<1>3. CASE Return(FALSE)
  BY <1>1, <1>2, <1>3, ReturnKept DEF InSub
<1>4. CASE loc' \in {"s6", "s7"} /\ UNCHANGED <<size, locals, messages>>
  <2>1. cur' \in Cursor
    BY <1>2 DEF Behind
  <2>2. TypeOK' /\ FragmentsCounted'
    BY <1>4, <2>1 DEF Inv, TypeOK, FragmentsCounted, locals, Locations
  <2>3. count \in Nat /\ count' = count
    BY <1>4, Limits DEF Inv, TypeOK, locals
  <2>4. Depth["snac"] = Width + 17 /\ Depth[loc'] = Width + 16
    BY <1>4 DEF Depth
  <2> QED
    BY <1>1, <1>2, <1>4, <2>2, <2>3, <2>4, Limits, ReadKept DEF InSub
<1> QED  BY <1>3, <1>4 DEF Snac

(* The switch over the channels. *)
LEMMA ReadOnKept ==
  ASSUME Inv, Behind(cur, cur'), loc \in {"s6", "block"},
         NEW n \in {0, 1, 2}, ReadOn(n)
  PROVE  Kept
<1>1. CASE Return(FALSE)
  BY <1>1, ReturnKept DEF InSub
<1>2. CASE Channel(n) # "idle"
  <2>1. /\ loc' \in {"tlv1", "tlv2"} /\ chan' = 0 /\ count' = 0
        /\ UNCHANGED <<size, len, sav, sub, text, messages, claim>>
    BY <1>2 DEF ReadOn, Channel, Return
  <2>2. cur' \in Cursor
    BY DEF Behind
  <2>3. TypeOK' /\ FragmentsCounted'
    BY <2>1, <2>2, Limits DEF Inv, TypeOK, FragmentsCounted, Locations
  <2>4. Depth[loc'] = 1 /\ Depth[loc] > 1 /\ Depth[loc] \in Nat
    BY <2>1, Limits DEF Depth
  <2>5. count \in Nat
    BY Limits DEF Inv, TypeOK
  <2>6. Depth[loc'] + count' < Depth[loc] + count
    BY <2>1, <2>4, <2>5
  <2> QED  BY <2>1, <2>3, <2>6, ReadKept DEF InSub
<1> QED  BY <1>1, <1>2 DEF ReadOn

(* A message to a server. *)
LEMMA SentKept ==
  ASSUME Inv, SentMessage
  PROVE  Kept
<1> DEFINE c == Take(Take(cur, 4), 4)
           d == Take(c, 2)
<1>1. cur \in Cursor /\ loc = "s6"
  BY DEF Inv, TypeOK, SentMessage
<1>2. Behind(cur, Take(d, 1))
  BY <1>1, TakesBehind
<1>3. PICK n \in Got(c, 2, {0, 1, 2}), uin \in Got(d, 1, Lengths \cap 0..255) :
        cur' = String(Take(d, 1), uin) /\ ReadOn(n)
  BY DEF SentMessage
<1>4. n \in {0, 1, 2} /\ uin \in Int
  BY <1>3 DEF Got
<1> HIDE DEF d
<1>5. Take(d, 1) \in Cursor
  BY <1>2 DEF Behind
<1>6. Behind(Take(d, 1), cur')
  BY <1>3, <1>4, <1>5, StringBehind
<1>7. Behind(cur, cur')
  BY <1>1, <1>2, <1>6, BehindTransitive
<1> QED  BY <1>1, <1>3, <1>4, <1>7, ReadOnKept

(* A message from a server: the counter is added to the depth. *)
LEMMA ReceivedKept ==
  ASSUME Inv, ReceivedMessage
  PROVE  Kept
<1> DEFINE c == String(cur, 8)
           d == Take(c, 2)
<1>1. cur \in Cursor /\ loc = "s7"
  BY DEF Inv, TypeOK, ReceivedMessage
<1>2. c \in Cursor /\ Behind(cur, c)
  BY <1>1, StringBehind
<1> HIDE DEF c
<1>3. PICK n \in Got(c, 2, {0, 1, 2}), uin \in Got(d, 1, Lengths \cap 0..255) :
        LET e == Take(String(Take(d, 1), uin), 2)
        IN  \E cnt \in Got(e, 2, Counts) :
              /\ cur' = Take(e, 2)
              /\ loc' = "block" /\ chan' = n /\ count' = cnt
              /\ UNCHANGED <<size, len, sav, sub, text, messages, claim>>
  BY DEF ReceivedMessage, c
<1> DEFINE e == Take(String(Take(d, 1), uin), 2)
<1>4. PICK cnt \in Got(e, 2, Counts) :
        /\ cur' = Take(e, 2)
        /\ loc' = "block" /\ chan' = n /\ count' = cnt
        /\ UNCHANGED <<size, len, sav, sub, text, messages, claim>>
  BY <1>3
<1>5. n \in {0, 1, 2} /\ uin \in Int /\ cnt \in Short
  BY <1>3, <1>4, GotShort, OscarAssumption DEF Got
<1> HIDE DEF d, e
<1>6. Behind(c, Take(d, 1)) /\ Take(d, 1) \in Cursor
  BY <1>2, TakesBehind DEF d, Behind
<1>7. /\ Behind(Take(d, 1), String(Take(d, 1), uin))
      /\ String(Take(d, 1), uin) \in Cursor
  BY <1>5, <1>6, StringBehind
<1>8. Behind(String(Take(d, 1), uin), cur')
  BY <1>4, <1>7, TakesBehind DEF e
<1>9. Behind(cur, cur') /\ cur' \in Cursor
  <2>1. Behind(cur, Take(d, 1))
    BY <1>1, <1>2, <1>6, BehindTransitive
  <2>2. Behind(cur, String(Take(d, 1), uin))
    BY <1>1, <1>7, <2>1, BehindTransitive
  <2>3. Behind(cur, cur')
    BY <1>1, <1>8, <2>2, BehindTransitive
  <2> QED  BY <2>3 DEF Behind
<1>10. TypeOK' /\ FragmentsCounted'
  BY <1>4, <1>5, <1>9 DEF Inv, TypeOK, FragmentsCounted, Locations
<1>11. Depth[loc'] + count' < Depth[loc] + count
  <2>1. Depth["s7"] = Width + 16 /\ Depth["block"] = 10
    BY DEF Depth
  <2>2. count \in Nat /\ count' \in Nat /\ count' < Width
    BY <1>4, <1>5, Limits DEF Inv, TypeOK
  <2> QED  BY <1>1, <1>4, <2>1, <2>2, Limits
<1> QED  BY <1>1, <1>4, <1>9, <1>10, <1>11, ReadKept DEF InSub

(* The TLVs before those of the channel. *)
LEMMA BlockKept ==
  ASSUME Inv, Block
  PROVE  Kept
<1>1. cur \in Cursor /\ loc = "block" /\ chan \in {0, 1, 2}
  BY DEF Inv, TypeOK, Block
<1>2. CASE count = 0 /\ UNCHANGED cur /\ ReadOn(chan)
  <2>1. Behind(cur, cur')
    BY <1>1, <1>2, TakesBehind
  <2> QED  BY <1>1, <1>2, <2>1, ReadOnKept
<1>3. CASE
        /\ count > 0
        /\ LET c == Take(cur, 2)
           IN  \E n \in Got(c, 2, Lengths) : cur' = String(Take(c, 2), n)
        /\ count' = count - 1
        /\ UNCHANGED <<loc, size, chan, len, sav, sub, text, messages, claim>>
  <2> DEFINE c == Take(Take(cur, 2), 2)
  <2>1. PICK n \in Got(Take(cur, 2), 2, Lengths) : cur' = String(c, n)
    BY <1>3
  <2>2. n \in Int
    BY GotShort, OscarAssumption
  <2>3. Behind(cur, c) /\ c \in Cursor
    BY <1>1, TakesBehind DEF Behind
  <2> HIDE DEF c
  <2>4. Behind(c, cur') /\ cur' \in Cursor
    BY <2>1, <2>2, <2>3, StringBehind
  <2>5. Behind(cur, cur')
    BY <1>1, <2>3, <2>4, BehindTransitive
  <2>6. count' \in Short /\ count' < count /\ count \in Nat /\ count' \in Nat
    BY <1>3, Limits DEF Inv, TypeOK, Short
  <2>7. TypeOK' /\ FragmentsCounted'
    BY <1>1, <1>3, <2>4, <2>6 DEF Inv, TypeOK, FragmentsCounted
  <2>8. Depth["block"] = 10
    BY DEF Depth
  <2> QED
    BY <1>1, <1>3, <2>5, <2>6, <2>7, <2>8, ReadKept DEF InSub
<1> QED  BY <1>2, <1>3 DEF Block

----------------------------------------------------------------------------
(* A TLV's header. *)
LEMMA HeaderBehind ==
  ASSUME NEW c \in Cursor
  PROVE  /\ Header(c) \in Cursor /\ Behind(c, Header(c))
         /\ c.left >= 2 => Header(c).left < c.left
         /\ c.left < 2 => Header(c) = c /\ Take(c, 2) = c
<1>1. Behind(c, Take(c, 2)) /\ Take(c, 2) \in Cursor
  BY TakeBehind
<1>2. Behind(Take(c, 2), Header(c)) /\ Header(c) \in Cursor
  BY <1>1, TakeBehind DEF Header
<1>3. Behind(c, Header(c))
  BY <1>1, <1>2, BehindTransitive
<1>4. c.left >= 2 => Header(c).left < c.left
  <2>1. c.left >= 2 => Take(c, 2).left = c.left - 2
    BY TakeBehind DEF Cursor
  <2> QED  BY <1>1, <1>2, <2>1 DEF Behind, Cursor
<1>5. c.left < 2 => Header(c) = c /\ Take(c, 2) = c
  BY TakeBehind DEF Header, Cursor
<1> QED  BY <1>2, <1>3, <1>4, <1>5

(* A TLV and what is behind it. *)
LEMMA HeaderAndMore ==
  ASSUME NEW c \in Cursor, NEW n \in Int
  PROVE  /\ String(Header(c), n) \in Cursor
         /\ Behind(c, String(Header(c), n))
         /\ c.left >= 2 => String(Header(c), n).left < c.left
<1>1. Header(c) \in Cursor /\ Behind(c, Header(c))
  BY HeaderBehind
<1>2. Behind(Header(c), String(Header(c), n)) /\ String(Header(c), n) \in Cursor
  BY <1>1, StringBehind
<1>3. Behind(c, String(Header(c), n))
  BY <1>1, <1>2, BehindTransitive
<1>4. c.left >= 2 => String(Header(c), n).left < c.left
  BY <1>1, <1>2, HeaderBehind DEF Behind, Cursor
<1> QED  BY <1>2, <1>3, <1>4

(* The TLVs of a message with fragments. *)
LEMMA TLV1Kept ==
  ASSUME Inv, TLV1
  PROVE  Kept
<1>1. cur \in Cursor /\ loc = "tlv1" /\ Depth["tlv1"] = 1 /\ Depth["fragment"] = 2
  BY DEF Inv, TypeOK, TLV1, Depth
<1>2. CASE NoTLV /\ UNCHANGED cur /\ Return(FALSE)
  BY <1>1, <1>2, TakesBehind, ReturnKept DEF InSub
<1>3. CASE ~NoTLV
  <2>1. PICK type \in Got(cur, 2, {0, 2}), n \in Got(Take(cur, 2), 2, Lengths) :
          \/ /\ type = 2
             /\ cur' = Header(cur)
             /\ loc' = "fragment" /\ len' = n /\ claim' = cur'.pos + n
          \/ /\ type # 2
             /\ cur' = String(Header(cur), n)
             /\ UNCHANGED <<loc, len, claim>>
    BY <1>3 DEF TLV1
  <2>2. /\ UNCHANGED <<size, chan, count, sav, sub, text, messages>>
        /\ count \in Nat
    BY <1>3, Limits DEF TLV1, Inv, TypeOK
  <2>3. n \in Short /\ n \in Nat /\ n \in Int
    BY GotShort, OscarAssumption
  <2>4. cur.left > 4 /\ cur.left \in Nat
    BY <1>1, <1>3 DEF NoTLV, Cursor
  <2>5. CASE type = 2
    <3>1. cur' \in Cursor /\ Behind(cur, cur') /\ cur'.left < cur.left
      BY <1>1, <2>1, <2>4, <2>5, HeaderBehind
    <3>2. TypeOK' /\ FragmentsCounted'
      BY <2>1, <2>2, <2>3, <2>5, <3>1
      DEF Inv, TypeOK, FragmentsCounted, Locations, Cursor
    <3> QED
      BY <1>1, <2>1, <2>2, <2>5, <3>1, <3>2, ReadKept DEF InSub
  <2>6. CASE type # 2
    <3> DEFINE d == String(Header(cur), n)
    <3>0. /\ d \in Cursor /\ Behind(cur, d)
          /\ cur.left >= 2 => d.left < cur.left
      BY <1>1, <2>3, HeaderAndMore
    <3>4. cur' = d
      BY <2>1, <2>6
    <3> HIDE DEF d
    <3>1. cur' \in Cursor /\ Behind(cur, cur') /\ cur'.left < cur.left
      BY <2>4, <3>0, <3>4
    <3>2. TypeOK' /\ FragmentsCounted'
      BY <1>1, <2>1, <2>2, <2>6, <3>1 DEF Inv, TypeOK, FragmentsCounted
    <3> QED
      BY <1>1, <2>1, <2>2, <2>6, <3>1, <3>2, ReadKept DEF InSub
  <2> QED  BY <2>5, <2>6
<1> QED  BY <1>2, <1>3 DEF TLV1

(* The subtraction from an unsigned short. *)
LEMMA RestCounts ==
  ASSUME Inv, loc = "fragment", NEW c, Behind(cur, c), NEW n
  PROVE  /\ Rest(c, n) \in Short
         /\ \/ Rest(c, n) = claim - c.pos
            \/ c.pos > claim /\ Rest(c, n) = (claim - c.pos) % Width
         /\ c = cur => Rest(c, n) = len
<1>1. /\ cur \in Cursor /\ c \in Cursor /\ len \in Short /\ len \in Nat
      /\ claim \in Nat
  BY Limits DEF Inv, TypeOK, Behind
<1> DEFINE k == cur.left - c.left
<1>2. k \in Nat /\ c.pos = cur.pos + k /\ cur.pos \in Nat /\ c.pos \in Nat
  BY <1>1 DEF Behind, Cursor
<1>3. Rest(c, n) = (len - k) % Width
  BY DEF Rest
<1> HIDE DEF k
<1>4. Rest(c, n) \in Short
  BY <1>1, <1>2, <1>3, Modulo
<1>5. \/ Rest(c, n) = claim - c.pos
      \/ c.pos > claim /\ Rest(c, n) = (claim - c.pos) % Width
  <2>1. CASE len = claim - cur.pos
    <3>1. len - k = claim - c.pos
      BY <1>1, <1>2, <2>1
    <3>2. c.pos <= claim => len - k \in Short
      BY <1>1, <1>2, <3>1, Limits DEF Short
    <3>3. c.pos <= claim => (len - k) % Width = len - k
      BY <1>1, <1>2, <3>2, Modulo
    <3> QED  BY <1>1, <1>2, <1>3, <3>1, <3>3
  <2>2. CASE cur.pos > claim /\ len = (claim - cur.pos) % Width
    <3> DEFINE m == claim - cur.pos
    <3>0. m \in Int /\ len = m % Width
      BY <1>1, <1>2, <2>2
    <3> HIDE DEF m
    <3>3. ((m % Width) - k) % Width = (m - k) % Width
      BY <1>2, <3>0, Modulo
    <3>1. (len - k) % Width = ((claim - cur.pos) - k) % Width
      BY <3>0, <3>3 DEF m
    <3>2. (claim - cur.pos) - k = claim - c.pos /\ c.pos > claim
      BY <1>1, <1>2, <2>2
    <3> QED  BY <1>3, <3>1, <3>2
  <2> QED  BY <2>1, <2>2 DEF Inv, FragmentsCounted
<1>6. c = cur => Rest(c, n) = len
  <2>1. c = cur => len - k = len
    BY <1>1 DEF k, Cursor
  <2> QED  BY <1>1, <1>3, <2>1, Modulo
<1> QED  BY <1>4, <1>5, <1>6

(* The fragments. *)
LEMMA FragmentKept ==
  ASSUME Inv, Fragment
  PROVE  Kept
<1>1. /\ cur \in Cursor /\ loc = "fragment" /\ count \in Nat /\ len \in Nat
      /\ Depth["tlv1"] = 1 /\ Depth["fragment"] = 2
  BY Limits DEF Inv, TypeOK, Fragment, Depth
<1>2. CASE
        /\ loc' = "tlv1" /\ len' = 0 /\ claim' = 0
        /\ UNCHANGED <<size, cur, chan, count, sav, sub, text, messages>>
  <2>1. TypeOK' /\ FragmentsCounted' /\ Behind(cur, cur')
    BY <1>1, <1>2, Limits, TakesBehind
    DEF Inv, TypeOK, FragmentsCounted, Locations
  <2> QED  BY <1>1, <1>2, <2>1, ReadKept DEF InSub
<1> DEFINE c == Take(Take(cur, 1), 1)
           d == Take(c, 2)
           e == Take(Take(d, 2), 2)
<1>3. CASE len > 4
  <2>1. PICK frag_id \in Got(cur, 1, {0, 1}), n \in Got(c, 2, Lengths) :
          \/ /\ frag_id = 1
             /\ cur' = String(e, n - 4)
             /\ \E got \in Converted(HasText(e, n - 4)) : Return(got)
          \/ /\ frag_id # 1
             /\ cur' = String(d, n)
             /\ len' = Rest(String(d, n), n)
             /\ UNCHANGED <<loc, size, chan, count, sav, sub, text, messages,
                            claim>>
    BY <1>1, <1>3 DEF Fragment
  <2>2. n \in Int /\ n - 4 \in Int
    BY GotShort, OscarAssumption
  <2>3. Behind(cur, d) /\ d \in Cursor
    BY <1>1, TakesBehind DEF Behind
  <2>4. Behind(d, e) /\ e \in Cursor
    BY <2>3, TakesBehind DEF Behind
  <2>5. CASE /\ cur' = String(e, n - 4)
             /\ \E got \in Converted(HasText(e, n - 4)) : Return(got)
    <3>1. PICK got \in BOOLEAN : Return(got)
      BY <2>5 DEF Converted
    <3>2. Behind(e, cur')
      BY <2>2, <2>4, <2>5, StringBehind
    <3>3. Behind(cur, e)
      BY <1>1, <2>3, <2>4, BehindTransitive
    <3>4. Behind(cur, cur')
      BY <1>1, <3>2, <3>3, BehindTransitive
    <3> QED  BY <1>1, <3>1, <3>4, ReturnKept DEF InSub
  <2>6. CASE /\ cur' = String(d, n) /\ len' = Rest(String(d, n), n)
             /\ UNCHANGED <<loc, size, chan, count, sav, sub, text, messages,
                            claim>>
    <3>1. Behind(d, cur') /\ cur' \in Cursor
      BY <2>2, <2>3, <2>6, StringBehind
    <3>2. Behind(cur, cur')
      BY <1>1, <2>3, <3>1, BehindTransitive
    <3>3. /\ len' \in Short
          /\ \/ len' = claim - cur'.pos
             \/ cur'.pos > claim /\ len' = (claim - cur'.pos) % Width
          /\ cur' = cur => len' = len
      BY <1>1, <2>6, <3>2, RestCounts
    <3>4. TypeOK' /\ FragmentsCounted'
      BY <2>6, <3>1, <3>3 DEF Inv, TypeOK, FragmentsCounted
    <3>5. CASE cur.left = 0
      <4>1. Take(cur, 1) = cur /\ Take(cur, 2) = cur
        BY <1>1, <3>5, TakeBehind
      <4>2. n = 0
        BY <3>5, <4>1 DEF Got
      <4>3. cur' = cur
        BY <1>1, <2>6, <4>1, <4>2, StringBehind
      <4>4. vars' = vars
        BY <2>6, <3>3, <4>3 DEF vars
      <4>5. Inv'
        BY <4>4, <3>4 DEF Inv, vars, WindowKept, Room
      <4> QED  BY <4>4, <4>5 DEF Kept
    <3>6. CASE cur.left > 0
      <4>1. Take(cur, 1).left < cur.left
        <5>1. 1 <= cur.left => Take(cur, 1).left = cur.left - 1
          BY <1>1, TakeBehind
        <5> QED  BY <1>1, <3>6, <5>1 DEF Cursor
      <4>2. Behind(Take(cur, 1), d) /\ Take(cur, 1) \in Cursor
        BY <1>1, TakesBehind DEF Behind
      <4>3. cur'.left < cur.left
        BY <1>1, <2>3, <3>1, <4>1, <4>2 DEF Behind, Cursor
      <4> QED  BY <1>1, <2>6, <3>2, <3>4, <4>3, ReadKept DEF InSub
    <3> QED  BY <1>1, <3>5, <3>6 DEF Cursor
  <2> QED  BY <2>1, <2>5, <2>6
<1> QED  BY <1>2, <1>3 DEF Fragment

----------------------------------------------------------------------------
(* The TLVs of a message with sub-TLVs. *)
LEMMA TLV2Kept ==
  ASSUME Inv, TLV2
  PROVE  Kept
<1>1. /\ cur \in Cursor /\ loc = "tlv2" /\ text \in BOOLEAN
      /\ Depth["tlv2"] = 1 /\ Depth["sub"] = 2
  BY DEF Inv, TypeOK, TLV2, Depth
<1>2. CASE NoTLV /\ UNCHANGED cur /\ Return(text)
  BY <1>1, <1>2, TakesBehind, ReturnKept DEF InSub
<1>3. CASE ~NoTLV
  <2> DEFINE c == Header(cur)
  <2>1. PICK type \in Got(cur, 2, {0, 5}), n \in Got(Take(cur, 2), 2, Lengths) :
          \/ /\ type = 5
             /\ cur' = String(String(Take(c, 2), 8), 16)
             /\ loc' = "sub" /\ len' = n /\ sav' = c.left
          \/ /\ type # 5
             /\ cur' = Take(c, IF n < c.left THEN n ELSE c.left)
             /\ UNCHANGED <<loc, len, sav>>
    BY <1>3 DEF TLV2
  <2>2. /\ UNCHANGED <<size, chan, count, sub, text, messages, claim>>
        /\ count \in Nat
    BY <1>3, Limits DEF TLV2, Inv, TypeOK
  <2>3. n \in Short /\ n \in Nat
    BY GotShort, OscarAssumption
  <2>4. /\ c \in Cursor /\ Behind(cur, c) /\ c.left \in Nat
        /\ c.left < cur.left
    BY <1>1, <1>3, HeaderBehind DEF NoTLV, Cursor
  <2> HIDE DEF c
  <2>5. Behind(c, cur')
    <3>1. CASE cur' = String(String(Take(c, 2), 8), 16)
      <4>1. Behind(c, Take(c, 2)) /\ Take(c, 2) \in Cursor
        BY <2>4, TakesBehind DEF Behind
      <4>2. /\ Behind(Take(c, 2), String(Take(c, 2), 8))
            /\ String(Take(c, 2), 8) \in Cursor
        BY <4>1, StringBehind
      <4>3. Behind(String(Take(c, 2), 8), cur')
        BY <3>1, <4>2, StringBehind
      <4>4. Behind(c, String(Take(c, 2), 8))
        BY <2>4, <4>1, <4>2, BehindTransitive
      <4> QED  BY <2>4, <4>3, <4>4, BehindTransitive
    <3>2. CASE cur' = Take(c, IF n < c.left THEN n ELSE c.left)
      BY <2>3, <2>4, <3>2, TakeBehind
    <3> QED  BY <2>1, <3>1, <3>2
  <2>6. Behind(cur, cur') /\ cur' \in Cursor /\ cur'.left < cur.left
    <3>1. Behind(cur, cur')
      BY <1>1, <2>4, <2>5, BehindTransitive
    <3> QED  BY <1>1, <2>4, <2>5, <3>1 DEF Behind, Cursor
  <2>7. /\ loc' \in {"sub", "tlv2"} /\ len' \in Short /\ sav' \in Nat
    BY <1>1, <2>1, <2>3, <2>4 DEF Inv, TypeOK
  <2>8. TypeOK' /\ FragmentsCounted'
    BY <2>2, <2>6, <2>7 DEF Inv, TypeOK, FragmentsCounted, Locations
  <2> QED
    BY <1>1, <2>2, <2>6, <2>7, <2>8, ReadKept DEF InSub
<1> QED  BY <1>2, <1>3 DEF TLV2

(* The sub-TLVs. *)
LEMMA SubKept ==
  ASSUME Inv, Sub
  PROVE  Kept
<1>1. /\ cur \in Cursor /\ loc = "sub" /\ count \in Nat
      /\ Depth["tlv2"] = 1 /\ Depth["sub"] = 2 /\ Depth["capability"] = 6
  BY Limits DEF Inv, TypeOK, Sub, Depth
<1>2. len \in Nat /\ sav \in Nat /\ cur.left \in Nat
  BY Limits DEF Inv, TypeOK, Cursor
<1>3. CASE
        /\ cur' = IF sav - cur.left < len
                  THEN String(cur, sav - cur.left - len) ELSE cur
        /\ loc' = "tlv2" /\ len' = 0 /\ sav' = 0
        /\ UNCHANGED <<size, chan, count, sub, text, messages, claim>>
  <2>1. sav - cur.left - len \in Int
    BY <1>2
  <2>2. Behind(cur, cur') /\ cur' \in Cursor
    BY <1>1, <1>3, <2>1, StringBehind, TakesBehind DEF Behind
  <2>3. TypeOK' /\ FragmentsCounted'
    BY <1>3, <2>2, Limits DEF Inv, TypeOK, FragmentsCounted, Locations
  <2> QED  BY <1>1, <1>3, <2>2, <2>3, ReadKept DEF InSub
<1>4. CASE cur.left > 0 /\ sav - cur.left < len
  <2>1. PICK t1 \in Got(cur, 2, {0, Capabilities}),
             l1 \in Got(Take(cur, 2), 2, Lengths) :
          \/ /\ t1 # Capabilities
             /\ cur' = String(Header(cur), l1)
             /\ UNCHANGED <<loc, sub>>
          \/ /\ t1 = Capabilities
             /\ cur' = Header(cur)
             /\ loc' = "capability"
             /\ sub' = [at |-> Saved(Header(cur)), l1 |-> l1]
    BY <1>4 DEF Sub
  <2>2. UNCHANGED <<size, chan, count, len, sav, text, messages, claim>>
    BY <1>2, <1>4 DEF Sub
  <2>3. l1 \in Short /\ l1 \in Nat /\ l1 \in Int
    BY GotShort, OscarAssumption
  <2>4. CASE t1 # Capabilities
    <3> DEFINE d == String(Header(cur), l1)
    <3>1. /\ d \in Cursor /\ Behind(cur, d)
          /\ cur.left >= 2 => d.left < cur.left
      BY <1>1, <2>3, HeaderAndMore
    <3>2. cur' = d /\ UNCHANGED <<loc, sub>>
      BY <2>1, <2>4
    <3>3. cur.left = 1 => d = cur
      <4> SUFFICES ASSUME cur.left = 1
                   PROVE  d = cur
        OBVIOUS
      <4>1. Header(cur) = cur /\ Take(cur, 2) = cur
        BY <1>1, HeaderBehind
      <4>2. l1 = 0
        BY <4>1 DEF Got
      <4> QED  BY <1>1, <4>1, <4>2, StringBehind
    <3> HIDE DEF d
    <3>4. TypeOK' /\ FragmentsCounted'
      BY <1>1, <2>2, <3>1, <3>2 DEF Inv, TypeOK, FragmentsCounted
    <3>5. CASE cur.left = 1
      <4>1. vars' = vars
        BY <2>2, <3>2, <3>3, <3>5 DEF vars
      <4>2. Inv'
        BY <3>4, <4>1 DEF Inv, vars, WindowKept, Room
      <4> QED  BY <4>1, <4>2 DEF Kept
    <3>6. CASE cur.left >= 2
      BY <1>1, <2>2, <3>1, <3>2, <3>4, <3>6, ReadKept DEF InSub
    <3> QED  BY <1>2, <1>4, <3>5, <3>6
  <2>5. CASE t1 = Capabilities
    <3>1. cur.left >= 2
      BY <1>2, <2>5, Limits DEF Got
    <3>2. /\ cur' = Header(cur) /\ loc' = "capability"
          /\ sub' = [at |-> cur', l1 |-> l1]
      BY <2>1, <2>5 DEF Saved
    <3>3. cur' \in Cursor /\ Behind(cur, cur') /\ cur'.left < cur.left
      BY <1>1, <3>1, <3>2, HeaderBehind
    <3>4. sub' \in [at: Cursor, l1: Short] /\ sub'.at = cur'
      BY <2>3, <3>2, <3>3
    <3>5. TypeOK' /\ FragmentsCounted'
      BY <2>2, <3>2, <3>3, <3>4 DEF Inv, TypeOK, FragmentsCounted, Locations
    <3>6. cur'.pos + cur'.left = size
      BY <3>3 DEF Inv, WindowKept, Behind
    <3>7. Ahead = cur.left /\ Ahead' = cur'.left
      BY <1>1, <3>2, <3>4 DEF Ahead, InSub
    <3>8. Lowers
      BY <1>1, <1>2, <2>2, <3>2, <3>3, <3>7 DEF Lowers, Cursor
    <3> QED
      BY <1>1, <2>2, <3>2, <3>4, <3>5, <3>6, <3>8, StepKept
  <2> QED  BY <2>4, <2>5
<1> QED  BY <1>3, <1>4 DEF Sub

(* sav1 and l1. *)
LEMMA SubTyped ==
  ASSUME Inv
  PROVE  sub.at \in Cursor /\ sub.l1 \in Int
<1>1. sub \in [at: Cursor, l1: Short]
  BY DEF Inv, TypeOK
<1>2. sub.at \in Cursor /\ sub.l1 \in Short
  BY <1>1
<1>3. \A n \in Short : n \in Int
  BY Limits
<1> QED  BY <1>2, <1>3

(* A step inside a sub-TLV: only the depth matters, sav1 stays. *)
LEMMA InsideKept ==
  ASSUME Inv, loc \in InSub, loc' \in InSub, cur' \in Cursor,
         Behind(cur, cur'), text' \in BOOLEAN,
         UNCHANGED <<size, chan, count, len, sav, sub, messages, claim>>,
         Depth[loc'] < Depth[loc]
  PROVE  Kept
<1>1. /\ cur.pos + cur.left = size /\ sub.at.pos + sub.at.left = size
      /\ sub.at \in Cursor /\ count \in Nat
  BY Limits DEF Inv, TypeOK, WindowKept
<1>2. TypeOK' /\ FragmentsCounted'
  BY DEF Inv, TypeOK, FragmentsCounted, Locations, InSub
<1>3. Depth[loc] \in Nat /\ Depth[loc'] \in Nat
  BY <1>2, Depths DEF Inv, TypeOK
<1>4. Ahead' = Ahead /\ Ahead \in Nat
  BY <1>1 DEF Ahead, Cursor
<1>5. Lowers
  BY <1>1, <1>3, <1>4 DEF Lowers
<1>6. cur'.pos + cur'.left = size
  BY <1>1 DEF Behind
<1> QED  BY <1>1, <1>2, <1>5, <1>6, StepKept DEF InSub

(* The depths inside a sub-TLV. *)
LEMMA Inside ==
  /\ Depth["capability"] = 6 /\ Depth["generic"] = 5 /\ Depth["text"] = 4
  /\ Depth["endsub"] = 3 /\ Depth["sub"] = 2 /\ Depth["utf8"] = 1
  /\ Depth["crashed"] = 1
BY DEF Depth

(* What kind of a message a sub-TLV has. *)
LEMMA CapabilityKept ==
  ASSUME Inv, Capability
  PROVE  Kept
<1> DEFINE c == Take(cur, 2)
           v == Take(c, 2)
           name == Take(v, IF v.left < 16 THEN v.left ELSE 16)
           d == String(name, 9)
<1>1. /\ cur \in Cursor /\ loc = "capability" /\ sub.l1 \in Int
      /\ text \in BOOLEAN
  BY SubTyped DEF Inv, TypeOK, Capability
<1>2. PICK l2 \in Got(cur, 2, Lengths) :
        /\ \/ cur' = String(c, sub.l1 - 2) \/ cur' = String(d, sub.l1 - l2)
           \/ cur' = d
        /\ loc' \in {"endsub", "generic"}
  BY DEF Capability
<1>3. UNCHANGED <<size, chan, count, len, sav, sub, text, messages, claim>>
  BY DEF Capability
<1>4. sub.l1 - 2 \in Int /\ sub.l1 - l2 \in Int
  BY <1>1, GotShort, OscarAssumption
<1>5. Behind(cur, c) /\ c \in Cursor
  BY <1>1, TakesBehind DEF Behind
<1>6. Behind(cur, v) /\ v \in Cursor /\ v.left \in Nat
  BY <1>1, TakesBehind DEF Behind, Cursor
<1> HIDE DEF c, v
<1>7. Behind(v, name) /\ name \in Cursor
  BY <1>6, TakeBehind
<1> HIDE DEF name
<1>8. Behind(name, d) /\ d \in Cursor
  BY <1>7, StringBehind
<1>9. Behind(cur, d)
  <2>1. Behind(v, d)
    BY <1>6, <1>7, <1>8, BehindTransitive
  <2> QED  BY <1>1, <1>6, <2>1, BehindTransitive
<1> HIDE DEF d
<1>10. Behind(cur, cur') /\ cur' \in Cursor
  <2>1. CASE cur' = String(c, sub.l1 - 2)
    <3>1. Behind(c, cur') /\ cur' \in Cursor
      BY <1>4, <1>5, <2>1, StringBehind
    <3> QED  BY <1>1, <1>5, <3>1, BehindTransitive
  <2>2. CASE cur' = String(d, sub.l1 - l2)
    <3>1. Behind(d, cur') /\ cur' \in Cursor
      BY <1>4, <1>8, <2>2, StringBehind
    <3> QED  BY <1>1, <1>9, <3>1, BehindTransitive
  <2>3. CASE cur' = d
    BY <1>8, <1>9, <2>3
  <2> QED  BY <1>2, <2>1, <2>2, <2>3
<1>11. loc' \in InSub /\ loc \in InSub /\ Depth[loc'] < Depth[loc]
  BY <1>1, <1>2, Inside DEF InSub
<1> QED  BY <1>1, <1>3, <1>10, <1>11, InsideKept

(* The fields of a generic message. *)
LEMMA GenericKept ==
  ASSUME Inv, Generic
  PROVE  Kept
<1>1. cur \in Cursor /\ loc = "generic" /\ text \in BOOLEAN
  BY DEF Inv, TypeOK, Generic
<1>2. PICK l3 \in Got(cur, 2, Lengths) :
        cur' = Take(Take(Take(Take(String(Take(cur, 2), l3), 1), 1), 2), 2)
  BY DEF Generic
<1> DEFINE c == Take(cur, 2)
           d == String(c, l3)
<1>3. l3 \in Int /\ Behind(cur, c) /\ c \in Cursor
  BY <1>1, GotShort, OscarAssumption, TakesBehind DEF Behind
<1> HIDE DEF c
<1>4. Behind(c, d) /\ d \in Cursor
  BY <1>3, StringBehind
<1> HIDE DEF d
<1>5. Behind(d, cur')
  BY <1>2, <1>4, TakesBehind DEF c, d
<1>6. Behind(cur, cur') /\ cur' \in Cursor
  <2>1. Behind(cur, d)
    BY <1>1, <1>3, <1>4, BehindTransitive
  <2>2. Behind(cur, cur')
    BY <1>1, <1>5, <2>1, BehindTransitive
  <2> QED  BY <2>2 DEF Behind
<1>7. /\ loc' = "text"
      /\ UNCHANGED <<size, chan, count, len, sav, sub, text, messages, claim>>
  BY DEF Generic
<1>8. loc' \in InSub /\ loc \in InSub /\ Depth[loc'] < Depth[loc]
  BY <1>1, <1>7, Inside DEF InSub
<1> QED  BY <1>1, <1>6, <1>7, <1>8, InsideKept

(* The text and what describes it. *)
LEMMA TextKept ==
  ASSUME Inv, Text
  PROVE  Kept
<1> DEFINE c == Take(cur, 2)
<1>1. cur \in Cursor /\ loc = "text"
  BY DEF Inv, TypeOK, Text
<1>2. PICK n \in Got(cur, 2, Lengths) :
        LET d == Take(Take(String(c, n), 4), 4)
        IN  /\ \E guid \in Got(d, 4, Lengths) : cur' = String(Take(d, 4), guid)
            /\ \/ /\ HasText(c, n) /\ loc' \in {"utf8", "crashed"}
                  /\ text' = TRUE
               \/ loc' = "endsub" /\ text' \in Converted(HasText(c, n))
  BY DEF Text
<1> DEFINE s == String(c, n)
           d == Take(Take(Take(s, 4), 4), 4)
<1>3. PICK guid \in Got(Take(Take(s, 4), 4), 4, Lengths) :
        cur' = String(d, guid)
  BY <1>2
<1>4. n \in Int /\ guid \in Int
  BY GotShort, OscarAssumption
<1>5. loc' \in {"utf8", "crashed", "endsub"} /\ text' \in BOOLEAN
  BY <1>2 DEF Converted
<1>6. Behind(cur, c) /\ c \in Cursor
  BY <1>1, TakesBehind DEF Behind
<1> HIDE DEF c
<1>7. Behind(c, s) /\ s \in Cursor
  BY <1>4, <1>6, StringBehind
<1> HIDE DEF s
<1>8. Behind(s, d) /\ d \in Cursor
  BY <1>7, TakesBehind DEF Behind
<1> HIDE DEF d
<1>9. Behind(d, cur') /\ cur' \in Cursor
  BY <1>3, <1>4, <1>8, StringBehind
<1>10. Behind(cur, cur')
  <2>1. Behind(cur, s)
    BY <1>1, <1>6, <1>7, BehindTransitive
  <2>2. Behind(cur, d)
    BY <1>1, <1>8, <2>1, BehindTransitive
  <2> QED  BY <1>1, <1>9, <2>2, BehindTransitive
<1>11. UNCHANGED <<size, chan, count, len, sav, sub, messages, claim>>
  BY DEF Text
<1>12. loc' \in InSub /\ loc \in InSub /\ Depth[loc'] < Depth[loc]
  BY <1>1, <1>5, Inside DEF InSub
<1> QED  BY <1>5, <1>9, <1>10, <1>11, <1>12, InsideKept

(* The cursor set back: the sub-TLV's header is left behind it. *)
LEMMA EndSubKept ==
  ASSUME Inv, EndSub
  PROVE  Kept
<1>0. sub.at \in Cursor /\ sub.l1 \in Int
  BY SubTyped
<1>1. /\ loc = "endsub" /\ cur' = String(sub.at, sub.l1)
      /\ loc' = "sub" /\ sub' = NoSub
      /\ UNCHANGED <<size, chan, count, len, sav, text, messages, claim>>
  BY DEF EndSub
<1>2. Behind(sub.at, cur') /\ cur' \in Cursor
  BY <1>0, <1>1, StringBehind
<1>3. sub' \in [at: Cursor, l1: Short]
  BY <1>1, Limits DEF NoSub, Nowhere, Cursor
<1>4. TypeOK' /\ FragmentsCounted'
  BY <1>1, <1>2, <1>3 DEF Inv, TypeOK, FragmentsCounted, Locations
<1>5. Ahead = sub.at.left /\ Ahead' = cur'.left
  BY <1>1 DEF Ahead, InSub
<1>6. cur'.pos + cur'.left = size
  BY <1>1, <1>2 DEF Inv, WindowKept, Behind, InSub
<1>7. count \in Nat
  BY Limits DEF Inv, TypeOK
<1>8. Lowers
  BY <1>0, <1>1, <1>2, <1>5, <1>7, Inside DEF Lowers, Behind, Cursor
<1> QED  BY <1>1, <1>4, <1>6, <1>8, StepKept DEF InSub

(* Every step of parse(). *)
LEMMA ParseKept ==
  ASSUME Inv, Parse
  PROVE  Kept
<1>1. CASE Utf8
  <2>1. vars' = vars
    BY <1>1 DEF Utf8
  <2>2. Inv'
    BY <2>1 DEF Inv, TypeOK, WindowKept, FragmentsCounted, Room, vars
  <2> QED  BY <2>1, <2>2 DEF Kept
<1> QED
  BY <1>1, FlapKept, SnacKept, SentKept, ReceivedKept, BlockKept, TLV1Kept,
     FragmentKept, TLV2Kept, SubKept, CapabilityKept, GenericKept, TextKept,
     EndSubKept
  DEF Parse

(* The next packet. *)
LEMMA ReceiveKept ==
  ASSUME Inv, NEW n \in Sizes, Receive(n)
  PROVE  Inv'
<1>1. /\ cur' \in Cursor /\ cur'.pos = 0 /\ cur'.left = n /\ n \in Nat
      /\ loc' = "flap" /\ size' = n
  BY OscarAssumption DEF Receive, Cursor
<1>2. /\ UNCHANGED <<chan, count, len, sav, sub, text, claim, messages>>
      /\ messages < MaxMessages
  BY DEF Receive, locals
<1>3. TypeOK'
  BY <1>1, <1>2 DEF Inv, TypeOK, Locations
<1>4. WindowKept' /\ FragmentsCounted' /\ Room'
  BY <1>1, <1>2 DEF WindowKept, FragmentsCounted, Room, InSub
<1> QED  BY <1>3, <1>4 DEF Inv

(* Before the first packet. *)
LEMMA InitKept == Init => Inv
<1> SUFFICES ASSUME Init
             PROVE  Inv
  OBVIOUS
<1>1. Nowhere \in Cursor /\ Nowhere.pos = 0 /\ Nowhere.left = 0
  BY DEF Nowhere, Cursor
<1>2. NoSub \in [at: Cursor, l1: Short]
  BY <1>1, Limits DEF NoSub
<1>3. TypeOK
  <2>1. /\ 0 \in Short /\ 0 \in Nat /\ 0 \in 0..MaxMessages
        /\ FALSE \in BOOLEAN /\ "idle" \in Locations
    BY Limits, OscarAssumption DEF Locations
  <2> QED  BY <1>1, <1>2, <2>1 DEF Init, TypeOK
<1>4. WindowKept /\ FragmentsCounted /\ Room
  BY <1>1 DEF Init, WindowKept, FragmentsCounted, Room, InSub
<1> QED  BY <1>3, <1>4 DEF Inv

(* Every step. *)
LEMMA NextKept == Inv /\ [Next]_vars => Inv'
<1> SUFFICES ASSUME Inv, [Next]_vars
             PROVE  Inv'
  OBVIOUS
<1>1. CASE \E n \in Sizes : Receive(n)
  BY <1>1, ReceiveKept
<1>2. CASE Parse
  BY <1>2, ParseKept DEF Kept
<1>3. CASE UNCHANGED vars
  BY <1>3 DEF Inv, TypeOK, WindowKept, FragmentsCounted, Room, vars
<1> QED  BY <1>1, <1>2, <1>3 DEF Next

(* The cursor never leaves the payload and the fragments of a message are
   counted as an unsigned short counts them, for payloads of any size with any
   lengths and counters in them. *)
THEOREM OscarSafe == Spec => [](TypeOK /\ WindowKept /\ FragmentsCounted)
<1>1. Inv => TypeOK /\ WindowKept /\ FragmentsCounted
  BY DEF Inv
<1> QED  BY InitKept, NextKept, <1>1, PTL DEF Spec

(* Every variable keeps its type: the fields that are read hold what their
   widths allow. *)
THEOREM TypeCorrect == Spec => []TypeOK
  BY OscarSafe, PTL

(* The cursor stays in the payload that parse() was called with. *)
THEOREM CursorKept == Spec => []WindowKept
  BY OscarSafe, PTL

(* Every step of parse() that changes anything lowers the rank: no payload keeps
   it busy for ever in any other way than by repeating one turn. *)
THEOREM EveryTurn == Spec => GetsOn
<1>1. Inv /\ [Next]_vars => [loc # "idle" => Rank' < Rank]_vars
  <2> SUFFICES ASSUME Inv, Next, loc # "idle"
               PROVE  vars' = vars \/ Rank' < Rank
    OBVIOUS
  <2>1. Parse
    BY DEF Next, Receive
  <2> QED  BY <2>1, ParseKept DEF Kept
<1> QED  BY InitKept, NextKept, <1>1, PTL DEF Spec, GetsOn
=============================================================================
