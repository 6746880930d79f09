------------------------------- MODULE Oscar --------------------------------
(***************************************************************************)
(* OSCAR::parse(): the messages of an instant messenger, taken out of a    *)
(* TCP payload.  __data is a cursor that only the readers move: a reader   *)
(* that finds too little returns 0, or an empty string, and leaves the     *)
(* cursor where it is.  Every loop relies on its readers to get on.        *)
(*                                                                         *)
(* What a payload says is whatever the readers return: any value of a      *)
(* field that makes a difference.  Texts are only empty or not.            *)
(***************************************************************************)
EXTENDS Integers

(* unsigned short. *)
Width == 256 * 256
Short == 0..(Width - 1)

CONSTANTS
  Sizes,       (* lengths of payloads                                       *)
  Lengths,     (* what a length in a payload may say                        *)
  Counts,      (* what the counter of a block of TLVs may say               *)
  MaxMessages  (* bound: messages kept                                      *)

ASSUME OscarAssumption ==
  /\ Sizes \subseteq Nat /\ MaxMessages \in Nat
  /\ Lengths \subseteq Short /\ Counts \subseteq Short

VARIABLES
  loc,        (* where parse() is                                           *)
  size,       (* the length of the payload                                  *)
  cur,        (* __data: bytes behind the cursor, bytes before it           *)
  chan,       (* chan, while tlvBlock() runs                                *)
  count,      (* turns that tlvBlock() has left                             *)
  len,        (* len of the TLV in work                                     *)
  sav,        (* sav, or in parseF4S6C1 nothing                             *)
  sub,        (* sav1 and l1                                                *)
  text,       (* whether msg has a text                                     *)
  messages,   (* _data.size()                                               *)
  claim       (* history: where the TLV in work says it ends                *)

vars == <<loc, size, cur, chan, count, len, sav, sub, text, messages, claim>>
locals == <<chan, count, len, sav, sub, text, claim>>

Cursor == [pos: Nat, left: Nat]

(* 0x2711, the type of the sub-TLV that has the text. *)
Capabilities == 256 * 39 + 17

Nowhere == [pos |-> 0, left |-> 0]
NoSub == [at |-> Nowhere, l1 |-> 0]

Locations == {"idle", "flap", "snac", "s6", "s7", "block", "tlv1", "fragment",
              "tlv2", "sub", "capability", "generic", "text", "utf8", "endsub",
              "crashed"}

(* Where the cursor is inside a sub-TLV. *)
InSub == {"capability", "generic", "text", "utf8", "endsub", "crashed"}

----------------------------------------------------------------------------
(* Mutant: the readers do not look at the length. *)
TakeUnchecked(c, n) == [pos |-> c.pos + n, left |-> c.left - n]

(* u8(), u16(), u16l(), u32(), u32l() for n = 1, 2, 4; string(n) for n >= 0. *)
Take(c, n) ==
  IF c.left < n THEN c ELSE [pos |-> c.pos + n, left |-> c.left - n]

(* What such a reader may return when the field can have the values S. *)
Got(c, n, S) == IF c.left < n THEN {0} ELSE S

(* string(n): a negative n is a size_t beyond every payload. *)
String(c, n) == IF n < 0 THEN c ELSE Take(c, n)

(* Whether string(n) has a text. *)
HasText(c, n) == n > 0 /\ n <= c.left

(* conv_1251_utf8(), conv_ucs2_utf8(): a text is lost when iconv() fails. *)
Converted(got) == IF got THEN BOOLEAN ELSE {FALSE}

(* Where a message's TLVs are read; other channels are not. *)
Channel(n) == CASE n = 1 -> "tlv1" [] n = 2 -> "tlv2" [] OTHER -> "idle"

Init ==
  /\ loc = "idle" /\ size = 0 /\ cur = Nowhere /\ chan = 0 /\ count = 0
  /\ len = 0 /\ sav = 0 /\ sub = NoSub /\ text = FALSE /\ messages = 0
  /\ claim = 0

(* parse() returns, with a message in msg or without. *)
Return(got) ==
  /\ loc' = "idle"
  /\ messages' = IF got THEN messages + 1 ELSE messages
  /\ chan' = 0 /\ count' = 0 /\ len' = 0 /\ sav' = 0 /\ sub' = NoSub
  /\ text' = FALSE /\ claim' = 0
  /\ UNCHANGED size

(* conn_data->data() and conn_data->parse(), for the next packet. *)
Receive(n) ==
  /\ loc = "idle" /\ messages < MaxMessages
  /\ loc' = "flap" /\ size' = n
  /\ cur' = [pos |-> 0, left |-> n]
  /\ UNCHANGED <<locals, messages>>

(* parseFLAP(): a mark, a type, and fields nobody looks at.  Only data flaps
   are read on. *)
Flap ==
  /\ loc = "flap"
  /\ \/ cur.left < 6 /\ UNCHANGED cur /\ Return(FALSE)
     \/ cur.left >= 6 /\ cur' = Take(cur, 1) /\ Return(FALSE)
     \/ cur.left >= 6 /\ cur' = Take(cur, 6) /\ Return(FALSE)
     \/ /\ cur.left >= 6 /\ cur' = Take(cur, 6)
        /\ loc' = "snac"
        /\ UNCHANGED <<size, locals, messages>>

(* parseSNAC(), parseF4(): family, subtype, flags and reqid. *)
Snac ==
  /\ loc = "snac"
  /\ cur' = Take(Take(Take(Take(cur, 2), 2), 2), 4)
  /\ \E family \in Got(cur, 2, {0, 4}),
        subtype \in Got(Take(cur, 2), 2, {0, 6, 7}) :
       \/ /\ family = 4 /\ subtype \in {6, 7}
          /\ loc' = IF subtype = 6 THEN "s6" ELSE "s7"
          /\ UNCHANGED <<size, locals, messages>>
       \/ ~(family = 4 /\ subtype \in {6, 7}) /\ Return(FALSE)

(* Go on with the TLVs of channel n. *)
ReadOn(n) ==
  \/ Channel(n) = "idle" /\ Return(FALSE)
  \/ /\ Channel(n) # "idle"
     /\ loc' = Channel(n) /\ chan' = 0 /\ count' = 0
     /\ UNCHANGED <<size, len, sav, sub, text, messages, claim>>

(* parseF4S6(), up to its switch: cookie, channel, uin. *)
SentMessage ==
  /\ loc = "s6"
  /\ LET c == Take(Take(cur, 4), 4)
         d == Take(c, 2)
     IN  \E n \in Got(c, 2, {0, 1, 2}), uin \in Got(d, 1, Lengths \cap 0..255) :
           /\ cur' = String(Take(d, 1), uin)
           /\ ReadOn(n)

(* parseF4S7(), up to the counter of tlvBlock(): cookie, channel, uin, warning
   level. *)
ReceivedMessage ==
  /\ loc = "s7"
  /\ LET c == String(cur, 8)
         d == Take(c, 2)
     IN  \E n \in Got(c, 2, {0, 1, 2}), uin \in Got(d, 1, Lengths \cap 0..255) :
           LET e == Take(String(Take(d, 1), uin), 2)
           IN  \E cnt \in Got(e, 2, Counts) :
                 /\ cur' = Take(e, 2)
                 /\ loc' = "block" /\ chan' = n /\ count' = cnt
                 /\ UNCHANGED <<size, len, sav, sub, text, messages, claim>>

(* The loop of tlvBlock(): a tag and string16(). *)
Block ==
  /\ loc = "block"
  /\ \/ /\ count > 0
        /\ LET c == Take(cur, 2)
           IN  \E n \in Got(c, 2, Lengths) : cur' = String(Take(c, 2), n)
        /\ count' = count - 1
        /\ UNCHANGED <<loc, size, chan, len, sav, sub, text, messages, claim>>
     \/ count = 0 /\ UNCHANGED cur /\ ReadOn(chan)

----------------------------------------------------------------------------
(* Mutant: the loop over TLVs runs until nothing is left. *)
NoTLVNothing == cur.left = 0

(* The condition that ends both loops over TLVs. *)
NoTLV == cur.left <= 4

(* A TLV's type and len have been read. *)
Header(c) == Take(Take(c, 2), 2)

(* parseF4S6C1(): a TLV of type 2 has the fragments of the message. *)
TLV1 ==
  /\ loc = "tlv1"
  /\ \/ NoTLV /\ UNCHANGED cur /\ Return(FALSE)
     \/ /\ ~NoTLV
        /\ \E type \in Got(cur, 2, {0, 2}),
              n \in Got(Take(cur, 2), 2, Lengths) :
             \/ /\ type = 2
                /\ cur' = Header(cur)
                /\ loc' = "fragment" /\ len' = n /\ claim' = cur'.pos + n
             \/ /\ type # 2
                /\ cur' = String(Header(cur), n)
                /\ UNCHANGED <<loc, len, claim>>
        /\ UNCHANGED <<size, chan, count, sav, sub, text, messages>>

(* Mutant: only the fragment's data are subtracted, not its header. *)
RestForgotten(c, n) == (len - n) % Width

(* len -= tmp - __data.length, an unsigned short: c is the cursor after the
   fragment, whose frag_len is n. *)
Rest(c, n) == (len - (cur.left - c.left)) % Width

(* The fragments: the text is in the first one with frag_id 1.  Without data,
   a turn changes nothing. *)
Fragment ==
  /\ loc = "fragment"
  /\ \/ /\ len <= 4
        /\ loc' = "tlv1" /\ len' = 0 /\ claim' = 0
        /\ UNCHANGED <<size, cur, chan, count, sav, sub, text, messages>>
     \/ /\ len > 4
        /\ LET c == Take(Take(cur, 1), 1)
               d == Take(c, 2)
           IN  \E frag_id \in Got(cur, 1, {0, 1}), n \in Got(c, 2, Lengths) :
                 \/ /\ frag_id = 1
                    /\ LET e == Take(Take(d, 2), 2)
                       IN  /\ cur' = String(e, n - 4)
                           /\ \E got \in Converted(HasText(e, n - 4)) :
                                Return(got)
                 \/ /\ frag_id # 1
                    /\ cur' = String(d, n)
                    /\ len' = Rest(String(d, n), n)
                    /\ UNCHANGED <<loc, size, chan, count, sav, sub, text,
                                   messages, claim>>

----------------------------------------------------------------------------
(* parseF4S6C2(): a TLV of type 5 has sub-TLVs; dump() reads the others byte
   by byte, as far as they go. *)
TLV2 ==
  /\ loc = "tlv2"
  /\ \/ NoTLV /\ UNCHANGED cur /\ Return(text)
     \/ /\ ~NoTLV
        /\ \E type \in Got(cur, 2, {0, 5}),
              n \in Got(Take(cur, 2), 2, Lengths) :
             LET c == Header(cur)
             IN  \/ /\ type = 5
                    /\ cur' = String(String(Take(c, 2), 8), 16)
                    /\ loc' = "sub" /\ len' = n /\ sav' = c.left
                 \/ /\ type # 5
                    /\ cur' = Take(c, IF n < c.left THEN n ELSE c.left)
                    /\ UNCHANGED <<loc, len, sav>>
        /\ UNCHANGED <<size, chan, count, sub, text, messages, claim>>

(* Mutant: sav1 is taken before the sub-TLV's header is read. *)
SavedEarly(c) == cur

(* What sav1 keeps, when c is the cursor behind the sub-TLV's header. *)
Saved(c) == c

(* The loop over sub-TLVs.  When it ends, string() gets a negative length or is
   not called.  A single byte that is left is never read. *)
Sub ==
  /\ loc = "sub"
  /\ \/ /\ ~(cur.left > 0 /\ sav - cur.left < len)
        /\ cur' = IF sav - cur.left < len
                  THEN String(cur, sav - cur.left - len) ELSE cur
        /\ loc' = "tlv2" /\ len' = 0 /\ sav' = 0
        /\ UNCHANGED <<size, chan, count, sub, text, messages, claim>>
     \/ /\ cur.left > 0 /\ sav - cur.left < len
        /\ \E t1 \in Got(cur, 2, {0, Capabilities}),
              l1 \in Got(Take(cur, 2), 2, Lengths) :
             \/ /\ t1 # Capabilities
                /\ cur' = String(Header(cur), l1)
                /\ UNCHANGED <<loc, sub>>
             \/ /\ t1 = Capabilities
                /\ cur' = Header(cur)
                /\ loc' = "capability"
                /\ sub' = [at |-> Saved(Header(cur)), l1 |-> l1]
        /\ UNCHANGED <<size, chan, count, len, sav, text, messages, claim>>

(* Sub-TLV 0x2711: of the protocol version and the plugin's name, sixteen
   readings of u8(), it matters only whether one is not 0. *)
Capability ==
  /\ loc = "capability"
  /\ \E l2 \in Got(cur, 2, Lengths) :
       LET c == Take(cur, 2)
           v == Take(c, 2)
           name == Take(v, IF v.left < 16 THEN v.left ELSE 16)
           d == String(name, 9)
       IN  \/ /\ l2 # 27
              /\ cur' = String(c, sub.l1 - 2)
              /\ loc' = "endsub"
           \/ /\ l2 = 27 /\ v.left > 0
              /\ cur' = String(d, sub.l1 - l2)
              /\ loc' = "endsub"
           \/ /\ l2 = 27
              /\ cur' = d
              /\ loc' = "generic"
  /\ UNCHANGED <<size, chan, count, len, sav, sub, text, messages, claim>>

(* A generic message, up to its text: data to skip, type, flags, status code,
   priority. *)
Generic ==
  /\ loc = "generic"
  /\ \E l3 \in Got(cur, 2, Lengths) :
       cur' = Take(Take(Take(Take(String(Take(cur, 2), l3), 1), 1), 2), 2)
  /\ loc' = "text"
  /\ UNCHANGED <<size, chan, count, len, sav, sub, text, messages, claim>>

(* The text, two colours and the identifier of its encoding.  utf8_valid() does
   not come past an ASCII character; it takes a text that begins with a zero
   byte for valid and any other text for invalid, to be converted.  Only of a
   text that begins with 0xFE or 0xFF nb is not known: utf8_valid() may go
   anywhere from there, and has any of these outcomes or ends the process. *)
Text ==
  /\ loc = "text"
  /\ \E n \in Got(cur, 2, Lengths) :
       LET c == Take(cur, 2)
           d == Take(Take(String(c, n), 4), 4)
       IN  /\ \E guid \in Got(d, 4, Lengths) : cur' = String(Take(d, 4), guid)
           /\ \/ HasText(c, n) /\ loc' \in {"utf8", "crashed"} /\ text' = TRUE
              \/ loc' = "endsub" /\ text' \in Converted(HasText(c, n))
  /\ UNCHANGED <<size, chan, count, len, sav, sub, messages, claim>>

(* spc_utf8_isvalid(): c += nb + 1, when nb has become -1. *)
Utf8 == loc = "utf8" /\ UNCHANGED vars

(* __data = sav1; string(l1). *)
EndSub ==
  /\ loc = "endsub"
  /\ cur' = String(sub.at, sub.l1)
  /\ loc' = "sub" /\ sub' = NoSub
  /\ UNCHANGED <<size, chan, count, len, sav, text, messages, claim>>

Parse ==
  Flap \/ Snac \/ SentMessage \/ ReceivedMessage \/ Block \/ TLV1 \/ Fragment
    \/ TLV2 \/ Sub \/ Capability \/ Generic \/ Text \/ Utf8 \/ EndSub

Next == (\E n \in Sizes : Receive(n)) \/ Parse

Spec == Init /\ [][Next]_vars

(* The Listener goes on with a call of parse(). *)
FairSpec == Spec /\ WF_vars(Parse)

----------------------------------------------------------------------------
TypeOK ==
  /\ loc \in Locations /\ size \in {0} \cup Sizes
  /\ cur \in Cursor /\ sub \in [at: Cursor, l1: Short]
  /\ chan \in {0, 1, 2} /\ count \in Short /\ len \in Short /\ sav \in Nat
  /\ text \in BOOLEAN /\ messages \in 0..MaxMessages /\ claim \in Nat

(* The cursor stays in the payload, whatever its length fields say and however
   often parseF4S6C2() sets it back: length never passes below 0, and value
   moves by what length loses. *)
WindowKept ==
  /\ cur.left >= 0 /\ cur.pos + cur.left = size
  /\ loc \in InSub =>
       sub.at.left >= 0 /\ sub.at.pos + sub.at.left = size

(* While the fragments of a message are read, len is what is left of the TLV.
   It is an unsigned short: when a fragment reaches beyond its TLV, len wraps,
   and says Width more. *)
FragmentsCounted ==
  loc = "fragment" =>
    \/ len = claim - cur.pos
    \/ cur.pos > claim /\ len = (claim - cur.pos) % Width

(* The only places where parse() may stay for ever: fragments that claim more
   than the packet has, one byte left over among sub-TLVs, and a text that
   begins with an ASCII character. *)
Starved ==
  \/ loc = "fragment" /\ cur.left = 0 /\ len > 4
  \/ loc = "sub" /\ cur.left = 1 /\ sav - 1 < len
  \/ loc = "utf8"

(* Any payload is parsed to its end, or starves the parser in one of the three
   loops, or has a text that utf8_valid() cannot tell the length of. *)
Returns == loc # "idle" ~> loc \in {"idle", "crashed"} \/ Starved

(* What is left to do: bytes, and then how deep in the parser they are. *)
Depth ==
  [idle |-> 0, utf8 |-> 1, crashed |-> 1, tlv1 |-> 1, fragment |-> 2,
   tlv2 |-> 1, sub |-> 2, endsub |-> 3, text |-> 4, generic |-> 5,
   capability |-> 6, block |-> 10, s6 |-> Width + 16, s7 |-> Width + 16,
   snac |-> Width + 17, flap |-> Width + 18]

Ahead ==
  IF loc \in InSub THEN sub.at.left ELSE cur.left

Rank == 16 * Ahead + Depth[loc] + count

(* Every turn of every loop gets on: each step of parse() that changes anything
   lowers a number, although the cursor is set back behind each sub-TLV, len
   wraps and the counter of tlvBlock() counts what is not there.  A parse is
   finished, or repeats one starving turn, after a bounded number of steps. *)
GetsOn == [][loc # "idle" => Rank' < Rank]_vars
=============================================================================
