----------------------------- MODULE Checksum ------------------------------
(***************************************************************************)
(* The Internet checksum of Listener.cpp: chksum(), and what ip_chksum()   *)
(* and tcp_chksum() hand to it.  Their caller, terminateRequest(), makes a *)
(* packet that resets a connection; in the program only test() calls it.   *)
(*                                                                         *)
(* Data are bytes in the order of memory; a pair is read as a              *)
(* little-endian word.                                                     *)
(***************************************************************************)
EXTENDS Integers, Sequences

CONSTANTS
  Data,       (* what chksum() may be called with: as many bytes as its    *)
              (* parameter, an unsigned short, can say                     *)
  Datagrams,  (* the IP packets whose checksums are asked for              *)
  LongSize,   (* sizeof(unsigned long): 4 in the build of config.log       *)
  Junk        (* bytes that memory from new[] may hold                     *)

Byte == 0..255
Word == 256 * 256

(* hdr->ihl * 4, and ntohs(hdr->tot_len). *)
HeaderSize(d) == 4 * (d[1] % 16)
TotalLength(d) == 256 * d[3] + d[4]

(* A header of at least five words, in a packet as long as it says. *)
IsDatagram(d) ==
  /\ d \in Seq(Byte) /\ Len(d) >= 20
  /\ HeaderSize(d) \in 20..Len(d) /\ TotalLength(d) = Len(d)

ASSUME ChecksumAssumption ==
  /\ Data \subseteq Seq(Byte) /\ \A d \in Data : Len(d) < Word
  /\ Junk \subseteq Byte
  /\ \A d \in Datagrams : IsDatagram(d)
  /\ LongSize \in {4, 8}

VARIABLES
  pc,      (* "idle", or where chksum() is: "loop", "odd", "done"          *)
  temp,    (* the bytes ahead of it                                        *)
  sum,     (* its sum                                                      *)
  retval,  (* what it returns                                              *)
  total,   (* history: the sum without folding                             *)
  meant    (* history: the bytes whose checksum the caller wants           *)

vars == <<pc, temp, sum, retval, total, meant>>

TypeOK ==
  /\ pc \in {"idle", "loop", "odd", "done"}
  /\ temp \in Seq(Byte) /\ meant \in Seq(Byte)
  /\ sum \in 0..(Word + 254) /\ (pc = "loop" => sum < Word)
  /\ retval \in 0..(Word - 1) /\ total \in Nat

Init ==
  /\ pc = "idle" /\ temp = <<>> /\ meant = <<>>
  /\ sum = 0 /\ retval = 0 /\ total = 0

(* As many of them as an unsigned short says. *)
Passed(bytes) == SubSeq(bytes, 1, Len(bytes) % Word)

(* chksum() is called with some bytes, to get the checksum of others. *)
Begin(bytes, reference) ==
  /\ pc = "idle" /\ pc' = "loop"
  /\ temp' = Passed(bytes) /\ meant' = reference
  /\ UNCHANGED <<sum, retval, total>>

----------------------------------------------------------------------------
(* The callers.                                                            *)

ip_chksum(d) ==
  LET header == SubSeq(d, 1, HeaderSize(d)) IN Begin(header, header)

Source(d) == SubSeq(d, 13, 16)
Destination(d) == SubSeq(d, 17, 20)
Segment(d) == SubSeq(d, HeaderSize(d) + 1, Len(d))

(* llen, an unsigned short, in network order. *)
SegmentLength(d) ==
  LET llen == (TotalLength(d) - HeaderSize(d)) % Word
  IN  <<llen \div 256, llen % 256>>

(* An address in an unsigned long. *)
Long(address) == address \o [i \in 1..(LongSize - 4) |-> 0]

(* Mutant: the protocol is left out. *)
PseudoHeaderBlank(d, pad) ==
  Long(Source(d)) \o Long(Destination(d)) \o <<0, 0>> \o SegmentLength(d) \o pad

(* struct pseudo_header, with the padding that aligns its end. *)
PseudoHeader(d, pad) ==
  Long(Source(d)) \o Long(Destination(d)) \o <<0, d[10]>>
    \o SegmentLength(d) \o pad

(* The pseudo header of the standard. *)
Standard(d) ==
  Source(d) \o Destination(d) \o <<0, d[10]>> \o SegmentLength(d)

tcp_chksum(d) ==
  \E pad \in [1..(LongSize - 4) -> Junk] :
    Begin(PseudoHeader(d, pad) \o Segment(d), Standard(d) \o Segment(d))

----------------------------------------------------------------------------
(* chksum().                                                               *)

(* Mutant: the carry is dropped. *)
FoldDropped(n) == n % Word

(* if (sum >> 16) sum = (sum & 0xffff) + (sum >> 16). *)
Fold(n) == IF n >= Word THEN (n % Word) + (n \div Word) ELSE n

(* while (len > 1). *)
AddWord ==
  /\ pc = "loop" /\ Len(temp) > 1
  /\ LET word == temp[1] + 256 * temp[2]
     IN  sum' = Fold(sum + word) /\ total' = total + word
  /\ temp' = SubSeq(temp, 3, Len(temp))
  /\ UNCHANGED <<pc, retval, meant>>

(* Mutant: the odd byte is taken for the high one. *)
OddByteHigh ==
  /\ pc = "loop" /\ Len(temp) = 1
  /\ sum' = sum + 256 * temp[1] /\ total' = total + 256 * temp[1]
  /\ temp' = <<>> /\ pc' = "odd"
  /\ UNCHANGED <<retval, meant>>

(* if (len). *)
OddByte ==
  /\ pc = "loop" /\ Len(temp) = 1
  /\ sum' = sum + temp[1] /\ total' = total + temp[1]
  /\ temp' = <<>> /\ pc' = "odd"
  /\ UNCHANGED <<retval, meant>>

(* The last fold, and return ~((unsigned short) sum). *)
Finish ==
  /\ pc \in {"loop", "odd"} /\ temp = <<>>
  /\ retval' = Word - 1 - Fold(sum)
  /\ pc' = "done"
  /\ UNCHANGED <<temp, sum, total, meant>>

(* The caller has it; its locals are gone. *)
Return ==
  /\ pc = "done" /\ pc' = "idle"
  /\ sum' = 0 /\ retval' = 0 /\ total' = 0 /\ meant' = <<>>
  /\ UNCHANGED temp

Next ==
  \/ \E d \in Data : Begin(d, d)
  \/ \E d \in Datagrams : ip_chksum(d) \/ tcp_chksum(d)
  \/ AddWord \/ OddByte \/ Finish \/ Return

Spec == Init /\ [][Next]_vars

----------------------------------------------------------------------------
(* A receiver that adds the checksum to the words it was made from gets a
   multiple of 65535, which is how it tells that nothing was damaged: no carry
   is lost in the folding, and the cast to unsigned short cuts nothing off. *)
Complements == pc = "done" => (total + retval) % (Word - 1) = 0

(* The sum of the words of a sequence of bytes, the last of which may be half a
   word. *)
WordSum(bytes) ==
  LET upto[i \in 0..Len(bytes)] ==
        IF i = 0 THEN 0
        ELSE upto[i - 1] + (IF i % 2 = 1 THEN bytes[i] ELSE 256 * bytes[i])
  IN  upto[Len(bytes)]

(* What was summed comes to the sum of what the standard says: an odd byte at
   the end, options in the IP header and an address in an unsigned long make no
   difference.  (An unsigned long of eight bytes does: the padding behind the
   pseudo header is summed, and the longest segments come out cut.) *)
SumsMeant == pc = "done" /\ LongSize = 4 => total = WordSum(meant)
=============================================================================
