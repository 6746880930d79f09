--------------------------- MODULE ChecksumProofs --------------------------
(* Proof that chksum() complements what it sums, for data of any length, and
   that what it is given comes to what the standard asks for. *)
EXTENDS Checksum, SequenceTheorems, WellFoundedInduction, TLAPS

(* The numbers that a receiver cannot tell apart. *)
Same(n, m) == n % (Word - 1) = m % (Word - 1)

(* While chksum() is at work, its sum stands for all that it has added. *)
Folded == pc \in {"loop", "odd"} => Same(sum, total)

Inv == TypeOK /\ Folded /\ Complements

(* All that most steps need to know of it. *)
LEMMA WordFacts == Word \in Nat /\ Word > 600
BY DEF Word

(* A remainder, and the halves of what fits in two digits. *)
LEMMA RemainderFits ==
  ASSUME NEW n \in Int, NEW w \in Nat, w > 0
  PROVE  n % w \in 0..(w - 1)
OBVIOUS

LEMMA RemainderSmaller ==
  ASSUME NEW n \in Nat, NEW w \in Nat, w > 0
  PROVE  n % w \in 0..n
OBVIOUS

LEMMA HalvesOf ==
  ASSUME NEW n \in Nat, n < 256 * 256
  PROVE  n \div 256 \in 0..255 /\ n % 256 \in 0..255
OBVIOUS

LEMMA Halves ==
  ASSUME NEW n \in 0..(Word - 1)
  PROVE  n \div 256 \in 0..255 /\ n % 256 \in 0..255
<1>1. n \in Nat /\ n < Word
  BY WordFacts
<1>2. n < 256 * 256
  BY <1>1, Zenon DEF Word
<1> QED  BY <1>1, <1>2, HalvesOf

(* Division of what is less than twice the divisor. *)
LEMMA OneCarry ==
  ASSUME NEW w \in Nat, w > 1, NEW n \in Nat, n >= w, n < 2 * w
  PROVE  n % w = n - w /\ n \div w = 1
OBVIOUS

(* What stands for the same still does when the same is added, *)
LEMMA SameAdds ==
  ASSUME NEW n \in Nat, NEW m \in Nat, NEW k \in Nat, Same(n, m)
  PROVE  Same(n + k, m + k)
BY DEF Same, Word

(* and when 65535 is taken away. *)
LEMMA SameLess ==
  ASSUME NEW n \in Nat, n >= Word
  PROVE  Same(n - (Word - 1), n)
BY DEF Same, Word

(* 65535 itself stands for nothing. *)
LEMMA SameNothing == (Word - 1) % (Word - 1) = 0
BY DEF Word

(* Folding makes a sum fit, and does not change what it stands for. *)
LEMMA FoldFacts ==
  ASSUME NEW n \in 0..(2 * Word - 2)
  PROVE  Fold(n) \in 0..(Word - 1) /\ Same(Fold(n), n)
<1>1. CASE n < Word
  BY <1>1, WordFacts DEF Fold, Same
<1>2. CASE n >= Word
  <2>1. n % Word = n - Word /\ n \div Word = 1
    BY <1>2, OneCarry, WordFacts
  <2>2. Fold(n) = n - (Word - 1)
    BY <1>2, <2>1, WordFacts DEF Fold
  <2>3. Fold(n) \in 0..(Word - 1)
    BY <1>2, <2>2, WordFacts
  <2> QED  BY <1>2, <2>2, <2>3, SameLess, WordFacts
<1> QED  BY <1>1, <1>2, WordFacts

(* Bytes are numbers. *)
LEMMA ByteNumber == \A b \in Byte : b \in Nat /\ b < 256
BY DEF Byte

LEMMA Elements ==
  ASSUME NEW s \in Seq(Byte), NEW i \in 1..Len(s)
  PROVE  s[i] \in Nat /\ s[i] < 256
<1>1. s[i] \in Byte
  BY ElementOfSeq
<1> QED  BY <1>1, ByteNumber

(* The bytes that the callers hand over. *)
LEMMA DatagramBytes ==
  ASSUME NEW d \in Datagrams
  PROVE  /\ SubSeq(d, 1, HeaderSize(d)) \in Seq(Byte)
         /\ Segment(d) \in Seq(Byte)
         /\ SegmentLength(d) \in Seq(Byte) /\ <<0, d[10]>> \in Seq(Byte)
         /\ Standard(d) \in Seq(Byte)
         /\ \A pad \in [1..(LongSize - 4) -> Junk] :
              PseudoHeader(d, pad) \in Seq(Byte)
<1>1. /\ d \in Seq(Byte) /\ Len(d) \in Nat /\ Len(d) >= 20
      /\ HeaderSize(d) \in 20..Len(d) /\ TotalLength(d) = Len(d)
  BY ChecksumAssumption DEF IsDatagram
<1>2. \A i \in 1..Len(d) : d[i] \in Byte
  BY <1>1
<1>3. \A i, j \in Nat : i >= 1 /\ j <= Len(d) => SubSeq(d, i, j) \in Seq(Byte)
  BY <1>1, <1>2, SubSeqProperties
<1>4. HeaderSize(d) \in Nat /\ HeaderSize(d) <= Len(d)
  BY <1>1
<1>5. /\ SubSeq(d, 1, HeaderSize(d)) \in Seq(Byte) /\ Segment(d) \in Seq(Byte)
      /\ Source(d) \in Seq(Byte) /\ Destination(d) \in Seq(Byte)
  BY <1>1, <1>3, <1>4 DEF Segment, Source, Destination
<1>6. SegmentLength(d) \in Seq(Byte)
  <2> DEFINE llen == (TotalLength(d) - HeaderSize(d)) % Word
  <2>1. llen \in 0..(Word - 1)
    <3>1. d[3] \in Int /\ d[4] \in Int
      <4>1. 3 \in 1..Len(d) /\ 4 \in 1..Len(d)
        BY <1>1
      <4>2. d[3] \in Nat /\ d[4] \in Nat
        BY <4>1, <1>1, Elements
      <4> QED  BY <4>2
    <3>2. TotalLength(d) - HeaderSize(d) \in Int
      BY <3>1, <1>4 DEF TotalLength
    <3> QED  BY <3>2, RemainderFits, WordFacts
  <2> HIDE DEF llen
  <2>2. llen \div 256 \in Byte /\ llen % 256 \in Byte
    BY <2>1, Halves DEF Byte
  <2>3. SegmentLength(d) = <<llen \div 256, llen % 256>>
    BY DEF SegmentLength, llen
  <2> QED  BY <2>2, <2>3
<1>7. <<0, d[10]>> \in Seq(Byte)
  BY <1>1, <1>2 DEF Byte
<1>8. ASSUME NEW address \in Seq(Byte) PROVE Long(address) \in Seq(Byte)
  <2>1. [i \in 1..(LongSize - 4) |-> 0] \in Seq(Byte)
    BY ChecksumAssumption DEF Byte
  <2> QED  BY <2>1, ConcatProperties DEF Long
<1>9. ASSUME NEW pad \in [1..(LongSize - 4) -> Junk] PROVE pad \in Seq(Byte)
  BY ChecksumAssumption
<1>10. Standard(d) \in Seq(Byte)
  BY <1>5, <1>6, <1>7, ConcatProperties DEF Standard
<1>11. ASSUME NEW pad \in [1..(LongSize - 4) -> Junk]
       PROVE  PseudoHeader(d, pad) \in Seq(Byte)
  BY <1>5, <1>6, <1>7, <1>8, <1>9, ConcatProperties DEF PseudoHeader
<1> QED  BY <1>5, <1>6, <1>7, <1>10, <1>11

(* The types, with the sum's bound in the form that folding asks for. *)
LEMMA TypeFacts ==
  ASSUME TypeOK
  PROVE  /\ temp \in Seq(Byte) /\ meant \in Seq(Byte)
         /\ \A i \in 1..Len(temp) : temp[i] \in Nat /\ temp[i] < 256
         /\ sum \in 0..(2 * Word - 2) /\ sum \in Nat
         /\ pc = "loop" => sum < Word
         /\ retval \in 0..(Word - 1) /\ total \in Nat
<1>1. \A i \in 1..Len(temp) : temp[i] \in Nat /\ temp[i] < 256
  BY Elements DEF TypeOK
<1>2. sum \in 0..(2 * Word - 2) /\ sum \in Nat
  BY WordFacts DEF TypeOK
<1> QED  BY <1>1, <1>2 DEF TypeOK

IdleClean == pc = "idle" => sum = 0 /\ total = 0

(* A call begins with bytes and a sum of nothing. *)
LEMMA BeginKeeps ==
  ASSUME Inv, IdleClean,
         NEW bytes \in Seq(Byte), NEW reference \in Seq(Byte),
         Begin(bytes, reference)
  PROVE  Inv'
<1>1. /\ pc' = "loop" /\ temp' = Passed(bytes) /\ meant' = reference
      /\ sum' = 0 /\ total' = 0 /\ retval' = retval
  BY DEF Begin, IdleClean
<1>2. Passed(bytes) \in Seq(Byte)
  <2>1. Len(bytes) % Word \in 0..Len(bytes)
    BY WordFacts, RemainderSmaller
  <2>2. \A i \in 1..(Len(bytes) % Word) : bytes[i] \in Byte
    BY <2>1, ElementOfSeq
  <2>3. Len(bytes) % Word \in Int
    BY <2>1
  <2> QED  BY <2>2, <2>3, SubSeqProperties DEF Passed
<1>3. TypeOK'
  BY <1>1, <1>2, WordFacts DEF Inv, TypeOK
<1>4. Folded' /\ Complements'
  BY <1>1 DEF Folded, Complements, Same
<1> QED  BY <1>3, <1>4 DEF Inv

(* Every step keeps the sum and what it stands for together. *)
LEMMA StepKeeps == Inv /\ IdleClean /\ [Next]_vars => Inv' /\ IdleClean'
<1> SUFFICES ASSUME Inv, IdleClean, [Next]_vars PROVE Inv' /\ IdleClean'
  OBVIOUS
<1>0. /\ temp \in Seq(Byte) /\ meant \in Seq(Byte)
      /\ \A i \in 1..Len(temp) : temp[i] \in Nat /\ temp[i] < 256
      /\ sum \in 0..(2 * Word - 2) /\ sum \in Nat
      /\ pc = "loop" => sum < Word
      /\ retval \in 0..(Word - 1) /\ total \in Nat
  BY TypeFacts DEF Inv
<1>1. ASSUME NEW d \in Data, Begin(d, d) PROVE Inv' /\ IdleClean'
  <2>1. d \in Seq(Byte)
    BY ChecksumAssumption
  <2> QED  BY <1>1, <2>1, BeginKeeps DEF IdleClean, Begin
<1>2. ASSUME NEW d \in Datagrams, ip_chksum(d) \/ tcp_chksum(d)
      PROVE  Inv' /\ IdleClean'
  <2>1. CASE ip_chksum(d)
    BY <2>1, DatagramBytes, BeginKeeps DEF IdleClean, Begin, ip_chksum
  <2>2. CASE tcp_chksum(d)
    <3>1. PICK pad \in [1..(LongSize - 4) -> Junk] :
            Begin(PseudoHeader(d, pad) \o Segment(d),
                  Standard(d) \o Segment(d))
      BY <2>2 DEF tcp_chksum
    <3>2. /\ PseudoHeader(d, pad) \o Segment(d) \in Seq(Byte)
          /\ Standard(d) \o Segment(d) \in Seq(Byte)
      BY DatagramBytes, ConcatProperties
    <3> QED  BY <3>1, <3>2, BeginKeeps DEF IdleClean, Begin
  <2> QED  BY <1>2, <2>1, <2>2
<1>3. CASE AddWord
  <2> DEFINE word == temp[1] + 256 * temp[2]
  <2>1. /\ pc = "loop" /\ UNCHANGED <<pc, retval, meant>>
        /\ sum' = Fold(sum + word) /\ total' = total + word
        /\ Len(temp) \in Nat /\ Len(temp) > 1 /\ sum < Word
        /\ temp' = SubSeq(temp, 3, Len(temp))
    BY <1>0, <1>3 DEF AddWord
  <2>2. word \in Nat /\ word < Word
    <3>1. /\ temp[1] \in Nat /\ temp[1] < 256
          /\ temp[2] \in Nat /\ temp[2] < 256
      BY <1>0, <2>1
    <3>2. temp[1] + 256 * temp[2] \in Nat /\ temp[1] + 256 * temp[2] < 256 * 256
      BY <3>1
    <3> QED  BY <3>2 DEF Word
  <2>3. temp' \in Seq(Byte)
    <3>1. \A i \in 1..Len(temp) : temp[i] \in Byte
      BY <1>0, ElementOfSeq
    <3> QED  BY <1>0, <2>1, <3>1, SubSeqProperties
  <2> HIDE DEF word
  <2>4. sum + word \in 0..(2 * Word - 2) /\ sum + word \in Nat
    BY <1>0, <2>1, <2>2, WordFacts
  <2>5. sum' \in 0..(Word - 1) /\ Same(sum', sum + word)
    BY <2>1, <2>4, FoldFacts
  <2>6. Same(sum + word, total + word)
    <3>1. Same(sum, total)
      BY <2>1 DEF Inv, Folded
    <3> QED  BY <3>1, <1>0, <2>2, SameAdds
  <2>7. Same(sum', total')
    BY <2>1, <2>5, <2>6 DEF Same
  <2>8. total' \in Nat /\ sum' \in 0..(Word + 254) /\ sum' < Word
    BY <1>0, <2>1, <2>2, <2>5, WordFacts
  <2>9. TypeOK'
    BY <1>0, <2>1, <2>3, <2>8 DEF TypeOK
  <2> QED  BY <2>1, <2>7, <2>9 DEF Inv, Folded, Complements, IdleClean
<1>4. CASE OddByte
  <2>1. /\ temp[1] \in Nat /\ temp[1] < 256 /\ sum < Word
        /\ pc = "loop" /\ pc' = "odd"
        /\ sum' = sum + temp[1] /\ total' = total + temp[1]
        /\ temp' = <<>> /\ UNCHANGED <<retval, meant>>
    BY <1>0, <1>4 DEF OddByte
  <2>2. Same(sum', total')
    <3>1. Same(sum, total)
      BY <2>1 DEF Inv, Folded
    <3>2. Same(sum + temp[1], total + temp[1])
      BY <3>1, <1>0, <2>1, SameAdds
    <3> QED  BY <2>1, <3>2
  <2>3. total' \in Nat /\ sum' \in 0..(Word + 254) /\ temp' \in Seq(Byte)
    BY <1>0, <2>1, WordFacts
  <2>4. TypeOK'
    BY <1>0, <2>1, <2>3 DEF TypeOK
  <2> QED  BY <2>1, <2>2, <2>4 DEF Inv, Folded, Complements, IdleClean
<1>5. CASE Finish
  <2>1. /\ pc \in {"loop", "odd"} /\ pc' = "done"
        /\ retval' = Word - 1 - Fold(sum)
        /\ UNCHANGED <<temp, sum, total, meant>>
    BY <1>5 DEF Finish
  <2>2. Fold(sum) \in 0..(Word - 1) /\ Same(Fold(sum), sum)
    BY <1>0, FoldFacts
  <2>3. Same(Fold(sum), total)
    BY <2>1, <2>2 DEF Inv, Folded, Same
  <2>4. retval' \in 0..(Word - 1) /\ retval' \in Nat /\ Fold(sum) \in Nat
        /\ Fold(sum) + retval' = Word - 1
    BY <2>1, <2>2, WordFacts
  <2>5. Same(Fold(sum) + retval', total + retval')
    BY <1>0, <2>3, <2>4, SameAdds
  <2>6. (total + retval') % (Word - 1) = 0
    BY <2>4, <2>5, SameNothing DEF Same
  <2>7. TypeOK'
    BY <2>1, <2>4 DEF Inv, TypeOK
  <2> QED
    BY <2>1, <2>6, <2>7 DEF Inv, Folded, Complements, IdleClean
<1>6. CASE Return
  <2>1. /\ pc' = "idle" /\ temp' = temp /\ meant' = <<>>
        /\ sum' = 0 /\ retval' = 0 /\ total' = 0
    BY <1>6 DEF Return
  <2>2. TypeOK'
    BY <1>0, <2>1, WordFacts DEF TypeOK
  <2> QED  BY <2>1, <2>2 DEF Inv, Folded, Complements, IdleClean
<1>7. CASE UNCHANGED vars
  BY <1>7 DEF vars, Inv, TypeOK, Folded, Complements, IdleClean
<1> QED  BY <1>1, <1>2, <1>3, <1>4, <1>5, <1>6, <1>7 DEF Next

(* For data of any length and content: what chksum() holds fits, *)
THEOREM TypeCorrect == Spec => []TypeOK
<1>1. Init => Inv /\ IdleClean
  BY WordFacts DEF Init, Inv, TypeOK, Folded, Complements, IdleClean
<1> QED  BY <1>1, StepKeeps, PTL DEF Spec, Inv

(* and what it returns complements all it was given. *)
THEOREM SumComplements == Spec => []Complements
<1>1. Init => Inv /\ IdleClean
  BY WordFacts DEF Init, Inv, TypeOK, Folded, Complements, IdleClean
<1> QED  BY <1>1, StepKeeps, PTL DEF Spec, Inv

----------------------------------------------------------------------------
(* The sum that is meant.                                                   *)

(* A set of numbers has a least one. *)
LEMMA Least ==
  ASSUME NEW S, S \subseteq Nat, S # {}
  PROVE  \E n \in S : \A m \in S : n <= m
<1> DEFINE LessThan == OpToRel(<, Nat)
<1>1. \E n \in S : \A m \in S : <<m, n>> \notin LessThan
  <2>1. IsWellFoundedOn(LessThan, Nat)
    BY NatLessThanWellFounded
  <2> HIDE DEF LessThan
  <2> QED  BY <2>1, WFMin
<1>2. PICK n \in S : \A m \in S : <<m, n>> \notin LessThan
  BY <1>1
<1>3. ASSUME NEW m \in S PROVE n <= m
  <2>1. n \in Nat /\ m \in Nat
    OBVIOUS
  <2>2. m < n => <<m, n>> \in LessThan
    BY <2>1 DEF OpToRel
  <2> HIDE DEF LessThan
  <2> QED  BY <1>2, <2>1, <2>2
<1> QED  BY <1>2, <1>3

(* What the i-th byte adds. *)
Weight(bytes, i) == IF i % 2 = 1 THEN bytes[i] ELSE 256 * bytes[i]

(* f tells what the first n bytes, and all shorter prefixes, come to. *)
Adds(f, bytes, n) ==
  f = [i \in 0..n |-> IF i = 0 THEN 0 ELSE f[i - 1] + Weight(bytes, i)]

LEMMA AddsSome ==
  ASSUME NEW bytes, NEW n \in Nat
  PROVE  \E f : Adds(f, bytes, n)
<1> DEFINE None == {m \in Nat : ~ \E f : Adds(f, bytes, m)}
<1>1. None = {}
  <2>1. SUFFICES ASSUME None # {} PROVE FALSE
    OBVIOUS
  <2>2. None \subseteq Nat
    OBVIOUS
  <2>3. PICK m \in None : \A k \in None : m <= k
    <3> HIDE DEF None
    <3> QED  BY <2>1, <2>2, Least
  <2>4. m \in Nat /\ ~ \E f : Adds(f, bytes, m)
    BY <2>3
  <2>5. m # 0
    <3> DEFINE f == [i \in 0..0 |-> 0]
    <3>1. Adds(f, bytes, 0)
      BY DEF Adds
    <3> HIDE DEF f
    <3> QED  BY <2>4, <3>1
  <2>6. PICK f : Adds(f, bytes, m - 1)
    <3>1. m - 1 \in Nat /\ ~(m <= m - 1)
      BY <2>4, <2>5
    <3>2. m - 1 \notin None
      <4> HIDE DEF None
      <4> QED  BY <2>3, <3>1
    <3> QED  BY <3>1, <3>2
  <2> DEFINE g == [i \in 0..m |-> IF i = m THEN f[m - 1] + Weight(bytes, m)
                                  ELSE f[i]]
  <2>7. \A i \in 0..(m - 1) :
          f[i] = IF i = 0 THEN 0 ELSE f[i - 1] + Weight(bytes, i)
    BY <2>6 DEF Adds
  <2>8. ASSUME NEW i \in 0..m
        PROVE  g[i] = IF i = 0 THEN 0 ELSE g[i - 1] + Weight(bytes, i)
    <3>1. i # 0 => i - 1 \in 0..m /\ i - 1 # m /\ g[i - 1] = f[i - 1]
      BY <2>4
    <3>2. i # m => i \in 0..(m - 1) /\ g[i] = f[i]
      BY <2>4
    <3>3. g[m] = f[m - 1] + Weight(bytes, m)
      BY <2>4
    <3> HIDE DEF g
    <3> QED  BY <2>4, <2>5, <2>7, <3>1, <3>2, <3>3
  <2>9. Adds(g, bytes, m)
    BY <2>8 DEF Adds
  <2> HIDE DEF g
  <2> QED  BY <2>4, <2>9
<1> QED  BY <1>1

(* What the first k bytes come to. *)
Upto(bytes) == CHOOSE f : Adds(f, bytes, Len(bytes))

LEMMA UptoFacts ==
  ASSUME NEW bytes, Len(bytes) \in Nat
  PROVE  /\ Upto(bytes)[0] = 0
         /\ \A k \in 1..Len(bytes) :
              Upto(bytes)[k] = Upto(bytes)[k - 1] + Weight(bytes, k)
         /\ WordSum(bytes) = Upto(bytes)[Len(bytes)]
<1>1. Adds(Upto(bytes), bytes, Len(bytes))
  BY AddsSome DEF Upto
<1>2. WordSum(bytes) = Upto(bytes)[Len(bytes)]
  BY DEF WordSum, Upto, Adds, Weight
<1> HIDE DEF Upto
<1>3. \A i \in 0..Len(bytes) :
        Upto(bytes)[i] = IF i = 0 THEN 0
                         ELSE Upto(bytes)[i - 1] + Weight(bytes, i)
  BY <1>1 DEF Adds
<1> QED  BY <1>2, <1>3

(* How many bytes chksum() has read, *)
Read == Len(meant) - Len(temp)

(* and that it has added these, the bytes the caller meant: an even number of
   them, as long as it reads words. *)
Progress ==
  LongSize = 4 /\ pc # "idle" =>
    /\ Len(temp) <= Len(meant)
    /\ \A i \in 1..Len(temp) : temp[i] = meant[Read + i]
    /\ pc = "loop" => Read % 2 = 0
    /\ pc # "loop" => temp = <<>>
    /\ total = Upto(meant)[Read]

LEMMA Together ==
  ASSUME NEW front \in Seq(Byte), NEW back \in Seq(Byte)
  PROVE  /\ front \o back \in Seq(Byte)
         /\ Len(front \o back) = Len(front) + Len(back)
BY ConcatProperties

(* What the callers hand over is what they mean, where an unsigned long has four
   bytes, and the parameter can hold its length. *)
LEMMA BytesMeant ==
  ASSUME NEW d \in Datagrams, LongSize = 4,
         NEW pad \in [1..(LongSize - 4) -> Junk]
  PROVE  /\ PseudoHeader(d, pad) \o Segment(d) = Standard(d) \o Segment(d)
         /\ Len(Standard(d) \o Segment(d)) < Word
         /\ Len(SubSeq(d, 1, HeaderSize(d))) < Word
<1>1. /\ d \in Seq(Byte) /\ Len(d) \in Nat /\ Len(d) >= 20
      /\ HeaderSize(d) \in 20..Len(d) /\ TotalLength(d) = Len(d)
  BY ChecksumAssumption DEF IsDatagram
<1>2. /\ Segment(d) \in Seq(Byte) /\ Source(d) \in Seq(Byte)
      /\ Destination(d) \in Seq(Byte)
      /\ Len(Segment(d)) = Len(d) - HeaderSize(d)
      /\ Len(Source(d)) = 4 /\ Len(Destination(d)) = 4
  <2>1. \A i \in 1..Len(d) : d[i] \in Byte
    BY <1>1
  <2>2. ASSUME NEW i \in Nat, NEW j \in Nat, i >= 1, j <= Len(d), i <= j + 1
        PROVE  SubSeq(d, i, j) \in Seq(Byte) /\ Len(SubSeq(d, i, j)) = j - i + 1
    BY <1>1, <2>1, <2>2, SubSeqProperties
  <2>3. HeaderSize(d) \in Nat /\ HeaderSize(d) <= Len(d)
    BY <1>1
  <2>4. Segment(d) \in Seq(Byte) /\ Len(Segment(d)) = Len(d) - HeaderSize(d)
    <3> DEFINE h == HeaderSize(d) + 1
    <3>1. h \in Nat /\ h >= 1 /\ h <= Len(d) + 1
      BY <2>3, <1>1
    <3>2. Segment(d) = SubSeq(d, h, Len(d))
      BY DEF Segment
    <3>3. Len(d) - h + 1 = Len(d) - HeaderSize(d)
      BY <2>3, <1>1
    <3> HIDE DEF h
    <3> QED  BY <1>1, <2>2, <3>1, <3>2, <3>3
  <2>5. /\ Source(d) \in Seq(Byte) /\ Len(Source(d)) = 4
        /\ Destination(d) \in Seq(Byte) /\ Len(Destination(d)) = 4
    BY <1>1, <2>2 DEF Source, Destination
  <2> QED  BY <2>4, <2>5
<1>3. pad = <<>> /\ [i \in 1..(LongSize - 4) |-> 0] = <<>>
  OBVIOUS
<1>4. Long(Source(d)) = Source(d) /\ Long(Destination(d)) = Destination(d)
  <2>1. \A s \in Seq(Byte) : s \o <<>> = s
    OBVIOUS
  <2> QED  BY <1>2, <1>3, <2>1 DEF Long
<1>5. /\ Standard(d) \in Seq(Byte) /\ Len(Standard(d)) = 12
  <2>1. Standard(d) \in Seq(Byte)
    BY DatagramBytes
  <2> DEFINE protocol == <<0, d[10]>>
             addresses == Source(d) \o Destination(d)
  <2>2. protocol \in Seq(Byte) /\ SegmentLength(d) \in Seq(Byte)
    BY DatagramBytes
  <2>3. Len(protocol) = 2 /\ Len(SegmentLength(d)) = 2
    BY DEF SegmentLength
  <2>4. Standard(d) = (addresses \o protocol) \o SegmentLength(d)
    BY DEF Standard
  <2>5. addresses \in Seq(Byte) /\ Len(addresses) = 8
    <3>1. Len(Source(d) \o Destination(d)) = 4 + 4
      BY <1>2, Together
    <3>2. Source(d) \o Destination(d) \in Seq(Byte)
      BY <1>2, Together
    <3> QED  BY <3>1, <3>2
  <2> HIDE DEF protocol, addresses
  <2>6. /\ addresses \o protocol \in Seq(Byte)
        /\ Len(addresses \o protocol) = 10
    <3>1. Len(addresses \o protocol) = 8 + 2
      BY <2>2, <2>3, <2>5, Together
    <3> QED  BY <2>2, <2>5, <3>1, Together
  <2>7. Len((addresses \o protocol) \o SegmentLength(d)) = 12
    <3>1. Len((addresses \o protocol) \o SegmentLength(d)) = 10 + 2
      BY <2>2, <2>3, <2>6, Together
    <3> QED  BY <3>1
  <2> QED  BY <2>1, <2>4, <2>7
<1>6. PseudoHeader(d, pad) = Standard(d)
  <2>1. PseudoHeader(d, pad) = Standard(d) \o <<>>
    BY <1>3, <1>4 DEF PseudoHeader, Standard
  <2> QED  BY <1>5, <2>1
<1>7. Len(d) < Word
  <2>1. 3 \in 1..Len(d) /\ 4 \in 1..Len(d)
    BY <1>1
  <2>2. d[3] \in Nat /\ d[3] < 256 /\ d[4] \in Nat /\ d[4] < 256
    BY <1>1, <2>1, Elements
  <2> QED  BY <1>1, <2>2 DEF TotalLength, Word
<1>8. Len(Standard(d) \o Segment(d)) = 12 + (Len(d) - HeaderSize(d))
  <2>1. Len(Standard(d) \o Segment(d)) = Len(Standard(d)) + Len(Segment(d))
    BY <1>2, <1>5, ConcatProperties
  <2> QED  BY <1>2, <1>5, <2>1
<1>9. Len(SubSeq(d, 1, HeaderSize(d))) = HeaderSize(d)
  BY <1>1
<1> QED  BY <1>1, <1>6, <1>7, <1>8, <1>9, WordFacts

(* A call begins with nothing read. *)
LEMMA BeginProgress ==
  ASSUME IdleClean, NEW bytes \in Seq(Byte), Len(bytes) < Word,
         Begin(bytes, bytes)
  PROVE  Progress'
<1>1. /\ pc' = "loop" /\ temp' = Passed(bytes) /\ meant' = bytes /\ total' = 0
  BY DEF Begin, IdleClean
<1>2. Passed(bytes) = bytes
  <2>1. Len(bytes) \in Nat /\ Len(bytes) % Word = Len(bytes)
    BY WordFacts
  <2> QED  BY <2>1 DEF Passed
<1>3. Read' = 0 /\ Len(bytes) \in Nat
  BY <1>1, <1>2 DEF Read
<1>4. Upto(bytes)[0] = 0
  BY <1>3, UptoFacts
<1> QED  BY <1>1, <1>2, <1>3, <1>4 DEF Progress

LEMMA StepProgress ==
  Inv /\ IdleClean /\ Progress /\ [Next]_vars => Progress'
<1> SUFFICES ASSUME Inv, IdleClean, Progress, [Next]_vars, LongSize = 4
             PROVE  Progress'
  BY DEF Progress
<1>0. /\ temp \in Seq(Byte) /\ meant \in Seq(Byte)
      /\ Len(temp) \in Nat /\ Len(meant) \in Nat
  BY TypeFacts DEF Inv
<1>1. ASSUME NEW d \in Data, Begin(d, d) PROVE Progress'
  <2>1. d \in Seq(Byte) /\ Len(d) < Word
    BY ChecksumAssumption
  <2> QED  BY <1>1, <2>1, BeginProgress
<1>2. ASSUME NEW d \in Datagrams, ip_chksum(d) PROVE Progress'
  <2>1. SubSeq(d, 1, HeaderSize(d)) \in Seq(Byte)
    BY DatagramBytes
  <2>2. Len(SubSeq(d, 1, HeaderSize(d))) < Word
    <3>1. <<>> \in [1..(LongSize - 4) -> Junk]
      OBVIOUS
    <3> QED  BY <3>1, BytesMeant
  <2> QED  BY <1>2, <2>1, <2>2, BeginProgress DEF ip_chksum
<1>3. ASSUME NEW d \in Datagrams, tcp_chksum(d) PROVE Progress'
  <2>1. PICK pad \in [1..(LongSize - 4) -> Junk] :
          Begin(PseudoHeader(d, pad) \o Segment(d), Standard(d) \o Segment(d))
    BY <1>3 DEF tcp_chksum
  <2> DEFINE bytes == Standard(d) \o Segment(d)
  <2>2. Begin(bytes, bytes) /\ Len(bytes) < Word
    BY <2>1, BytesMeant
  <2>3. bytes \in Seq(Byte)
    BY DatagramBytes, ConcatProperties
  <2> HIDE DEF bytes
  <2> QED  BY <2>2, <2>3, BeginProgress
<1>4. CASE AddWord
  <2>1. /\ pc = "loop" /\ pc' = "loop" /\ meant' = meant
        /\ Len(temp) > 1
        /\ total' = total + (temp[1] + 256 * temp[2])
        /\ temp' = SubSeq(temp, 3, Len(temp))
    BY <1>4 DEF AddWord
  <2>2. /\ Len(temp) <= Len(meant)
        /\ \A i \in 1..Len(temp) : temp[i] = meant[Read + i]
        /\ Read % 2 = 0 /\ total = Upto(meant)[Read]
    BY <2>1 DEF Progress
  <2>3. Len(temp') = Len(temp) - 2
        /\ \A i \in 1..(Len(temp) - 2) : temp'[i] = temp[i + 2]
    <3> DEFINE n == Len(temp)
               rest == SubSeq(temp, 3, n)
    <3>1. \A i \in 3..n : temp[i] \in Byte
      BY <1>0
    <3>2. /\ n \in Nat /\ n - 3 + 1 = n - 2
          /\ (3 <= n \/ n - 2 = 0)
      <4>1. n \in Nat /\ n > 1
        BY <1>0, <2>1
      <4> HIDE DEF n
      <4> QED  BY <4>1
    <3>3. /\ Len(rest) = IF 3 <= n THEN n - 3 + 1 ELSE 0
          /\ \A i \in 1..(n - 3 + 1) : rest[i] = temp[3 + i - 1]
      BY <3>1, <3>2, SubSeqProperties
    <3>4. \A i \in 1..(n - 2) : 3 + i - 1 = i + 2
      BY <3>2
    <3>5. temp' = rest
      BY <2>1
    <3> HIDE DEF rest
    <3> QED  BY <3>2, <3>3, <3>4, <3>5
  <2>4. Read \in Nat /\ Read' = Read + 2 /\ Read + 2 <= Len(meant)
    <3>1. Read' = Len(meant) - Len(temp')
      BY <2>1 DEF Read
    <3>2. Len(temp') = Len(temp) - 2
      BY <2>3
    <3> DEFINE n == Len(temp)
               m == Len(meant)
    <3>3. n \in Nat /\ m \in Nat /\ n > 1 /\ n <= m /\ Read = m - n
      BY <1>0, <2>1, <2>2 DEF Read
    <3>4. Read' = m - (n - 2)
      BY <3>1, <3>2
    <3> HIDE DEF n
    <3> QED  BY <3>3, <3>4
  <2> DEFINE k == Read
  <2>5. k \in Nat /\ k % 2 = 0 /\ k + 2 <= Len(meant)
        /\ (k + 1) % 2 = 1 /\ (k + 2) % 2 = 0
    BY <2>2, <2>4
  <2>6. temp[1] = meant[k + 1] /\ temp[2] = meant[k + 2]
    BY <1>0, <2>1, <2>2
  <2>7. ASSUME NEW i \in 1..Len(temp') PROVE temp'[i] = meant[Read' + i]
    <3>1. i + 2 \in 1..Len(temp) /\ i \in 1..(Len(temp) - 2)
      BY <1>0, <2>1, <2>3
    <3>2. temp'[i] = meant[Read + (i + 2)]
      BY <2>2, <2>3, <3>1
    <3>3. Read + (i + 2) = Read' + i
      BY <2>4, <3>1
    <3> QED  BY <3>2, <3>3
  <2> HIDE DEF k
  <2>8. /\ Upto(meant)[k + 1] = Upto(meant)[k] + meant[k + 1]
        /\ Upto(meant)[k + 2] = Upto(meant)[k + 1] + 256 * meant[k + 2]
    <3>1. /\ k + 1 \in 1..Len(meant) /\ (k + 1) - 1 = k
          /\ k + 2 \in 1..Len(meant) /\ (k + 2) - 1 = k + 1
      BY <1>0, <2>5
    <3>2. /\ Weight(meant, k + 1) = meant[k + 1]
          /\ Weight(meant, k + 2) = 256 * meant[k + 2]
      BY <2>5 DEF Weight
    <3>3. \A i \in 1..Len(meant) :
            Upto(meant)[i] = Upto(meant)[i - 1] + Weight(meant, i)
      BY <1>0, UptoFacts
    <3> QED  BY <3>1, <3>2, <3>3
  <2>9. total' = Upto(meant)[k + 2]
    <3>1. total = Upto(meant)[k]
      BY <2>2 DEF k
    <3>2. total \in Nat
      BY TypeFacts DEF Inv
    <3>3. meant[k + 1] \in Nat /\ meant[k + 2] \in Nat
      BY <1>0, <2>5, Elements
    <3> QED  BY <2>1, <2>6, <2>8, <3>1, <3>2, <3>3
  <2>10. Len(temp') <= Len(meant')
    BY <1>0, <2>1, <2>2, <2>3
  <2>11. Read' % 2 = 0 /\ total' = Upto(meant')[Read']
    BY <2>1, <2>4, <2>5, <2>9 DEF k
  <2> QED  BY <2>1, <2>7, <2>10, <2>11 DEF Progress
<1>5. CASE OddByte
  <2>1. /\ pc = "loop" /\ pc' = "odd" /\ meant' = meant /\ Len(temp) = 1
        /\ total' = total + temp[1] /\ temp' = <<>>
    BY <1>5 DEF OddByte
  <2>2. /\ Len(temp) <= Len(meant) /\ temp[1] = meant[Read + 1]
        /\ Read % 2 = 0 /\ total = Upto(meant)[Read]
    BY <2>1 DEF Progress
  <2> DEFINE k == Read
  <2>3. k \in Nat /\ k + 1 = Len(meant) /\ Read' = Len(meant)
        /\ (k + 1) % 2 = 1
    BY <1>0, <2>1, <2>2 DEF Read
  <2> HIDE DEF k
  <2>4. Upto(meant)[k + 1] = Upto(meant)[k] + meant[k + 1]
    <3>1. k + 1 \in 1..Len(meant) /\ (k + 1) - 1 = k
      BY <1>0, <2>3
    <3>2. Weight(meant, k + 1) = meant[k + 1]
      BY <2>3 DEF Weight
    <3>3. \A i \in 1..Len(meant) :
            Upto(meant)[i] = Upto(meant)[i - 1] + Weight(meant, i)
      BY <1>0, UptoFacts
    <3> QED  BY <3>1, <3>2, <3>3
  <2>5. total' = Upto(meant')[Read']
    BY <2>1, <2>2, <2>3, <2>4 DEF k
  <2> QED  BY <1>0, <2>1, <2>5 DEF Progress
<1>6. CASE Finish
  <2>1. /\ pc \in {"loop", "odd"} /\ pc' = "done" /\ temp = <<>>
        /\ UNCHANGED <<temp, meant, total>>
    BY <1>6 DEF Finish
  <2>2. Read' = Read
    BY <2>1 DEF Read
  <2> QED  BY <2>1, <2>2 DEF Progress
<1>7. CASE Return
  BY <1>7 DEF Return, Progress
<1>8. CASE UNCHANGED vars
  <2>1. Read' = Read
    BY <1>8 DEF vars, Read
  <2> QED  BY <1>8, <2>1 DEF vars, Progress
<1> QED  BY <1>1, <1>2, <1>3, <1>4, <1>5, <1>6, <1>7, <1>8 DEF Next

(* Where an unsigned long has four bytes, what is summed for a packet of any
   length, with options and with an odd byte or without, is the sum that the
   standard asks for. *)
THEOREM SumsRight == Spec => []SumsMeant
<1>1. Init => Inv /\ IdleClean /\ Progress
  BY WordFacts DEF Init, Inv, TypeOK, Folded, Complements, IdleClean, Progress
<1>2. Inv /\ Progress => SumsMeant
  <2> SUFFICES ASSUME Inv, Progress, pc = "done", LongSize = 4
               PROVE  total = WordSum(meant)
    BY DEF SumsMeant
  <2>1. temp = <<>> /\ total = Upto(meant)[Read]
    BY DEF Progress
  <2>2. Len(meant) \in Nat
    BY TypeFacts DEF Inv
  <2>3. Read = Len(meant)
    BY <2>1, <2>2 DEF Read
  <2> QED  BY <2>1, <2>2, <2>3, UptoFacts
<1> QED  BY <1>1, <1>2, StepKeeps, StepProgress, PTL DEF Spec
=============================================================================
