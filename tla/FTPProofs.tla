------------------------------ MODULE FTPProofs -----------------------------
(***************************************************************************)
(* Proofs about FTP::parse(), for payloads of any length and content: it    *)
(* keeps one line for every line end and one for what is behind the last,   *)
(* and the lines of a payload that obeys the protocol are all of it.        *)
(***************************************************************************)
EXTENDS FTP, FiniteSetTheorems, SequenceTheorems, WellFoundedInduction, TLAPS

(* A set of positions has a first one. *)
LEMMA Least ==
  ASSUME NEW S, S \subseteq Nat, S # {}
  PROVE  \E n \in S : \A m \in S : n <= m
<1> DEFINE LessThan == OpToRel(<, Nat)
<1>1. \E n \in S : \A m \in S : <<m, n>> \notin LessThan
  <2>1. IsWellFoundedOn(LessThan, Nat)
    BY NatLessThanWellFounded
  <2> HIDE DEF LessThan
  <2> QED  BY <2>1, WFMin
<1>2. PICK n \in S : \A m \in S : <<m, n>> \notin LessThan
  BY <1>1
<1>3. ASSUME NEW m \in S PROVE n <= m
  <2>1. n \in Nat /\ m \in Nat
    OBVIOUS
  <2>2. m < n => <<m, n>> \in LessThan
    BY <2>1 DEF OpToRel
  <2> HIDE DEF LessThan
  <2> QED  BY <1>2, <2>1, <2>2
<1> QED  BY <1>2, <1>3

(* find_first_of() finds the first place, if there is one. *)
LEMMA FirstOf ==
  ASSUME NEW S, NEW s \in Seq(S), NEW c, NEW from \in Nat,
         NEW p, p = find_first_of(s, c, from)
  PROVE  \/ p = npos /\ \A i \in from..(Len(s) - 1) : s[i + 1] # c
         \/ /\ p \in from..(Len(s) - 1) /\ p \in Nat /\ s[p + 1] = c
            /\ \A j \in from..(p - 1) : s[j + 1] # c
<1> DEFINE Here == {i \in From(s, from) : s[i + 1] = c}
<1>1. From(s, from) = from..(Len(s) - 1) /\ Len(s) \in Nat
  BY DEF From, npos
<1>2. CASE Here = {}
  BY <1>1, <1>2 DEF find_first_of
<1>3. CASE Here # {}
  <2>1. PICK i \in Here : \A j \in Here : i <= j
    <3>1. Here \subseteq Nat
      BY <1>1
    <3> HIDE DEF Here
    <3> QED  BY <1>3, <3>1, Least
  <2>2. ASSUME NEW j \in from..(i - 1) PROVE s[j + 1] # c
    <3>1. j \in From(s, from) /\ ~(i <= j)
      BY <1>1
    <3>2. j \notin Here
      BY <2>1, <3>1
    <3> QED  BY <3>1, <3>2
  <2>3. /\ p \in From(s, from) /\ s[p + 1] = c
        /\ \A j \in from..(p - 1) : s[j + 1] # c
    BY <2>1, <2>2 DEF find_first_of
  <2> QED  BY <1>1, <2>3
<1> QED  BY <1>2, <1>3

----------------------------------------------------------------------------
(* Lines joined.                                                            *)

(* Up to n, text at a place is what the lines up to there come to. *)
Grows(text, lines, n) ==
  \A i \in 1..n : text[i] = IF i = 1 THEN lines[1]
                            ELSE text[i - 1] \o <<CR, LF>> \o lines[i]

(* text is the function Joined() defines. *)
Joins(text, lines) ==
  text = [i \in 1..Len(lines) |->
            IF i = 1 THEN lines[1] ELSE text[i - 1] \o <<CR, LF>> \o lines[i]]

(* No two functions differ that grow with the same lines, *)
LEMMA JoinsOnce ==
  ASSUME NEW lines, NEW n \in Nat, n > 0, NEW f, NEW g,
         Grows(f, lines, n), Grows(g, lines, n)
  PROVE  f[n] = g[n]
<1> DEFINE Differ == {i \in 1..n : f[i] # g[i]}
<1>1. SUFFICES ASSUME Differ # {} PROVE FALSE
  BY DEF Differ
<1>2. Differ \subseteq Nat
  OBVIOUS
<1>3. PICK i \in Differ : \A j \in Differ : i <= j
  <2> HIDE DEF Differ
  <2> QED  BY <1>1, <1>2, Least
<1>4. i \in 1..n /\ f[i] # g[i]
  BY <1>3
<1>5. CASE i = 1
  BY <1>4, <1>5 DEF Grows
<1>6. CASE i # 1
  <2>1. i - 1 \in 1..n /\ ~(i <= i - 1)
    BY <1>4, <1>6
  <2>2. f[i - 1] = g[i - 1]
    BY <1>3, <2>1
  <2> QED  BY <1>4, <1>6, <2>2 DEF Grows
<1> QED  BY <1>5, <1>6

(* and there is one for every sequence of lines, *)
LEMMA JoinsSome ==
  ASSUME NEW lines, Len(lines) \in Nat
  PROVE  \E text : Joins(text, lines)
<1> DEFINE Upto(text, n) ==
             text = [i \in 1..n |->
                       IF i = 1 THEN lines[1]
                       ELSE text[i - 1] \o <<CR, LF>> \o lines[i]]
           None == {n \in Nat : ~ \E text : Upto(text, n)}
<1>1. None = {}
  <2>1. SUFFICES ASSUME None # {} PROVE FALSE
    OBVIOUS
  <2>2. None \subseteq Nat
    OBVIOUS
  <2>3. PICK n \in None : \A m \in None : n <= m
    <3> HIDE DEF None
    <3> QED  BY <2>1, <2>2, Least
  <2>4. n \in Nat /\ ~ \E text : Upto(text, n)
    BY <2>3
  <2>5. n # 0
    <3>1. Upto(<<>>, 0)
      OBVIOUS
    <3> HIDE DEF Upto
    <3> QED  BY <2>4, <3>1
  <2>6. PICK f : Upto(f, n - 1)
    <3>1. n - 1 \in Nat /\ ~(n <= n - 1)
      BY <2>4, <2>5
    <3>2. n - 1 \notin None
      <4> HIDE DEF None
      <4> QED  BY <2>3, <3>1
    <3> HIDE DEF Upto
    <3> QED  BY <3>1, <3>2
  <2> DEFINE g == [i \in 1..n |->
                     IF i = n
                     THEN IF n = 1 THEN lines[1]
                          ELSE f[n - 1] \o <<CR, LF>> \o lines[n]
                     ELSE f[i]]
  <2>7. \A i \in 1..(n - 1) :
          f[i] = IF i = 1 THEN lines[1]
                 ELSE f[i - 1] \o <<CR, LF>> \o lines[i]
    BY <2>6
  <2>8. ASSUME NEW i \in 1..n
        PROVE  g[i] = IF i = 1 THEN lines[1]
                      ELSE g[i - 1] \o <<CR, LF>> \o lines[i]
    <3>1. i # 1 => i - 1 \in 1..n /\ i - 1 # n /\ g[i - 1] = f[i - 1]
      BY <2>4
    <3>2. i # n => i \in 1..(n - 1) /\ g[i] = f[i]
      BY <2>4
    <3>3. g[n] = IF n = 1 THEN lines[1]
                 ELSE f[n - 1] \o <<CR, LF>> \o lines[n]
      BY <2>4, <2>5
    <3> HIDE DEF g
    <3> QED  BY <2>7, <3>1, <3>2, <3>3
  <2>9. Upto(g, n)
    BY <2>8
  <2> HIDE DEF Upto
  <2> QED  BY <2>4, <2>9
<1>2. PICK text : Upto(text, Len(lines))
  <2> HIDE DEF Upto
  <2> QED  BY <1>1
<1> QED  BY <1>2 DEF Joins

(* so that Joined() is what it is meant to be. *)
LEMMA JoinedText ==
  ASSUME NEW lines, Len(lines) \in Nat
  PROVE  \E text : Joins(text, lines) /\ Joined(lines) = text[Len(lines)]
<1> DEFINE text == CHOOSE f : Joins(f, lines)
<1>1. Joins(text, lines)
  BY JoinsSome
<1>2. Joined(lines) = text[Len(lines)]
  BY DEF Joined, Joins
<1> QED  BY <1>1, <1>2

(* One line joined is itself, *)
LEMMA JoinedOne ==
  ASSUME NEW line1
  PROVE  Joined(<<line1>>) = line1
<1>1. PICK text : /\ Joins(text, <<line1>>)
                  /\ Joined(<<line1>>) = text[Len(<<line1>>)]
  BY JoinedText
<1> QED  BY <1>1 DEF Joins

(* and one line more adds itself, behind a line end. *)
LEMMA JoinedAppend ==
  ASSUME NEW S, NEW lines \in Seq(S), NEW more \in S, Len(lines) > 0
  PROVE  Joined(Append(lines, more)) = Joined(lines) \o <<CR, LF>> \o more
<1> DEFINE n == Len(lines)
           all == Append(lines, more)
<1>1. /\ n \in Nat /\ Len(all) = n + 1 /\ all[n + 1] = more
      /\ \A i \in 1..n : all[i] = lines[i]
  OBVIOUS
<1>2. PICK f : Joins(f, lines) /\ Joined(lines) = f[n]
  BY <1>1, JoinedText
<1>3. PICK g : Joins(g, all) /\ Joined(all) = g[n + 1]
  <2>1. Len(all) \in Nat
    BY <1>1
  <2> HIDE DEF all
  <2>2. PICK g : Joins(g, all) /\ Joined(all) = g[Len(all)]
    BY <2>1, JoinedText
  <2> QED  BY <1>1, <2>2
<1>4. Grows(f, lines, n)
  BY <1>2 DEF Joins, Grows
<1> HIDE DEF all
<1>5. \A i \in 1..(n + 1) : g[i] = IF i = 1 THEN all[1]
                                   ELSE g[i - 1] \o <<CR, LF>> \o all[i]
  BY <1>1, <1>3 DEF Joins
<1>6. Grows(g, lines, n)
  <2>1. ASSUME NEW i \in 1..n
        PROVE  g[i] = IF i = 1 THEN lines[1]
                      ELSE g[i - 1] \o <<CR, LF>> \o lines[i]
    <3>1. i \in 1..(n + 1) /\ (i = 1 => all[1] = lines[1])
          /\ all[i] = lines[i]
      BY <1>1
    <3> QED  BY <1>5, <3>1
  <2> QED  BY <2>1 DEF Grows
<1>7. f[n] = g[n]
  BY <1>1, <1>4, <1>6, JoinsOnce
<1>8. g[n + 1] = g[n] \o <<CR, LF>> \o more
  <2>1. n + 1 \in 1..(n + 1) /\ n + 1 # 1 /\ (n + 1) - 1 = n
    BY <1>1
  <2>2. g[n + 1] = g[(n + 1) - 1] \o <<CR, LF>> \o all[n + 1]
    BY <1>5, <2>1
  <2> QED  BY <1>1, <2>1, <2>2
<1> QED  BY <1>2, <1>3, <1>7, <1>8 DEF all

----------------------------------------------------------------------------
(* A turn of the loop.                                                      *)

(* The lines before stay, and the line is one of those added. *)
LEMMA AddedAppend ==
  ASSUME NEW S, NEW old \in Seq(S), NEW lines \in Seq(S), NEW more \in S,
         IsPrefix(old, lines)
  PROVE  /\ IsPrefix(old, Append(lines, more))
         /\ Len(old) <= Len(lines)
         /\ SubSeq(Append(lines, more), Len(old) + 1, Len(lines) + 1)
              = Append(SubSeq(lines, Len(old) + 1, Len(lines)), more)
<1> DEFINE k == Len(old)
           n == Len(lines)
           all == Append(lines, more)
           added == SubSeq(lines, k + 1, n)
<1>1. /\ k \in Nat /\ n \in Nat /\ k <= n
      /\ SubSeq(old, 1, k) = SubSeq(lines, 1, k)
  BY DEF IsPrefix
<1>2. /\ Len(all) = n + 1 /\ all[n + 1] = more /\ all \in Seq(S)
      /\ \A i \in 1..n : all[i] = lines[i]
  OBVIOUS
<1>3. /\ added \in Seq(S) /\ Len(added) = n - k
      /\ \A i \in 1..(n - k) : added[i] = lines[(k + 1) + i - 1]
  <2>1. \A i \in (k + 1)..n : lines[i] \in S
    BY <1>1
  <2> QED  BY <1>1, <2>1, SubSeqProperties
<1> HIDE DEF k, n, all
<1>4. IsPrefix(old, all)
  <2>1. SubSeq(all, 1, k) = SubSeq(lines, 1, k)
    BY <1>1, <1>2
  <2> QED  BY <1>1, <1>2, <2>1 DEF IsPrefix, k
<1>5. SubSeq(all, k + 1, n + 1) = Append(added, more)
  <2> DEFINE part == SubSeq(all, k + 1, n + 1)
  <2>1. /\ part \in Seq(S) /\ Len(part) = n + 1 - k
        /\ \A i \in 1..(n + 1 - k) : part[i] = all[(k + 1) + i - 1]
    <3>1. \A i \in (k + 1)..(n + 1) : all[i] \in S
      BY <1>1, <1>2
    <3> QED  BY <1>1, <1>2, <3>1, SubSeqProperties
  <2> HIDE DEF part, added
  <2>2. /\ Append(added, more) \in Seq(S)
        /\ Len(Append(added, more)) = n + 1 - k
        /\ Append(added, more)[n + 1 - k] = more
        /\ \A i \in 1..(n - k) : Append(added, more)[i] = added[i]
    <3>1. n - k \in Nat /\ (n - k) + 1 = n + 1 - k
      BY <1>1
    <3>2. /\ Append(added, more) \in Seq(S)
          /\ Len(Append(added, more)) = (n - k) + 1
          /\ Append(added, more)[(n - k) + 1] = more
          /\ \A i \in 1..(n - k) : Append(added, more)[i] = added[i]
      BY <1>3, <3>1, AppendProperties
    <3> QED  BY <3>1, <3>2
  <2>3. ASSUME NEW i \in 1..(n + 1 - k) PROVE part[i] = Append(added, more)[i]
    <3>1. CASE i = n + 1 - k
      <4>1. (k + 1) + i - 1 = n + 1
        BY <1>1, <3>1
      <4> QED  BY <1>2, <2>1, <2>2, <3>1, <4>1
    <3>2. CASE i # n + 1 - k
      <4>1. i \in 1..(n - k) /\ (k + 1) + i - 1 \in 1..n
        BY <1>1, <3>2
      <4> QED  BY <1>2, <1>3, <2>1, <2>2, <4>1
    <3> QED  BY <3>1, <3>2
  <2>4. part = Append(added, more)
    BY <2>1, <2>2, <2>3, SeqEqual
  <2> QED  BY <2>4 DEF part
<1> QED  BY <1>1, <1>4, <1>5 DEF k, n, all, added

(* The lines behind the first k, each with its end, are the payload up to l. *)
Whole(b, k, lines, l) ==
  IF Len(lines) = k THEN l = 0
  ELSE Joined(SubSeq(lines, k + 1, Len(lines))) \o <<CR, LF>> = SubSeq(b, 1, l)

LEMMA WholeAppend ==
  ASSUME NEW b \in Seq(STRING),
         NEW old \in Seq(Seq(STRING)), NEW lines \in Seq(Seq(STRING)),
         IsPrefix(old, lines),
         NEW l \in 0..Len(b), Whole(b, Len(old), lines, l),
         NEW m \in l..Len(b)
  PROVE  Joined(SubSeq(Append(lines, SubSeq(b, l + 1, m)),
                       Len(old) + 1, Len(lines) + 1)) = SubSeq(b, 1, m)
<1> DEFINE more == SubSeq(b, l + 1, m)
           added == SubSeq(lines, Len(old) + 1, Len(lines))
<1>0. Len(old) \in Nat /\ Len(lines) \in Nat /\ Len(b) \in Nat
  OBVIOUS
<1>1. more \in Seq(STRING)
  <2>1. \A i \in (l + 1)..m : b[i] \in STRING
    BY <1>0
  <2> QED  BY <1>0, <2>1, SubSeqProperties
<1>2. /\ Len(old) <= Len(lines)
      /\ SubSeq(Append(lines, more), Len(old) + 1, Len(lines) + 1)
           = Append(added, more)
  <2> HIDE DEF more
  <2> QED  BY <1>1, AddedAppend
<1>3. CASE Len(lines) = Len(old)
  <2>1. added = <<>> /\ l = 0
    BY <1>0, <1>3 DEF Whole
  <2>2. more = SubSeq(b, 1, m)
    BY <2>1
  <2> HIDE DEF more, added
  <2>3. Append(added, more) = <<more>>
    BY <2>1
  <2>4. Joined(<<more>>) = more
    BY JoinedOne
  <2> QED  BY <1>2, <2>2, <2>3, <2>4 DEF more
<1>4. CASE Len(lines) # Len(old)
  <2>1. Joined(added) \o <<CR, LF>> = SubSeq(b, 1, l)
    BY <1>4 DEF Whole
  <2>2. added \in Seq(Seq(STRING)) /\ Len(added) > 0
    <3>1. \A i \in (Len(old) + 1)..Len(lines) : lines[i] \in Seq(STRING)
      BY <1>0
    <3>2. /\ added \in Seq(Seq(STRING))
          /\ Len(added) = Len(lines) - (Len(old) + 1) + 1
      BY <1>0, <1>2, <1>4, <3>1, SubSeqProperties
    <3> QED  BY <1>0, <1>2, <1>4, <3>2
  <2>3. SubSeq(b, 1, l) \o SubSeq(b, l + 1, m) = SubSeq(b, 1, m)
    <3>1. 1 \in 1..(Len(b) + 1) /\ l \in (1 - 1)..Len(b)
      BY <1>0
    <3> QED  BY <3>1, ConcatAdjacentSubSeq
  <2>4. Joined(Append(added, more)) = Joined(added) \o <<CR, LF>> \o more
    <3> HIDE DEF more, added
    <3> QED  BY <1>1, <2>2, JoinedAppend
  <2> QED  BY <1>2, <2>1, <2>3, <2>4
<1> QED  BY <1>3, <1>4

----------------------------------------------------------------------------
(* The line ends counted.                                                   *)

EndsUpto(b, l) == {j \in 1..l : b[j] = LF}

(* A line end more is one more, whatever is between it and the last. *)
LEMMA OneMore ==
  ASSUME NEW b, NEW l \in Nat, NEW e \in Nat, l < e, b[e] = LF,
         \A j \in (l + 1)..(e - 1) : b[j] # LF
  PROVE  Cardinality(EndsUpto(b, e)) = Cardinality(EndsUpto(b, l)) + 1
<1>1. IsFiniteSet(EndsUpto(b, l))
  <2>1. IsFiniteSet(1..l)
    BY FS_Interval
  <2>2. EndsUpto(b, l) \in SUBSET (1..l)
    BY DEF EndsUpto
  <2> QED  BY <2>1, <2>2, FS_Subset
<1>2. EndsUpto(b, e) = EndsUpto(b, l) \cup {e}
  <2>1. ASSUME NEW j \in EndsUpto(b, e) PROVE j \in EndsUpto(b, l) \cup {e}
    <3>1. j \in 1..e /\ b[j] = LF
      BY <2>1 DEF EndsUpto
    <3>2. j \in 1..l \/ j \in (l + 1)..(e - 1) \/ j = e
      BY <3>1
    <3> QED  BY <3>1, <3>2 DEF EndsUpto
  <2>2. ASSUME NEW j \in EndsUpto(b, l) \cup {e} PROVE j \in EndsUpto(b, e)
    BY <2>2 DEF EndsUpto
  <2> QED  BY <2>1, <2>2
<1>3. e \notin EndsUpto(b, l)
  BY DEF EndsUpto
<1> QED  BY <1>1, <1>2, <1>3, FS_AddElement

LEMMA NoneYet == \A b : Cardinality(EndsUpto(b, 0)) = 0
<1>1. \A b : EndsUpto(b, 0) = {}
  BY DEF EndsUpto
<1> QED  BY <1>1, FS_EmptySet

----------------------------------------------------------------------------
(* What is known between two steps: the lines that were there are, there is a
   line for every line end up to last, and if these obey the protocol, they are
   the payload up to last. *)
Inv ==
  /\ line \in Seq(Seq(STRING)) /\ loc \in {"idle", "loop"}
  /\ loc = "loop" =>
       /\ body \in Seq(STRING) /\ last \in 0..Len(body)
       /\ last > 0 => body[last] = LF
       /\ had \in Seq(Seq(STRING)) /\ IsPrefix(had, line)
       /\ Len(line) = Len(had) + Cardinality(EndsUpto(body, last))
       /\ ProtocolLines => Whole(body, Len(had), line, last)

(* What a step does to the lines, if it is one of the two of a turn. *)
KeepsLines ==
  /\ loc = "loop" => ~OutOfRange(body, last)
  /\ Returns => /\ IsPrefix(had, line')
                /\ Len(line') = Len(had) + Cardinality(Ends) + 1

KeepsText == Returns /\ ProtocolLines => Joined(Added) = body

(* A turn that does not end the loop leaves less to do. *)
Forward == loc = "loop" /\ loc' = "loop" => last < last' /\ last' <= Len(body)

LEMMA ReceiveKeeps ==
  ASSUME Inv, NEW b \in Bodies, Receive(b)
  PROVE  Inv' /\ KeepsLines /\ KeepsText /\ Forward
<1>1. /\ loc = "idle" /\ loc' = "loop" /\ body' = b /\ last' = 0
      /\ had' = line /\ line' = line /\ line \in Seq(Seq(STRING))
  BY DEF Receive, Inv
<1>2. b \in Seq(STRING) /\ 0 \in 0..Len(b)
  BY BodiesAssumption
<1>3. IsPrefix(line, line) /\ Len(line) \in Nat
  BY <1>1 DEF IsPrefix
<1>4. Len(line) = Len(line) + Cardinality(EndsUpto(b, 0))
  BY <1>3, NoneYet
<1>5. Whole(b, Len(line), line, 0)
  BY DEF Whole
<1> QED  BY <1>1, <1>2, <1>3, <1>4, <1>5
         DEF Inv, KeepsLines, KeepsText, Returns, Forward

(* Where a line is cut: after last, at its end, which is no carriage return. *)
LEMMA CutLineKeeps ==
  ASSUME Inv, CutLine
  PROVE  Inv' /\ KeepsLines /\ KeepsText /\ Forward
<1> DEFINE pos == find_first_of(body, LF, last)
           more == substr(body, last, pos - last - 1)
<1>0. /\ loc = "loop" /\ body \in Seq(STRING) /\ Len(body) \in Nat
      /\ last \in 0..Len(body) /\ last \in Nat
      /\ last > 0 => body[last] = LF
      /\ line \in Seq(Seq(STRING))
      /\ had \in Seq(Seq(STRING)) /\ IsPrefix(had, line)
      /\ Len(line) = Len(had) + Cardinality(EndsUpto(body, last))
      /\ ProtocolLines => Whole(body, Len(had), line, last)
  BY DEF CutLine, Inv
<1>1. /\ pos # npos /\ line' = Append(line, more) /\ last' = pos + 1
      /\ UNCHANGED <<loc, body, had>>
  BY DEF CutLine, Text, After
<1>2. /\ pos \in last..(Len(body) - 1) /\ pos \in Nat /\ body[pos + 1] = LF
      /\ \A j \in last..(pos - 1) : body[j + 1] # LF
  BY <1>0, <1>1, FirstOf
<1>3. more \in Seq(STRING)
  <2> DEFINE n == pos - last - 1
             end == IF n < 0 \/ last + n > Len(body) THEN Len(body) ELSE last + n
  <2>1. end \in Nat /\ end <= Len(body)
    BY <1>0, <1>2
  <2>2. more = SubSeq(body, last + 1, end)
    BY DEF substr
  <2> HIDE DEF end, more
  <2>3. \A i \in (last + 1)..end : body[i] \in STRING
    BY <1>0, <2>1
  <2> QED  BY <1>0, <2>1, <2>2, <2>3, SubSeqProperties
<1> HIDE DEF pos
<1>4. line' \in Seq(Seq(STRING)) /\ Len(line') = Len(line) + 1
      /\ IsPrefix(had, line')
  <2> HIDE DEF more
  <2>1. line \in Seq(Seq(STRING)) /\ line' = Append(line, more)
    BY <1>0, <1>1
  <2>2. Append(line, more) \in Seq(Seq(STRING))
        /\ Len(Append(line, more)) = Len(line) + 1
    BY <1>3, <2>1, AppendProperties
  <2>3. IsPrefix(had, Append(line, more))
    <3>1. had \in Seq(Seq(STRING)) /\ IsPrefix(had, line)
      BY <1>0
    <3> QED  BY <1>3, <2>1, <3>1, AddedAppend
  <2> QED  BY <2>1, <2>2, <2>3
<1>5. Len(line') = Len(had) + Cardinality(EndsUpto(body, pos + 1))
  <2>1. ASSUME NEW j \in (last + 1)..((pos + 1) - 1) PROVE body[j] # LF
    <3>1. j - 1 \in last..(pos - 1) /\ (j - 1) + 1 = j
      BY <1>0, <1>2
    <3> QED  BY <1>2, <3>1
  <2> DEFINE e == pos + 1
  <2>2. e \in Nat /\ last < e /\ body[e] = LF
    BY <1>0, <1>2
  <2> HIDE DEF e
  <2>3. Cardinality(EndsUpto(body, e)) = Cardinality(EndsUpto(body, last)) + 1
    BY <1>0, <2>1, <2>2, OneMore DEF e
  <2>4. IsFiniteSet(EndsUpto(body, last))
    <3>1. IsFiniteSet(1..last)
      BY <1>0, FS_Interval
    <3>2. EndsUpto(body, last) \in SUBSET (1..last)
      BY DEF EndsUpto
    <3> QED  BY <3>1, <3>2, FS_Subset
  <2>5. Cardinality(EndsUpto(body, last)) \in Nat
    BY <2>4, FS_CardinalityType
  <2> QED  BY <1>0, <1>4, <2>3, <2>5 DEF e
<1>6. ASSUME ProtocolLines PROVE Whole(body, Len(had), line', pos + 1)
  <2>1. pos + 1 > 1 /\ body[pos] = CR
    <3>1. pos + 1 \in Ends
      BY <1>0, <1>2 DEF Ends
    <3> QED  BY <1>2, <1>6, <3>1 DEF ProtocolLines
  <2>2. last < pos
    <3>1. CR # LF
      BY DEF CR, LF
    <3> QED  BY <1>0, <1>2, <2>1, <3>1
  <2> DEFINE m == pos - 1
  <2>3. m \in last..Len(body) /\ m \in Nat /\ m + 1 = pos
    BY <1>0, <1>2, <2>2
  <2>4. more = SubSeq(body, last + 1, m)
    <3> DEFINE n == pos - last - 1
    <3>1. n \in Nat /\ last + n = m /\ m <= Len(body)
      BY <1>0, <1>2, <2>2
    <3>2. more = substr(body, last, n)
      OBVIOUS
    <3> HIDE DEF n, more, m
    <3> QED  BY <1>0, <3>1, <3>2 DEF substr
  <2> HIDE DEF m, more
  <2>5. Joined(SubSeq(line', Len(had) + 1, Len(line'))) = SubSeq(body, 1, m)
    <3>1. /\ body \in Seq(STRING)
          /\ had \in Seq(Seq(STRING)) /\ line \in Seq(Seq(STRING))
          /\ IsPrefix(had, line) /\ last \in 0..Len(body)
      BY <1>0
    <3>2. Whole(body, Len(had), line, last)
      BY <1>0, <1>6
    <3>3. m \in last..Len(body)
      BY <2>3
    <3>4. Joined(SubSeq(Append(line, SubSeq(body, last + 1, m)),
                        Len(had) + 1, Len(line) + 1)) = SubSeq(body, 1, m)
      BY <3>1, <3>2, <3>3, WholeAppend
    <3>5. line' = Append(line, SubSeq(body, last + 1, m))
          /\ Len(line') = Len(line) + 1
      BY <1>1, <1>4, <2>4
    <3> QED  BY <3>4, <3>5
  <2>6. SubSeq(body, 1, m) \o <<CR, LF>> = SubSeq(body, 1, pos + 1)
    <3>1. SubSeq(body, pos, pos + 1) = <<CR, LF>>
      <4> DEFINE two == SubSeq(body, pos, pos + 1)
      <4>1. pos \in Nat /\ pos \in 1..Len(body) /\ pos + 1 \in 1..Len(body)
        BY <1>0, <1>2, <2>2
      <4>2. /\ two \in Seq(STRING) /\ Len(two) = 2
            /\ two[1] = body[pos] /\ two[2] = body[pos + 1]
        <5>1. \A i \in pos..(pos + 1) : body[i] \in STRING
          BY <1>0, <4>1
        <5>2. /\ two \in Seq(STRING)
              /\ Len(two) = IF pos <= pos + 1 THEN pos + 1 - pos + 1 ELSE 0
              /\ \A i \in 1..(pos + 1 - pos + 1) : two[i] = body[pos + i - 1]
          BY <4>1, <5>1, SubSeqProperties
        <5>3. pos + 1 - pos + 1 = 2 /\ pos <= pos + 1
              /\ pos + 1 - 1 = pos /\ pos + 2 - 1 = pos + 1
          BY <4>1
        <5> HIDE DEF two
        <5> QED  BY <5>2, <5>3
      <4> HIDE DEF two
      <4>3. two = <<CR, LF>>
        <5>1. two[1] = CR /\ two[2] = LF
          BY <1>2, <2>1, <4>2
        <5> QED  BY <4>2, <5>1
      <4> QED  BY <4>3 DEF two
    <3>2. SubSeq(body, 1, m) \o SubSeq(body, m + 1, pos + 1)
            = SubSeq(body, 1, pos + 1)
      <4>1. /\ 1 \in 1..(Len(body) + 1) /\ m \in (1 - 1)..Len(body)
            /\ pos + 1 \in m..Len(body)
        BY <1>0, <1>2, <2>3
      <4> QED  BY <1>0, <4>1, ConcatAdjacentSubSeq
    <3> QED  BY <2>3, <3>1, <3>2
  <2>7. Len(line') # Len(had)
    BY <1>0, <1>4 DEF IsPrefix
  <2> QED  BY <2>5, <2>6, <2>7 DEF Whole
<1>7. ProtocolLines' <=> ProtocolLines
  BY <1>1 DEF ProtocolLines, Ends
<1>8. pos + 1 \in 0..Len(body)
  BY <1>0, <1>2
<1>9. Inv'
  BY <1>0, <1>1, <1>2, <1>4, <1>5, <1>6, <1>7, <1>8 DEF Inv
<1>10. Forward
  BY <1>0, <1>1, <1>2, <1>8 DEF Forward
<1>11. KeepsLines /\ KeepsText
  BY <1>0, <1>1 DEF KeepsLines, KeepsText, Returns, OutOfRange, npos
<1> QED  BY <1>9, <1>10, <1>11


(* What is behind the last line end: nothing, it may be, and no line end. *)
LEMMA RestKeeps ==
  ASSUME Inv, Rest
  PROVE  Inv' /\ KeepsLines /\ KeepsText /\ Forward
<1> DEFINE more == SubSeq(body, last + 1, Len(body))
<1>0. /\ loc = "loop" /\ body \in Seq(STRING) /\ Len(body) \in Nat
      /\ last \in 0..Len(body) /\ last \in Nat
      /\ line \in Seq(Seq(STRING))
      /\ had \in Seq(Seq(STRING)) /\ IsPrefix(had, line)
      /\ Len(line) = Len(had) + Cardinality(EndsUpto(body, last))
      /\ ProtocolLines => Whole(body, Len(had), line, last)
  BY DEF Rest, Inv
<1>1. /\ line' = Append(line, more) /\ loc' = "idle"
  BY DEF Rest, substr, npos
<1>2. \A i \in last..(Len(body) - 1) : body[i + 1] # LF
  <2>1. find_first_of(body, LF, last) = npos
    BY DEF Rest
  <2>2. last <= npos => FALSE
    BY <1>0 DEF npos
  <2> QED  BY <1>0, <2>1, <2>2, FirstOf
<1>3. more \in Seq(STRING)
  <2>1. \A i \in (last + 1)..Len(body) : body[i] \in STRING
    BY <1>0
  <2> QED  BY <1>0, <2>1, SubSeqProperties
<1>4. line' \in Seq(Seq(STRING)) /\ Len(line') = Len(line) + 1
      /\ IsPrefix(had, line')
  <2> HIDE DEF more
  <2>1. line \in Seq(Seq(STRING)) /\ line' = Append(line, more)
    BY <1>0, <1>1
  <2>2. Append(line, more) \in Seq(Seq(STRING))
        /\ Len(Append(line, more)) = Len(line) + 1
    BY <1>3, <2>1, AppendProperties
  <2>3. IsPrefix(had, Append(line, more))
    <3>1. had \in Seq(Seq(STRING)) /\ IsPrefix(had, line)
      BY <1>0
    <3> QED  BY <1>3, <2>1, <3>1, AddedAppend
  <2> QED  BY <2>1, <2>2, <2>3
<1>5. Len(line') = Len(had) + Cardinality(Ends) + 1
  <2>1. EndsUpto(body, last) = Ends
    <3>1. ASSUME NEW j \in Ends PROVE j \in EndsUpto(body, last)
      <4>1. j \in 1..Len(body) /\ body[j] = LF
        BY <3>1 DEF Ends
      <4>2. j > last => j - 1 \in last..(Len(body) - 1) /\ (j - 1) + 1 = j
        BY <1>0, <4>1
      <4>3. ~(j > last)
        BY <1>2, <4>1, <4>2
      <4> QED  BY <1>0, <4>1, <4>3 DEF EndsUpto
    <3>2. ASSUME NEW j \in EndsUpto(body, last) PROVE j \in Ends
      BY <1>0, <3>2 DEF EndsUpto, Ends
    <3> QED  BY <3>1, <3>2
  <2>2. IsFiniteSet(Ends)
    <3>1. IsFiniteSet(1..Len(body))
      BY <1>0, FS_Interval
    <3>2. Ends \in SUBSET (1..Len(body))
      BY DEF Ends
    <3> QED  BY <3>1, <3>2, FS_Subset
  <2>3. Cardinality(Ends) \in Nat /\ Len(had) \in Nat
    BY <1>0, <2>2, FS_CardinalityType
  <2> QED  BY <1>0, <1>4, <2>1, <2>3
<1>6. ASSUME ProtocolLines PROVE Joined(Added) = body
  <2>1. /\ body \in Seq(STRING)
        /\ had \in Seq(Seq(STRING)) /\ line \in Seq(Seq(STRING))
        /\ IsPrefix(had, line) /\ last \in 0..Len(body)
    BY <1>0
  <2>2. Whole(body, Len(had), line, last)
    BY <1>0, <1>6
  <2>3. Len(body) \in last..Len(body)
    BY <1>0
  <2>4. Joined(SubSeq(Append(line, SubSeq(body, last + 1, Len(body))),
                      Len(had) + 1, Len(line) + 1)) = SubSeq(body, 1, Len(body))
    BY <2>1, <2>2, <2>3, WholeAppend
  <2>5. SubSeq(body, 1, Len(body)) = body
    BY <1>0
  <2> QED  BY <1>1, <1>4, <2>4, <2>5 DEF Added
<1>7. Inv'
  BY <1>1, <1>4 DEF Inv
<1>8. KeepsLines
  BY <1>0, <1>4, <1>5 DEF KeepsLines, OutOfRange, npos
<1>9. KeepsText
  BY <1>6 DEF KeepsText
<1>10. Forward
  BY <1>1 DEF Forward
<1> QED  BY <1>7, <1>8, <1>9, <1>10

LEMMA StepKeeps ==
  Inv /\ [Next]_vars => Inv' /\ KeepsLines /\ KeepsText /\ [Forward]_vars
<1> SUFFICES ASSUME Inv, [Next]_vars
             PROVE  Inv' /\ KeepsLines /\ KeepsText /\ [Forward]_vars
  OBVIOUS
<1>1. ASSUME NEW b \in Bodies, Receive(b)
      PROVE  Inv' /\ KeepsLines /\ KeepsText /\ Forward
  BY <1>1, ReceiveKeeps
<1>2. CASE CutLine
  BY <1>2, CutLineKeeps
<1>3. CASE Rest
  BY <1>3, RestKeeps
<1>4. CASE UNCHANGED vars
  <2>1. UNCHANGED <<loc, body, last, line, had>>
    BY <1>4 DEF vars
  <2>2. Inv'
    BY <2>1 DEF Inv, ProtocolLines, Ends
  <2>3. KeepsLines
    BY <2>1 DEF KeepsLines, Returns, Inv, OutOfRange, npos
  <2>4. KeepsText
    BY <2>1 DEF KeepsText, Returns
  <2> QED  BY <1>4, <2>2, <2>3, <2>4
<1> QED  BY <1>1, <1>2, <1>3, <1>4 DEF Next

LEMMA InitInv == Init => Inv
BY DEF Init, Inv

(* A packet adds a line for each line end and one for what is behind the last,
   whatever its bytes are, the lines before stay, and no substr() throws. *)
THEOREM LinesRight == Spec => LinesKept
<1>1. Inv /\ [Next]_vars
        => [/\ loc = "loop" => ~OutOfRange(body, last)
            /\ Returns => /\ IsPrefix(had, line')
                          /\ Len(line') = Len(had) + Cardinality(Ends) + 1]_vars
  BY StepKeeps DEF KeepsLines
<1>2. Inv /\ [Next]_vars => Inv'
  BY StepKeeps
<1> QED  BY InitInv, <1>1, <1>2, PTL DEF Spec, LinesKept

(* The lines of a payload whose lines end in CR LF are all of it, in the order
   they are in, and nothing is added. *)
THEOREM TextRight == Spec => TextKept
<1>1. Inv /\ [Next]_vars
        => [Returns /\ ProtocolLines => Joined(Added) = body]_vars
  BY StepKeeps DEF KeepsText
<1>2. Inv /\ [Next]_vars => Inv'
  BY StepKeeps
<1> QED  BY InitInv, <1>1, <1>2, PTL DEF Spec, TextKept

(* Every turn but the last leaves less of the payload, and no more is read than
   there is, so that the loop ends. *)
THEOREM LoopGetsOn == Spec => [][Forward]_vars
<1>1. Inv /\ [Next]_vars => Inv' /\ [Forward]_vars
  BY StepKeeps
<1> QED  BY <1>1, InitInv, PTL DEF Spec
=============================================================================
