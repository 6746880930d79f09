----------------------------- MODULE HTTPProofs -----------------------------
(***************************************************************************)
(* Proofs about HTTP::parse(), for payloads of any length and content: what *)
(* it keeps is what the lines of the payload say, and no payload but the    *)
(* malformed ones ends the process.                                         *)
(***************************************************************************)
EXTENDS HTTP, SequenceTheorems, WellFoundedInduction, TLAPS

(* Positions in order: a set of them has a first one, *)
LEMMA Least ==
  ASSUME NEW S, S \subseteq Nat, S # {}
  PROVE  \E n \in S : \A m \in S : n <= m
<1> DEFINE LessThan == OpToRel(<, Nat)
<1>1. \E n \in S : \A m \in S : <<m, n>> \notin LessThan
  <2>1. IsWellFoundedOn(LessThan, Nat)
    BY NatLessThanWellFounded
  <2> HIDE DEF LessThan
  <2> QED  BY <2>1, WFMin
<1>2. PICK n \in S : \A m \in S : <<m, n>> \notin LessThan
  BY <1>1
<1>3. ASSUME NEW m \in S PROVE n <= m
  <2>1. n \in Nat /\ m \in Nat
    OBVIOUS
  <2>2. m < n => <<m, n>> \in LessThan
    BY <2>1 DEF OpToRel
  <2> HIDE DEF LessThan
  <2> QED  BY <1>2, <2>1, <2>2
<1> QED  BY <1>2, <1>3

(* and a last one, if it ends. *)
LEMMA Greatest ==
  ASSUME NEW n \in Int, NEW S, S \subseteq 0..n, S # {}
  PROVE  \E k \in S : \A m \in S : m <= k
<1> DEFINE T == {i \in 0..n : n - i \in S}
<1>1. T \subseteq Nat /\ T # {}
  <2>1. PICK k \in S : TRUE
    OBVIOUS
  <2>2. k \in 0..n /\ n - k \in Int /\ n - (n - k) = k
    BY <2>1
  <2>3. n - k \in T
    BY <2>2
  <2>4. T \subseteq Nat
    OBVIOUS
  <2> HIDE DEF T
  <2> QED  BY <2>3, <2>4
<1>2. PICK i \in T : \A m \in T : i <= m
  <2> HIDE DEF T
  <2> QED  BY <1>1, Least
<1>3. ASSUME NEW m \in S PROVE m <= n - i
  <2>1. n - m \in T
    OBVIOUS
  <2> QED  BY <1>2, <2>1
<1> QED  BY <1>2, <1>3

----------------------------------------------------------------------------
(* The searches of std::string.                                             *)

(* find_first_of() finds the first place, if there is one. *)
LEMMA FirstOf ==
  ASSUME NEW S, NEW s \in Seq(S), NEW c, NEW from \in Nat,
         NEW p, p = find_first_of(s, c, from)
  PROVE  \/ p = npos /\ \A i \in from..(Len(s) - 1) : s[i + 1] # c
         \/ /\ p \in from..(Len(s) - 1) /\ p \in Nat /\ s[p + 1] = c
            /\ \A j \in from..(p - 1) : s[j + 1] # c
<1> DEFINE Here == {i \in From(s, from) : s[i + 1] = c}
<1>1. From(s, from) = from..(Len(s) - 1) /\ Len(s) \in Nat
  BY DEF From, npos
<1>2. CASE Here = {}
  BY <1>1, <1>2 DEF find_first_of
<1>3. CASE Here # {}
  <2>1. PICK i \in Here : \A j \in Here : i <= j
    <3>1. Here \subseteq Nat
      BY <1>1
    <3> HIDE DEF Here
    <3> QED  BY <1>3, <3>1, Least
  <2>2. ASSUME NEW j \in from..(i - 1) PROVE s[j + 1] # c
    <3>1. j \in From(s, from) /\ ~(i <= j)
      BY <1>1
    <3>2. j \notin Here
      BY <2>1, <3>1
    <3> QED  BY <3>1, <3>2
  <2>3. /\ p \in From(s, from) /\ s[p + 1] = c
        /\ \A j \in from..(p - 1) : s[j + 1] # c
    BY <2>1, <2>2 DEF find_first_of
  <2> QED  BY <1>1, <2>3
<1> QED  BY <1>2, <1>3

(* So does find_first_not_of(), of the characters that are not in a set, *)
LEMMA FirstNotOf ==
  ASSUME NEW S, NEW s \in Seq(S), NEW C, NEW from \in Nat,
         NEW p, p = find_first_not_of(s, C, from)
  PROVE  \/ p = npos /\ \A i \in from..(Len(s) - 1) : s[i + 1] \in C
         \/ /\ p \in from..(Len(s) - 1) /\ p \in Nat /\ s[p + 1] \notin C
            /\ \A j \in from..(p - 1) : s[j + 1] \in C
<1> DEFINE Here == {i \in From(s, from) : s[i + 1] \notin C}
<1>1. From(s, from) = from..(Len(s) - 1) /\ Len(s) \in Nat
  BY DEF From, npos
<1>2. CASE Here = {}
  BY <1>1, <1>2 DEF find_first_not_of
<1>3. CASE Here # {}
  <2>1. PICK i \in Here : \A j \in Here : i <= j
    <3>1. Here \subseteq Nat
      BY <1>1
    <3> HIDE DEF Here
    <3> QED  BY <1>3, <3>1, Least
  <2>2. ASSUME NEW j \in from..(i - 1) PROVE s[j + 1] \in C
    <3>1. j \in From(s, from) /\ ~(i <= j)
      BY <1>1
    <3>2. j \notin Here
      BY <2>1, <3>1
    <3> QED  BY <3>1, <3>2
  <2>3. /\ p \in From(s, from) /\ s[p + 1] \notin C
        /\ \A j \in from..(p - 1) : s[j + 1] \in C
    BY <2>1, <2>2 DEF find_first_not_of
  <2> QED  BY <1>1, <2>3
<1> QED  BY <1>2, <1>3

(* and find_last_not_of() finds the last one. *)
LEMMA LastNotOf ==
  ASSUME NEW S, NEW s \in Seq(S), NEW C, NEW p, p = find_last_not_of(s, C)
  PROVE  \/ p = npos /\ \A i \in 0..(Len(s) - 1) : s[i + 1] \in C
         \/ /\ p \in 0..(Len(s) - 1) /\ s[p + 1] \notin C
            /\ \A j \in (p + 1)..(Len(s) - 1) : s[j + 1] \in C
<1> DEFINE Here == {i \in From(s, 0) : s[i + 1] \notin C}
<1>1. /\ From(s, 0) = 0..(Len(s) - 1)
      /\ \A i \in Nat : From(s, i) = i..(Len(s) - 1)
      /\ Len(s) \in Nat /\ Len(s) - 1 \in Int
  BY DEF From, npos
<1>2. CASE Here = {}
  <2>1. \A i \in From(s, 0) : s[i + 1] \in C
    BY <1>2
  <2>2. p = npos
    BY <2>1 DEF find_last_not_of
  <2>3. \A i \in 0..(Len(s) - 1) : s[i + 1] \in C
    BY <1>1, <2>1
  <2> QED  BY <2>2, <2>3
<1>3. CASE Here # {}
  <2>1. PICK i \in Here : \A j \in Here : j <= i
    <3>1. Here \subseteq 0..(Len(s) - 1)
      BY <1>1
    <3> HIDE DEF Here
    <3> QED  BY <1>1, <1>3, <3>1, Greatest
  <2>2. \A j \in From(s, i + 1) : s[j + 1] \in C
    <3>1. i + 1 \in Nat
      BY <1>1
    <3>2. ASSUME NEW j \in From(s, i + 1), s[j + 1] \notin C PROVE FALSE
      <4>1. j \in (i + 1)..(Len(s) - 1)
        BY <1>1, <3>1, <3>2
      <4>2. j \in Here
        BY <1>1, <3>2, <4>1
      <4> QED  BY <1>1, <2>1, <4>1, <4>2
    <3> QED  BY <3>2
  <2>3. /\ p \in From(s, 0) /\ s[p + 1] \notin C
        /\ \A j \in From(s, p + 1) : s[j + 1] \in C
    BY <2>1, <2>2 DEF find_last_not_of
  <2>4. p \in 0..(Len(s) - 1) /\ p + 1 \in Nat
    BY <1>1, <2>3
  <2>5. From(s, p + 1) = (p + 1)..(Len(s) - 1)
    BY <1>1, <2>4
  <2> QED  BY <2>3, <2>4, <2>5
<1> QED  BY <1>2, <1>3

(* string::substr(), of a part of a string and of all the rest. *)
LEMMA PartOf ==
  ASSUME NEW S, NEW s \in Seq(S), NEW pos \in Nat, NEW n \in Nat,
         pos + n <= Len(s)
  PROVE  substr(s, pos, n) = SubSeq(s, pos + 1, pos + n)
BY DEF substr

LEMMA RestOf ==
  ASSUME NEW S, NEW s \in Seq(S), NEW pos \in Nat
  PROVE  substr(s, pos, npos) = SubSeq(s, pos + 1, Len(s))
BY DEF substr, npos

(* What SubSeq() is made of. *)
LEMMA Elements ==
  ASSUME NEW S, NEW s \in Seq(S), NEW k \in Nat, NEW l \in Nat,
         k >= 1, k <= l + 1, l <= Len(s)
  PROVE  /\ SubSeq(s, k, l) \in Seq(S) /\ Len(SubSeq(s, k, l)) = l - k + 1
         /\ \A i \in 1..(l - k + 1) : SubSeq(s, k, l)[i] = s[k + i - 1]
<1>1. \A i \in k..l : s[i] \in S
  OBVIOUS
<1> QED  BY <1>1, SubSeqProperties

----------------------------------------------------------------------------
(* chomp() and its reference.                                               *)

(* Of nothing but carriage returns Trimmed() leaves nothing. *)
LEMMA TrimmedToNothing ==
  ASSUME NEW S, NEW s \in Seq(S), \A i \in 1..Len(s) : s[i] = CR
  PROVE  Trimmed(s) = <<>>
<1> DEFINE n == Len(s)
           Parts == {SubSeq(s, k, l) : k \in 1..(n + 1), l \in 0..n}
           Q(t, k, l) == /\ t = SubSeq(s, k, l)
                         /\ \A i \in 1..n : i \notin k..l => s[i] = CR
           P(t) == /\ \E k \in 1..(n + 1) : \E l \in (k - 1)..n : Q(t, k, l)
                   /\ t # <<>> => t[1] # CR /\ t[Len(t)] # CR
<1>1. Trimmed(s) = CHOOSE t \in Parts : P(t)
  BY DEF Trimmed
<1>2. <<>> \in Parts /\ P(<<>>)
  <2>1. n \in Nat /\ SubSeq(s, 1, 0) = <<>>
    OBVIOUS
  <2>2. 1 \in 1..(n + 1) /\ 0 \in 0..n /\ 0 \in (1 - 1)..n
    BY <2>1
  <2> QED  BY <2>1, <2>2
<1>3. ASSUME NEW t \in Parts, P(t) PROVE t = <<>>
  <2> HIDE DEF Q
  <2>k. PICK k \in 1..(n + 1) : \E l \in (k - 1)..n : Q(t, k, l)
    BY <1>3
  <2>l. PICK l \in (k - 1)..n : Q(t, k, l)
    BY <2>k
  <2>1. t = SubSeq(s, k, l)
    BY <2>l DEF Q
  <2>2. SUFFICES ASSUME t # <<>> PROVE FALSE
    OBVIOUS
  <2>3. k <= l
    BY <2>1, <2>2
  <2>4. t[1] = s[k] /\ k \in 1..n
    BY <2>1, <2>3, Elements
  <2> QED  BY <1>3, <2>2, <2>4
<1> HIDE DEF Parts, P
<1> QED  BY <1>1, <1>2, <1>3

(* Otherwise it leaves what is between the first and the last character that is
   not one. *)
LEMMA TrimmedToPart ==
  ASSUME NEW S, NEW s \in Seq(S), NEW k \in 1..Len(s), NEW l \in k..Len(s),
         s[k] # CR, s[l] # CR, \A i \in 1..Len(s) : i \notin k..l => s[i] = CR
  PROVE  Trimmed(s) = SubSeq(s, k, l) /\ Trimmed(s) # <<>>
<1> DEFINE n == Len(s)
           Parts == {SubSeq(s, kk, ll) : kk \in 1..(n + 1), ll \in 0..n}
           Q(t, kk, ll) == /\ t = SubSeq(s, kk, ll)
                           /\ \A i \in 1..n : i \notin kk..ll => s[i] = CR
           P(t) == /\ \E kk \in 1..(n + 1) :
                        \E ll \in (kk - 1)..n : Q(t, kk, ll)
                   /\ t # <<>> => t[1] # CR /\ t[Len(t)] # CR
           part == SubSeq(s, k, l)
<1>0. n \in Nat /\ k \in Nat /\ l \in Nat /\ 1 <= k /\ k <= l /\ l <= n
  OBVIOUS
<1>1. Trimmed(s) = CHOOSE t \in Parts : P(t)
  BY DEF Trimmed
<1>2. part \in Parts /\ P(part) /\ part # <<>>
  <2>1. /\ Len(part) = l - k + 1 /\ part[1] = s[k] /\ part[l - k + 1] = s[l]
    BY <1>0, Elements
  <2>2. k \in 1..(n + 1) /\ l \in 0..n /\ l \in (k - 1)..n
    BY <1>0
  <2>3. part # <<>>
    BY <1>0, <2>1
  <2>4. part \in Parts
    BY <2>2
  <2>5. P(part)
    BY <2>1, <2>2
  <2> HIDE DEF Parts, P, part
  <2> QED  BY <2>3, <2>4, <2>5
<1>3. ASSUME NEW t \in Parts, P(t) PROVE t = part
  <2> HIDE DEF Q
  <2>k. PICK kk \in 1..(n + 1) : \E ll \in (kk - 1)..n : Q(t, kk, ll)
    BY <1>3
  <2>l. PICK ll \in (kk - 1)..n : Q(t, kk, ll)
    BY <2>k
  <2>1. /\ t = SubSeq(s, kk, ll)
        /\ \A i \in 1..n : i \notin kk..ll => s[i] = CR
    BY <2>l DEF Q
  <2>2. k \in kk..ll /\ l \in kk..ll
    BY <1>0, <2>1
  <2>3. /\ kk \in Nat /\ ll \in Nat /\ 1 <= kk /\ kk <= ll /\ ll <= n
        /\ kk <= k /\ l <= ll
    BY <1>0, <2>2
  <2>4. Len(t) = ll - kk + 1 /\ t[1] = s[kk] /\ t[ll - kk + 1] = s[ll]
    BY <2>1, <2>3, Elements
  <2>5. t # <<>>
    BY <2>3, <2>4
  <2>6. s[kk] # CR /\ s[ll] # CR
    BY <1>3, <2>4, <2>5
  <2>7. kk \in k..l /\ ll \in k..l
    BY <1>0, <2>3, <2>6
  <2> QED  BY <1>0, <2>1, <2>3, <2>7
<1> HIDE DEF Parts, P, part
<1>4. Trimmed(s) = part
  BY <1>1, <1>2, <1>3
<1> QED  BY <1>2, <1>4 DEF part

(* chomp() of a text and its line end is the text trimmed, and throws if that is
   nothing. *)
LEMMA Chomped ==
  ASSUME NEW S, NEW text \in Seq(S), NEW value \in Seq(S),
         \A i \in 1..Len(text) : text[i] # LF /\ value[i] = text[i],
         \/ Len(value) = Len(text) /\ Len(text) = 0
         \/ Len(value) = Len(text) + 1 /\ value[Len(value)] = LF
  PROVE  /\ ChompThrows(value) <=> Trimmed(text) = <<>>
         /\ ~ChompThrows(value) => chomp(value) = Trimmed(text)
<1> DEFINE s1 == find_first_not_of(value, LineEnds, 0)
           s2 == find_last_not_of(value, LineEnds)
<1>0. /\ Len(text) \in Nat /\ Len(value) \in Nat
      /\ CR # LF /\ LineEnds = {CR, LF}
  BY DEF CR, LF, LineEnds
<1>1. \/ s1 = npos /\ \A i \in 0..(Len(value) - 1) : value[i + 1] \in LineEnds
      \/ /\ s1 \in 0..(Len(value) - 1) /\ s1 \in Nat
         /\ value[s1 + 1] \notin LineEnds
         /\ \A j \in 0..(s1 - 1) : value[j + 1] \in LineEnds
  BY FirstNotOf
<1>2. \/ s2 = npos /\ \A i \in 0..(Len(value) - 1) : value[i + 1] \in LineEnds
      \/ /\ s2 \in 0..(Len(value) - 1) /\ value[s2 + 1] \notin LineEnds
         /\ \A j \in (s2 + 1)..(Len(value) - 1) : value[j + 1] \in LineEnds
  BY LastNotOf
<1>3. /\ ChompThrows(value) <=> OutOfRange(value, s1)
      /\ chomp(value) = substr(value, s1, s2 - s1 + 1)
  BY DEF ChompThrows, chomp
<1> HIDE DEF s1, s2
<1>4. CASE s1 = npos
  <2>1. \A i \in 0..(Len(value) - 1) : value[i + 1] \in LineEnds
    BY <1>0, <1>1, <1>4 DEF npos
  <2>2. ASSUME NEW i \in 1..Len(text) PROVE text[i] = CR
    <3>1. i - 1 \in 0..(Len(value) - 1) /\ (i - 1) + 1 = i
      BY <1>0
    <3>2. value[i] \in LineEnds
      BY <2>1, <3>1
    <3> QED  BY <1>0, <3>2
  <2>3. Trimmed(text) = <<>>
    BY <2>2, TrimmedToNothing
  <2> QED  BY <1>3, <1>4, <2>3 DEF OutOfRange
<1>5. CASE s1 # npos
  <2>1. /\ s1 \in 0..(Len(value) - 1) /\ value[s1 + 1] \notin LineEnds
        /\ \A j \in 0..(s1 - 1) : value[j + 1] \in LineEnds
    BY <1>1, <1>5
  <2>2. /\ s2 \in 0..(Len(value) - 1) /\ value[s2 + 1] \notin LineEnds
        /\ \A j \in (s2 + 1)..(Len(value) - 1) : value[j + 1] \in LineEnds
    BY <1>2, <2>1
  <2>3. s1 <= s2
    BY <1>0, <2>1, <2>2
  <2>4. s1 + 1 \in 1..Len(text) /\ s2 + 1 \in (s1 + 1)..Len(text)
    BY <1>0, <2>1, <2>2, <2>3
  <2>5. text[s1 + 1] # CR /\ text[s2 + 1] # CR
    BY <1>0, <2>1, <2>2, <2>4
  <2>6. ASSUME NEW i \in 1..Len(text), i \notin (s1 + 1)..(s2 + 1)
        PROVE  text[i] = CR
    <3>1. i - 1 \in 0..(s1 - 1) \/ i - 1 \in (s2 + 1)..(Len(value) - 1)
      BY <1>0, <2>1, <2>2, <2>6
    <3>2. value[(i - 1) + 1] \in LineEnds
      BY <2>1, <2>2, <3>1
    <3>3. (i - 1) + 1 = i
      BY <1>0
    <3> QED  BY <1>0, <3>2, <3>3
  <2>7. Trimmed(text) = SubSeq(text, s1 + 1, s2 + 1) /\ Trimmed(text) # <<>>
    BY <2>4, <2>5, <2>6, TrimmedToPart
  <2>8. ~ChompThrows(value)
    BY <1>0, <1>3, <1>5, <2>1 DEF OutOfRange
  <2>9. chomp(value) = SubSeq(value, s1 + 1, s2 + 1)
    <3>1. /\ s1 \in Nat /\ s2 - s1 + 1 \in Nat
          /\ s1 + (s2 - s1 + 1) = s2 + 1 /\ s2 + 1 <= Len(value)
      BY <1>0, <2>1, <2>2, <2>3
    <3> QED  BY <1>3, <3>1, PartOf
  <2>10. SubSeq(value, s1 + 1, s2 + 1) = SubSeq(text, s1 + 1, s2 + 1)
    BY <1>0, <2>1, <2>2, <2>4
  <2> QED  BY <2>7, <2>8, <2>9, <2>10
<1> QED  BY <1>4, <1>5

----------------------------------------------------------------------------
(* The first line and its reference.                                        *)

(* The words that tell a first line are none of the characters that part it. *)
LEMMA WordsDiffer ==
  /\ CR # LF /\ Blank # LF /\ "Host" # LF /\ ":" # LF /\ "Host" # ":"
  /\ \A w \in Methods : w # Blank /\ w # "HTTP/"
BY DEF Methods, CR, LF, Blank

LEMMA FirstLineIs ==
  ASSUME NEW S, NEW b \in Seq(S), NEW eol \in 0..(Len(b) - 1),
         b[eol + 1] = LF, \A j \in 0..(eol - 1) : b[j + 1] # LF
  PROVE  HasLine(b) /\ FirstLine(b) = SubSeq(b, 1, eol)
<1>1. eol + 1 \in 1..Len(b) /\ eol \in Nat
  OBVIOUS
<1>2. Line(b, 1, eol + 1)
  <2>1. ASSUME NEW k \in 1..((eol + 1) - 1) PROVE b[k] # LF
    <3>1. k - 1 \in 0..(eol - 1) /\ (k - 1) + 1 = k
      BY <1>1
    <3> QED  BY <3>1
  <2> QED  BY <1>1, <2>1 DEF Line
<1>3. ASSUME NEW j \in 1..Len(b), Line(b, 1, j) PROVE j = eol + 1
  <2>1. b[j] = LF /\ \A k \in 1..(j - 1) : b[k] # LF
    BY <1>3 DEF Line
  <2>2. ~(j < eol + 1)
    <3>1. j < eol + 1 => j - 1 \in 0..(eol - 1) /\ (j - 1) + 1 = j
      BY <1>1
    <3> QED  BY <2>1, <3>1
  <2>3. ~(eol + 1 < j)
    BY <1>1, <2>1
  <2> QED  BY <1>1, <2>2, <2>3
<1>4. (CHOOSE j \in 1..Len(b) : Line(b, 1, j)) = eol + 1
  BY <1>1, <1>2, <1>3
<1>5. (eol + 1) - 1 = eol
  BY <1>1
<1> QED  BY <1>1, <1>4, <1>5 DEF HasLine, FirstLine

(* A line begins with a method if its first word is one and a blank follows. *)
LEMMA MethodIs ==
  ASSUME NEW S, NEW s \in Seq(S)
  PROVE  /\ HasMethod(s) <=> Len(s) >= 2 /\ s[1] \in Methods /\ s[2] = Blank
         /\ HasMethod(s) => /\ find_first_of(s, Blank, 0) = 1
                            /\ substr(s, 0, 1) = <<s[1]>>
<1> DEFINE m == find_first_of(s, Blank, 0)
<1>0. Len(s) \in Nat
  OBVIOUS
<1>1. \/ m = npos /\ \A i \in 0..(Len(s) - 1) : s[i + 1] # Blank
      \/ /\ m \in 0..(Len(s) - 1) /\ m \in Nat /\ s[m + 1] = Blank
         /\ \A j \in 0..(m - 1) : s[j + 1] # Blank
  BY FirstOf
<1>2. HasMethod(s) <=> m # npos /\ \E w \in Methods : substr(s, 0, m) = <<w>>
  BY DEF HasMethod
<1> HIDE DEF m
<1>3. ASSUME Len(s) >= 1 PROVE substr(s, 0, 1) = <<s[1]>>
  <2>1. substr(s, 0, 1) = SubSeq(s, 1, 1)
    BY <1>0, <1>3 DEF substr
  <2> QED  BY <1>0, <1>3, <2>1
<1>4. ASSUME HasMethod(s)
      PROVE  m = 1 /\ Len(s) >= 2 /\ s[1] \in Methods /\ s[2] = Blank
  <2>1. PICK w \in Methods : substr(s, 0, m) = <<w>>
    BY <1>2, <1>4
  <2>2. m \in 0..(Len(s) - 1) /\ m \in Nat /\ s[m + 1] = Blank
    BY <1>1, <1>2, <1>4
  <2>3. substr(s, 0, m) = SubSeq(s, 1, m)
    BY <1>0, <2>2 DEF substr
  <2>4. Len(SubSeq(s, 1, m)) = m /\ Len(<<w>>) = 1
    BY <1>0, <2>2
  <2>5. m = 1
    BY <2>1, <2>3, <2>4
  <2>6. s[1] = w
    BY <1>0, <1>3, <2>1, <2>2, <2>5
  <2> QED  BY <1>0, <2>2, <2>5, <2>6
<1>5. ASSUME Len(s) >= 2, s[1] \in Methods, s[2] = Blank PROVE HasMethod(s)
  <2>1. s[0 + 1] # Blank
    BY <1>5, WordsDiffer
  <2>2. m # npos
    <3>1. 1 \in 0..(Len(s) - 1)
      BY <1>0, <1>5
    <3>2. s[1 + 1] = Blank
      BY <1>5
    <3> QED  BY <1>1, <3>1, <3>2 DEF npos
  <2>3. m = 1
    <3>1. m \in 0..(Len(s) - 1) /\ s[m + 1] = Blank
          /\ \A j \in 0..(m - 1) : s[j + 1] # Blank
      BY <1>1, <2>2
    <3>2. ~(m > 1)
      BY <1>5, <3>1
    <3> QED  BY <1>0, <2>1, <3>1, <3>2
  <2> QED  BY <1>2, <1>3, <1>5, <2>2, <2>3
<1> QED  BY <1>3, <1>4, <1>5 DEF m

(* The places that part() a request line are the only ones that can. *)
LEMMA OneShape ==
  ASSUME NEW S, NEW s \in Seq(S), s[1] \in Methods,
         NEW a \in 3..Len(s), NEW z \in a..Len(s), NEW v \in Nat,
         z + 1 < v, v <= Len(s) + 1,
         \A k \in 2..(a - 1) : s[k] = Blank,
         \A k \in a..z : s[k] # Blank,
         \A k \in (z + 1)..(v - 1) : s[k] = Blank,
         v <= Len(s) => s[v] # Blank
  PROVE  Shapes(s) = {<<a, z, v>>}
<1>0. /\ Len(s) \in Nat /\ a \in Nat /\ z \in Nat /\ 3 <= a /\ a <= z
      /\ z <= Len(s)
  OBVIOUS
<1>1. <<a, z, v>> \in Shapes(s)
  <2>1. Shape(s, a, z, v)
    BY <1>0 DEF Shape
  <2>2. <<a, z, v>> \in (1..Len(s)) \X (1..Len(s)) \X (1..(Len(s) + 1))
    BY <1>0
  <2> QED  BY <2>1, <2>2 DEF Shapes
<1>2. ASSUME NEW t \in Shapes(s) PROVE t = <<a, z, v>>
  <2> DEFINE x == t[1]
             y == t[2]
             u == t[3]
  <2>1. /\ t = <<x, y, u>>
        /\ x \in 1..Len(s) /\ y \in 1..Len(s) /\ u \in 1..(Len(s) + 1)
        /\ Shape(s, x, y, u)
    BY DEF Shapes
  <2> HIDE DEF x, y, u
  <2>2. /\ x \in Nat /\ y \in Nat /\ u \in Nat
        /\ 2 < x /\ x <= y /\ y + 1 < u /\ u <= Len(s) + 1
        /\ \A k \in 2..(x - 1) : s[k] = Blank
        /\ \A k \in x..y : s[k] # Blank
        /\ \A k \in (y + 1)..(u - 1) : s[k] = Blank
        /\ u <= Len(s) => s[u] # Blank
    BY <1>0, <2>1 DEF Shape
  <2>3. x = a
    <3>1. s[x] # Blank /\ s[a] # Blank
      BY <1>0, <2>2
    <3> QED  BY <1>0, <2>2, <3>1
  <2>4. y = z
    <3>1. s[y + 1] = Blank /\ s[z + 1] = Blank
      BY <1>0, <2>2
    <3> QED  BY <1>0, <2>2, <2>3, <3>1
  <2>5. u = v
    <3>1. ~(u < v)
      BY <1>0, <2>2, <2>4
    <3>2. ~(v < u)
      BY <1>0, <2>2, <2>4
    <3> QED  BY <2>2, <3>1, <3>2
  <2> QED  BY <2>1, <2>3, <2>4, <2>5
<1> QED  BY <1>1, <1>2

(* What every shape says of a line. *)
LEMMA ShapeSays ==
  ASSUME NEW S, NEW s \in Seq(S), NEW t \in Shapes(s)
  PROVE  /\ Len(s) >= 2 /\ s[1] \in Methods /\ s[2] = Blank
         /\ \E a \in 3..Len(s) : s[a] # Blank
         /\ \E z \in 2..Len(s) : \E a \in 2..(z - 1) :
              s[a] # Blank /\ s[z] = Blank
<1>1. /\ t[1] \in 1..Len(s) /\ t[2] \in 1..Len(s) /\ t[3] \in 1..(Len(s) + 1)
      /\ Shape(s, t[1], t[2], t[3])
  BY DEF Shapes
<1> DEFINE x == t[1]
           y == t[2]
           u == t[3]
<1> HIDE DEF x, y, u
<1>2. /\ x \in 1..Len(s) /\ y \in 1..Len(s) /\ u \in 1..(Len(s) + 1)
      /\ s[1] \in Methods /\ 2 < x /\ x <= y /\ y + 1 < u
      /\ \A k \in 2..(x - 1) : s[k] = Blank
      /\ \A k \in x..y : s[k] # Blank
      /\ \A k \in (y + 1)..(u - 1) : s[k] = Blank
  BY <1>1 DEF Shape, x, y, u
<1>3. /\ Len(s) \in Nat /\ x \in Nat /\ y \in Nat /\ u \in Nat
      /\ y + 1 \in 2..Len(s) /\ x \in 2..((y + 1) - 1) /\ x \in 3..Len(s)
  BY <1>2
<1>4. s[2] = Blank /\ s[x] # Blank /\ s[y + 1] = Blank
  BY <1>2, <1>3
<1> QED  BY <1>2, <1>3, <1>4

(* Where Fields() looks for the URI, its end and the version. *)
UriAt(s) == find_first_not_of(s, {Blank}, 1)
UriEnd(s) == find_first_of(s, Blank, UriAt(s))
VersionAt(s) == find_first_not_of(s, {Blank}, UriEnd(s))

(* They are the shape of the line. *)
LEMMA FieldsFound ==
  ASSUME NEW S, NEW s \in Seq(S), HasMethod(s),
         NEW p, p = UriAt(s), NEW q, q = UriEnd(s), NEW v, v = VersionAt(s)
  PROVE  /\ p = npos \/ q = npos => Shapes(s) = {}
         /\ p # npos /\ q # npos /\ OutOfRange(s, v) =>
              Shapes(s) = {<<p + 1, q, Len(s) + 1>>}
         /\ p # npos /\ q # npos /\ ~OutOfRange(s, v) =>
              /\ Shapes(s) = {<<p + 1, q, v + 1>>}
              /\ v \in Nat /\ v + 1 <= Len(s)
              /\ substr(s, p, q - p) = SubSeq(s, p + 1, q)
              /\ substr(s, v, npos) = SubSeq(s, v + 1, Len(s))
<1>0. Len(s) \in Nat /\ Len(s) >= 2 /\ s[1] \in Methods /\ s[2] = Blank
  BY MethodIs
<1>1. \/ p = npos /\ \A i \in 1..(Len(s) - 1) : s[i + 1] = Blank
      \/ /\ p \in 1..(Len(s) - 1) /\ p \in Nat /\ s[p + 1] # Blank
         /\ \A j \in 1..(p - 1) : s[j + 1] = Blank
  BY FirstNotOf DEF UriAt
<1>2. ASSUME p = npos, NEW t \in Shapes(s) PROVE FALSE
  <2>1. PICK a \in 3..Len(s) : s[a] # Blank
    BY ShapeSays
  <2>2. a - 1 \in 1..(Len(s) - 1) /\ (a - 1) + 1 = a
    BY <1>0
  <2> QED  BY <1>1, <1>2, <2>1, <2>2 DEF npos
<1>3. CASE p # npos
  <2>1. /\ p \in 1..(Len(s) - 1) /\ p \in Nat /\ s[p + 1] # Blank
        /\ \A j \in 1..(p - 1) : s[j + 1] = Blank
    BY <1>1, <1>3
  <2>2. \/ q = npos /\ \A i \in p..(Len(s) - 1) : s[i + 1] # Blank
        \/ /\ q \in p..(Len(s) - 1) /\ q \in Nat /\ s[q + 1] = Blank
           /\ \A j \in p..(q - 1) : s[j + 1] # Blank
    <3>1. p \in Nat
      BY <2>1
    <3> QED  BY <3>1, FirstOf DEF UriEnd
  <2>3. ASSUME q = npos, NEW t \in Shapes(s) PROVE FALSE
    <3>1. PICK z \in 2..Len(s) :
            \E a \in 2..(z - 1) : s[a] # Blank /\ s[z] = Blank
      BY ShapeSays
    <3>2. PICK a \in 2..(z - 1) : s[a] # Blank /\ s[z] = Blank
      BY <3>1
    <3>3. ~(a < p + 1)
      <4>1. a < p + 1 => a - 1 \in 1..(p - 1) /\ (a - 1) + 1 = a
        BY <2>1
      <4> QED  BY <2>1, <3>2, <4>1
    <3>4. z - 1 \in p..(Len(s) - 1) /\ (z - 1) + 1 = z
      BY <1>0, <2>1, <3>3
    <3>5. \A i \in p..(Len(s) - 1) : s[i + 1] # Blank
      BY <2>1, <2>2, <2>3 DEF npos
    <3> QED  BY <3>2, <3>4, <3>5
  <2>4. CASE q # npos
    <3>1. /\ q \in p..(Len(s) - 1) /\ q \in Nat /\ s[q + 1] = Blank
          /\ \A j \in p..(q - 1) : s[j + 1] # Blank
      BY <2>2, <2>4
    <3>2. p < q
      BY <2>1, <3>1
    <3>3. \/ v = npos /\ \A i \in q..(Len(s) - 1) : s[i + 1] = Blank
          \/ /\ v \in q..(Len(s) - 1) /\ v \in Nat /\ s[v + 1] # Blank
             /\ \A j \in q..(v - 1) : s[j + 1] = Blank
      <4>1. q \in Nat
        BY <3>1
      <4> QED  BY <4>1, FirstNotOf DEF VersionAt
    <3>4. OutOfRange(s, v) <=> v = npos
      BY <1>0, <3>3 DEF OutOfRange
    <3> DEFINE u == IF v = npos THEN Len(s) + 1 ELSE v + 1
    <3>5. /\ p + 1 \in 3..Len(s) /\ q \in (p + 1)..Len(s)
          /\ u \in Nat /\ q + 1 < u /\ u <= Len(s) + 1
          /\ u <= Len(s) => s[u] # Blank
      <4>1. p + 1 # 2
        BY <1>0, <2>1
      <4>2. CASE v = npos
        BY <1>0, <2>1, <3>1, <3>2, <4>1, <4>2
      <4>3. CASE v # npos
        <5>1. /\ v \in q..(Len(s) - 1) /\ v \in Nat /\ v # q
              /\ s[v + 1] # Blank /\ u = v + 1
          BY <3>1, <3>3, <4>3
        <5> HIDE DEF u
        <5>2. u \in Nat /\ q + 1 < u /\ u <= Len(s) + 1 /\ s[u] # Blank
          BY <1>0, <3>1, <5>1
        <5>3. p + 1 \in 3..Len(s) /\ q \in (p + 1)..Len(s)
          BY <1>0, <2>1, <3>1, <3>2, <4>1
        <5> QED  BY <5>2, <5>3
      <4> HIDE DEF u
      <4> QED  BY <4>2, <4>3
    <3>6. ASSUME NEW k \in 2..((p + 1) - 1) PROVE s[k] = Blank
      <4>1. k - 1 \in 1..(p - 1) /\ (k - 1) + 1 = k
        BY <2>1
      <4> QED  BY <2>1, <4>1
    <3>7. ASSUME NEW k \in (p + 1)..q PROVE s[k] # Blank
      <4>1. k - 1 \in p..(q - 1) /\ (k - 1) + 1 = k
        BY <2>1, <3>1
      <4> QED  BY <3>1, <4>1
    <3>8. ASSUME NEW k \in (q + 1)..(u - 1) PROVE s[k] = Blank
      <4>1. CASE v = npos
        <5>1. k - 1 \in q..(Len(s) - 1) /\ (k - 1) + 1 = k
          BY <1>0, <3>1, <4>1
        <5>2. \A i \in q..(Len(s) - 1) : s[i + 1] = Blank
          BY <3>3, <4>1 DEF npos
        <5> QED  BY <5>1, <5>2
      <4>2. CASE v # npos
        <5>1. k - 1 \in q..(v - 1) /\ (k - 1) + 1 = k
          BY <3>1, <3>3, <4>2
        <5> QED  BY <3>3, <4>2, <5>1
      <4> QED  BY <4>1, <4>2
    <3>9. Shapes(s) = {<<p + 1, q, u>>}
      <4> DEFINE a == p + 1
      <4>1. /\ a \in 3..Len(s) /\ q \in a..Len(s) /\ u \in Nat
            /\ q + 1 < u /\ u <= Len(s) + 1
            /\ \A k \in 2..(a - 1) : s[k] = Blank
            /\ \A k \in a..q : s[k] # Blank
            /\ \A k \in (q + 1)..(u - 1) : s[k] = Blank
            /\ u <= Len(s) => s[u] # Blank
        BY <3>5, <3>6, <3>7, <3>8
      <4> HIDE DEF a, u
      <4>2. Shapes(s) = {<<a, q, u>>}
        BY <1>0, <4>1, OneShape, SMTT(60)
      <4> QED  BY <4>2 DEF a
    <3>10. substr(s, p, q - p) = SubSeq(s, p + 1, q)
      <4> DEFINE n == q - p
      <4>1. p \in Nat /\ n \in Nat /\ p + n = q /\ q <= Len(s)
        BY <1>0, <2>1, <3>1, <3>2
      <4> HIDE DEF n
      <4>2. substr(s, p, n) = SubSeq(s, p + 1, q)
        BY <4>1, PartOf
      <4> QED  BY <4>2 DEF n
    <3>11. ASSUME v # npos
           PROVE  /\ v \in Nat /\ v + 1 <= Len(s)
                  /\ substr(s, v, npos) = SubSeq(s, v + 1, Len(s))
      <4>1. v \in Nat /\ v + 1 <= Len(s)
        BY <1>0, <3>1, <3>3, <3>11
      <4> QED  BY <4>1, RestOf
    <3> QED  BY <2>4, <1>3, <3>4, <3>9, <3>10, <3>11
  <2> QED  BY <1>3, <2>3, <2>4
<1> QED  BY <1>2, <1>3

----------------------------------------------------------------------------
(* What parse() has to keep.                                                *)

(* r is what the request line of b says. *)
Asked(b, r) ==
  LET s == FirstLine(b)
  IN  /\ IsRequest(b) /\ ~IsResponse(s) /\ ~(Cut(b)[3] > Len(s))
      /\ r = [method |-> <<s[1]>>, uri |-> SubSeq(s, Cut(b)[1], Cut(b)[2]),
              version |-> SubSeq(s, Cut(b)[3], Len(s))]

(* The loop has not passed a Host line: it is at the end of a line and all Host
   lines are ahead, or there are none and no colon is ahead. *)
Ahead(b, l) ==
  \/ /\ l < Len(b) /\ b[l + 1] = LF
     /\ \A t \in HostLines(b) : l + 2 <= t[1]
  \/ HostLines(b) = {} /\ \A k \in (l + 2)..Len(b) : b[k] # ":"

LEMMA PayloadIsSeq == \A b \in Bodies : b \in Seq(STRING)
BY BodiesAssumption

(* Neither a response nor a request: nothing is kept. *)
LEMMA NoEntry ==
  ASSUME NEW b \in Bodies, ~IsRequest(b),
         ~(HasLine(b) /\ IsResponse(FirstLine(b)))
  PROVE  b \notin Malformed /\ Expected[b] = <<>>
BY DEF Malformed, Expected

(* The first line of a response begins with none of the methods. *)
LEMMA ResponseEntry ==
  ASSUME NEW b \in Bodies, HasLine(b), FirstLine(b) \in Seq(STRING),
         IsResponse(FirstLine(b))
  PROVE  b \notin Malformed /\ Expected[b] = <<Response>>
<1>1. ~IsRequest(b)
  <2>1. FirstLine(b)[1] \notin Methods
    BY WordsDiffer DEF IsResponse
  <2>2. Shapes(FirstLine(b)) = {}
    BY <2>1, ShapeSays
  <2> QED  BY <2>2 DEF IsRequest
<1> QED  BY <1>1 DEF Malformed, Expected

(* What is kept of a request, unless its Host line says nothing. *)
LEMMA RequestEntry ==
  ASSUME NEW b \in Bodies, NEW r, Asked(b, r), NEW host,
         \/ HostLines(b) = {} /\ host = <<>>
         \/ HostLines(b) # {} /\ host = HostText(b) /\ host # <<>>
  PROVE  b \notin Malformed /\ Expected[b] = <<Request(r, host)>>
<1> DEFINE s == FirstLine(b)
           t == Cut(b)
<1>0. IsRequest(b) /\ ~IsResponse(s) /\ ~(t[3] > Len(s))
  BY DEF Asked
<1>1. b \notin Malformed
  BY <1>0 DEF Malformed
<1>2. Expected[b] = <<Entry(b)>>
  BY <1>0 DEF Expected
<1>3. Entry(b) = Request(r, host)
  BY DEF Entry, Request, Asked
<1> QED  BY <1>1, <1>2, <1>3

LEMMA NothingSaid ==
  ASSUME NEW b \in Bodies, NEW r, Asked(b, r),
         HostLines(b) # {}, HostText(b) = <<>>
  PROVE  b \in Malformed
BY DEF Asked, Malformed

----------------------------------------------------------------------------
(* The steps.                                                               *)

(* The end of the first line is before every Host line. *)
LEMMA FirstAhead ==
  ASSUME NEW b \in Seq(STRING), NEW eol \in 0..(Len(b) - 1),
         b[eol + 1] = LF, \A j \in 0..(eol - 1) : b[j + 1] # LF
  PROVE  Ahead(b, eol)
<1>1. ASSUME NEW t \in HostLines(b) PROVE eol + 2 <= t[1]
  <2> DEFINE i == t[1]
  <2>1. i \in 2..Len(b) /\ b[i - 1] = LF
    BY DEF HostLines, Line
  <2> HIDE DEF i
  <2>2. i - 2 < eol => i - 2 \in 0..(eol - 1) /\ (i - 2) + 1 = i - 1
    BY <2>1
  <2>3. eol + 2 <= i
    BY <2>1, <2>2
  <2> QED  BY <2>3 DEF i
<1> QED  BY <1>1 DEF Ahead

(* The first line: parse() returns, with what it has to keep, or it throws,
   rightly, or goes on to the header lines. *)
LEMMA StartStep ==
  ASSUME body \in Bodies, Start
  PROVE  \/ /\ loc' = "idle" /\ body \notin Malformed
            /\ indata' = indata \o Expected[body]
         \/ loc' = "ended" /\ UNCHANGED body /\ body \in Malformed
         \/ /\ loc' = "headers" /\ UNCHANGED <<body, indata>>
            /\ Asked(body, request') /\ lend' \in Nat /\ Ahead(body, lend')
<1> DEFINE eol == find_first_of(body, LF, 0)
           start == substr(body, 0, eol)
<1>1. body \in Seq(STRING) /\ Len(body) \in Nat
  BY PayloadIsSeq
<1>2. \/ eol = npos /\ \A i \in 0..(Len(body) - 1) : body[i + 1] # LF
      \/ /\ eol \in 0..(Len(body) - 1) /\ eol \in Nat /\ body[eol + 1] = LF
         /\ \A j \in 0..(eol - 1) : body[j + 1] # LF
  BY <1>1, FirstOf
<1>3. \/ eol = npos /\ Return(<<>>)
      \/ /\ eol # npos
         /\ \/ IsResponse(start) /\ Return(<<Response>>)
            \/ ~IsResponse(start) /\ ~HasMethod(start) /\ Return(<<>>)
            \/ /\ ~IsResponse(start) /\ HasMethod(start)
               /\ Fields(start, find_first_of(start, Blank, 0), eol)
  BY DEF Start
<1> HIDE DEF eol, start
<1>4. CASE eol = npos
  <2>1. ~HasLine(body)
    <3>1. ASSUME NEW j \in 1..Len(body) PROVE body[j] # LF
      <4>1. j - 1 \in 0..(Len(body) - 1) /\ (j - 1) + 1 = j
        BY <1>1
      <4> QED  BY <1>2, <1>4, <4>1 DEF npos
    <3> QED  BY <3>1 DEF HasLine
  <2> QED  BY <1>3, <1>4, <2>1, NoEntry DEF Return, IsRequest
<1>5. CASE eol # npos
  <2>1. /\ eol \in 0..(Len(body) - 1) /\ eol \in Nat /\ body[eol + 1] = LF
        /\ \A j \in 0..(eol - 1) : body[j + 1] # LF
    BY <1>2, <1>5
  <2>2. HasLine(body) /\ FirstLine(body) = SubSeq(body, 1, eol)
    BY <1>1, <2>1, FirstLineIs
  <2>3. start = FirstLine(body) /\ start \in Seq(STRING)
    <3>1. start = SubSeq(body, 1, eol)
      BY <1>1, <2>1 DEF start, substr
    <3>2. SubSeq(body, 1, eol) \in Seq(STRING)
      BY <1>1, <2>1, Elements
    <3> QED  BY <2>2, <3>1, <3>2
  <2>4. CASE IsResponse(start) /\ Return(<<Response>>)
    BY <2>2, <2>3, <2>4, ResponseEntry DEF Return
  <2>5. CASE ~IsResponse(start) /\ ~HasMethod(start) /\ Return(<<>>)
    <3>1. Shapes(start) = {}
      BY <2>3, <2>5, MethodIs, ShapeSays
    <3> QED  BY <2>3, <2>5, <3>1, NoEntry DEF Return, IsRequest
  <2>6. CASE /\ ~IsResponse(start) /\ HasMethod(start)
             /\ Fields(start, find_first_of(start, Blank, 0), eol)
    <3> DEFINE p == UriAt(start)
               q == UriEnd(start)
               v == VersionAt(start)
    <3>1. /\ find_first_of(start, Blank, 0) = 1
          /\ substr(start, 0, 1) = <<start[1]>>
      BY <2>3, <2>6, MethodIs
    <3>2. \/ (p = npos \/ q = npos) /\ Return(<<>>)
          \/ p # npos /\ q # npos /\ OutOfRange(start, v) /\ Throw
          \/ /\ p # npos /\ q # npos /\ ~OutOfRange(start, v)
             /\ loc' = "headers" /\ lend' = eol
             /\ request' = [method |-> <<start[1]>>,
                            uri |-> substr(start, p, q - p),
                            version |-> substr(start, v, npos)]
             /\ UNCHANGED <<body, indata>>
      BY <2>6, <3>1 DEF Fields, UriAt, UriEnd, VersionAt
    <3>3. /\ p = npos \/ q = npos => Shapes(start) = {}
          /\ p # npos /\ q # npos /\ OutOfRange(start, v) =>
               Shapes(start) = {<<p + 1, q, Len(start) + 1>>}
          /\ p # npos /\ q # npos /\ ~OutOfRange(start, v) =>
               /\ Shapes(start) = {<<p + 1, q, v + 1>>}
               /\ v \in Nat /\ v + 1 <= Len(start)
               /\ substr(start, p, q - p) = SubSeq(start, p + 1, q)
               /\ substr(start, v, npos) = SubSeq(start, v + 1, Len(start))
      BY <2>3, <2>6, FieldsFound
    <3>4. Len(start) \in Nat
      BY <2>3
    <3> HIDE DEF p, q, v
    <3>5. CASE (p = npos \/ q = npos) /\ Return(<<>>)
      BY <2>3, <2>6, <3>3, <3>5, NoEntry DEF Return, IsRequest
    <3>6. CASE p # npos /\ q # npos /\ OutOfRange(start, v) /\ Throw
      <4>1. Cut(body) = <<p + 1, q, Len(start) + 1>>
        BY <2>3, <3>3, <3>6 DEF Cut
      <4>2. IsRequest(body)
        BY <2>2, <2>3, <3>3, <3>6 DEF IsRequest
      <4>3. Cut(body)[3] > Len(FirstLine(body))
        BY <2>3, <3>4, <4>1
      <4> QED  BY <3>6, <4>2, <4>3 DEF Malformed, Throw
    <3>7. CASE /\ p # npos /\ q # npos /\ ~OutOfRange(start, v)
               /\ loc' = "headers" /\ lend' = eol
               /\ request' = [method |-> <<start[1]>>,
                              uri |-> substr(start, p, q - p),
                              version |-> substr(start, v, npos)]
               /\ UNCHANGED <<body, indata>>
      <4>1. Cut(body) = <<p + 1, q, v + 1>>
        BY <2>3, <3>3, <3>7 DEF Cut
      <4>2. IsRequest(body)
        BY <2>2, <2>3, <3>3, <3>7 DEF IsRequest
      <4>3. Cut(body)[1] = p + 1 /\ Cut(body)[2] = q /\ Cut(body)[3] = v + 1
        BY <4>1
      <4>4. ~(Cut(body)[3] > Len(start))
        <5>1. v \in Nat /\ v + 1 <= Len(start)
          BY <3>3, <3>7
        <5> QED  BY <3>4, <4>3, <5>1
      <4>5. Asked(body, request')
        BY <2>3, <2>6, <3>3, <3>7, <4>2, <4>3, <4>4 DEF Asked
      <4>6. Ahead(body, lend')
        BY <1>1, <2>1, <3>7, FirstAhead
      <4> QED  BY <2>1, <3>7, <4>5, <4>6
    <3> QED  BY <3>2, <3>5, <3>6, <3>7
  <2> QED  BY <1>3, <1>5, <2>4, <2>5, <2>6
<1> QED  BY <1>4, <1>5

(* A turn of the loop: parse() returns with what it has to keep, or throws,
   rightly, or gets on without passing a Host line. *)
LEMMA HeaderStep ==
  ASSUME body \in Bodies, lend \in Nat, Asked(body, request),
         Ahead(body, lend), HeaderLine
  PROVE  \/ /\ loc' = "idle" /\ body \notin Malformed
            /\ indata' = indata \o Expected[body]
         \/ loc' = "ended" /\ UNCHANGED body /\ body \in Malformed
         \/ /\ loc' = "headers" /\ UNCHANGED <<body, request, indata>>
            /\ lend' \in Nat /\ lend < lend' /\ lend' <= Len(body)
            /\ Ahead(body, lend')
<1> DEFINE pos == find_first_of(body, LF, lend + 1)
           to == find_first_of(body, ":", lend + 1)
           IsHost == /\ to # npos
                     /\ substr(body, lend + 1, to - lend - 1) = <<"Host">>
           value == substr(body, to + 2, pos - to - 1)
<1>0. /\ body \in Seq(STRING) /\ Len(body) \in Nat
      /\ lend \in Nat /\ lend + 1 \in Nat
  BY PayloadIsSeq
<1>1. \/ pos = npos /\ \A i \in (lend + 1)..(Len(body) - 1) : body[i + 1] # LF
      \/ /\ pos \in (lend + 1)..(Len(body) - 1) /\ pos \in Nat
         /\ body[pos + 1] = LF
         /\ \A j \in (lend + 1)..(pos - 1) : body[j + 1] # LF
  BY <1>0, FirstOf
<1>2. \/ to = npos /\ \A i \in (lend + 1)..(Len(body) - 1) : body[i + 1] # ":"
      \/ /\ to \in (lend + 1)..(Len(body) - 1) /\ to \in Nat
         /\ body[to + 1] = ":"
         /\ \A j \in (lend + 1)..(to - 1) : body[j + 1] # ":"
  BY <1>0, FirstOf
<1>3. \/ pos = npos /\ Return(<<Request(request, <<>>)>>)
      \/ pos # npos /\ IsHost /\ ChompThrows(value) /\ Throw
      \/ /\ pos # npos /\ IsHost /\ ~ChompThrows(value)
         /\ Return(<<Request(request, chomp(value))>>)
      \/ /\ pos # npos /\ ~IsHost
         /\ lend' = NextLine(pos, to)
         /\ UNCHANGED <<loc, body, request, indata>>
  BY DEF HeaderLine
<1>4. loc = "headers"
  BY DEF HeaderLine
<1>5. IsHost <=> /\ to # npos
                 /\ substr(body, lend + 1, to - lend - 1) = <<"Host">>
  OBVIOUS
<1>6. value = substr(body, to + 2, pos - to - 1)
  OBVIOUS
<1> HIDE DEF pos, to, IsHost, value
(* A Host line, in positions from one on. *)
<1>7. \A t \in HostLines(body) :
        /\ t[1] \in 2..Len(body) /\ t[2] \in t[1]..Len(body)
        /\ t = <<t[1], t[2]>>
        /\ body[t[2]] = LF /\ \A k \in t[1]..(t[2] - 1) : body[k] # LF
        /\ body[t[1] - 1] = LF
        /\ body[t[1]] = "Host" /\ body[t[1] + 1] = ":"
  <2> TAKE t \in HostLines(body)
  <2>1. /\ t \in (2..Len(body)) \X (2..Len(body)) /\ Line(body, t[1], t[2])
        /\ body[t[1]] = "Host" /\ body[t[1] + 1] = ":"
    BY DEF HostLines
  <2>2. t[1] \in 2..Len(body) /\ t[2] \in 2..Len(body) /\ t = <<t[1], t[2]>>
    BY <2>1
  <2> QED  BY <1>0, <2>1, <2>2 DEF Line
<1>8. CASE pos = npos /\ Return(<<Request(request, <<>>)>>)
  <2>1. ASSUME NEW t \in HostLines(body) PROVE FALSE
    <3>1. lend + 2 <= t[1]
      BY <2>1 DEF Ahead
    <3>2. t[2] - 1 \in (lend + 1)..(Len(body) - 1) /\ (t[2] - 1) + 1 = t[2]
      BY <1>0, <1>7, <3>1
    <3>3. \A i \in (lend + 1)..(Len(body) - 1) : body[i + 1] # LF
      BY <1>1, <1>8 DEF npos
    <3> QED  BY <1>7, <3>2, <3>3
  <2> QED  BY <1>8, <2>1, RequestEntry DEF Return
<1>9. CASE pos # npos /\ IsHost
  <2>1. /\ pos \in (lend + 1)..(Len(body) - 1) /\ pos \in Nat
        /\ body[pos + 1] = LF
        /\ \A j \in (lend + 1)..(pos - 1) : body[j + 1] # LF
    BY <1>1, <1>9
  <2>2. to \in (lend + 1)..(Len(body) - 1) /\ body[to + 1] = ":"
    BY <1>2, <1>5, <1>9
  <2>3. lend < Len(body) /\ body[lend + 1] = LF
        /\ \A t \in HostLines(body) : lend + 2 <= t[1]
    <3>1. to + 1 \in (lend + 2)..Len(body)
      BY <1>0, <2>2
    <3> QED  BY <2>2, <3>1 DEF Ahead
  <2>4. to = lend + 2 /\ body[lend + 2] = "Host"
    <3> DEFINE n == to - lend - 1
    <3>1. n \in Nat /\ (lend + 1) + n = to /\ to <= Len(body)
      BY <1>0, <2>2
    <3>2. substr(body, lend + 1, n) = <<"Host">>
      BY <1>5, <1>9
    <3> HIDE DEF n
    <3>3. substr(body, lend + 1, n) = SubSeq(body, (lend + 1) + 1, to)
      BY <1>0, <3>1, PartOf
    <3> DEFINE k == (lend + 1) + 1
               word == SubSeq(body, k, to)
    <3>9. /\ k = lend + 2 /\ k \in Nat /\ k >= 1
          /\ to \in Nat /\ k <= to + 1 /\ to - k + 1 = n
      BY <1>0, <2>2, <3>1
    <3> HIDE DEF k
    <3>4. Len(word) = n /\ (n >= 1 => word[1] = body[k])
      BY <1>0, <3>1, <3>9, Elements
    <3> HIDE DEF word
    <3>10. substr(body, lend + 1, n) = word
      BY <3>3 DEF word, k
    <3>5. Len(<<"Host">>) = 1 /\ <<"Host">>[1] = "Host"
      OBVIOUS
    <3>6. n = 1
      BY <3>2, <3>10, <3>4, <3>5
    <3>7. to = lend + 2
      BY <3>1, <3>6
    <3>8. body[lend + 2] = "Host"
      <4>1. word = <<"Host">> /\ word[1] = body[k]
        BY <3>2, <3>10, <3>4, <3>6
      <4> QED  BY <3>5, <3>9, <4>1
    <3> QED  BY <3>7, <3>8
  <2>5. /\ pos + 1 \in (lend + 4)..Len(body)
        /\ \A k \in (lend + 2)..pos : body[k] # LF
    <3>1. pos + 1 # lend + 2 /\ pos + 1 # lend + 3
      BY <2>1, <2>2, <2>4, WordsDiffer
    <3>2. ASSUME NEW k \in (lend + 2)..pos PROVE body[k] # LF
      <4>1. k - 1 \in (lend + 1)..(pos - 1) /\ (k - 1) + 1 = k
        BY <2>1
      <4> QED  BY <2>1, <4>1
    <3> QED  BY <1>0, <2>1, <3>1, <3>2
  <2> DEFINE first == <<lend + 2, pos + 1>>
  <2>6. first \in HostLines(body) /\ first[1] = lend + 2 /\ first[2] = pos + 1
    <3>1. Line(body, lend + 2, pos + 1)
      BY <1>0, <2>1, <2>3, <2>5 DEF Line
    <3>2. body[(lend + 2) + 1] = ":"
      BY <2>2, <2>4
    <3>3. lend + 2 \in 2..Len(body) /\ pos + 1 \in 2..Len(body)
      BY <1>0, <2>1
    <3> QED  BY <2>4, <3>1, <3>2, <3>3 DEF HostLines
  <2>7. ASSUME NEW t \in HostLines(body), t[1] <= lend + 2 PROVE t = first
    <3>1. t[1] = lend + 2
      BY <1>0, <1>7, <2>3, <2>7
    <3>2. t[2] = pos + 1
      <4> DEFINE b == t[2]
                 e == pos + 1
      <4>1. /\ b \in Nat /\ lend + 2 <= b /\ body[b] = LF
            /\ \A k \in (lend + 2)..(b - 1) : body[k] # LF
        BY <1>7, <3>1
      <4>2. /\ e \in Nat /\ lend + 2 <= e /\ body[e] = LF
            /\ \A k \in (lend + 2)..(e - 1) : body[k] # LF
        BY <2>1, <2>5
      <4> HIDE DEF b, e
      <4>3. ~(b < e)
        BY <4>1, <4>2
      <4>4. ~(e < b)
        BY <4>1, <4>2
      <4>5. b = e
        BY <4>1, <4>2, <4>3, <4>4
      <4> QED  BY <4>5 DEF b, e
    <3> QED  BY <1>7, <3>1, <3>2
  <2> HIDE DEF first
  <2>8. (CHOOSE t \in HostLines(body) :
           \A u \in HostLines(body) : t[1] <= u[1]) = first
    BY <1>7, <2>3, <2>6, <2>7
  <2> DEFINE text == SubSeq(body, lend + 5, pos)
  <2>9. HostText(body) = Trimmed(text)
    <3>1. (lend + 2) + 3 = lend + 5 /\ (pos + 1) - 1 = pos
      BY <2>1
    <3> QED  BY <2>6, <2>8, <3>1 DEF HostText
  <2>10. value = SubSeq(body, lend + 5, pos + 1)
    <3> DEFINE n == pos - to - 1
    <3>1. to + 2 \in Nat /\ n \in Nat /\ (to + 2) + n = pos + 1
      BY <2>1, <2>4, <2>5
    <3>2. value = substr(body, to + 2, n) /\ pos + 1 <= Len(body)
      BY <1>0, <1>6, <2>1
    <3> HIDE DEF n
    <3>3. (to + 2) + 1 = lend + 5
      BY <2>4
    <3> QED  BY <1>0, <3>1, <3>2, <3>3, PartOf
  <2>11. /\ ChompThrows(value) <=> Trimmed(text) = <<>>
         /\ ~ChompThrows(value) => chomp(value) = Trimmed(text)
    <3>1. CASE pos + 1 = lend + 4
      <4>1. text = <<>> /\ value = <<>>
        BY <1>0, <2>1, <2>10, <3>1
      <4>2. <<>> \in Seq(STRING) /\ Len(<<>>) = 0
        OBVIOUS
      <4> HIDE DEF text
      <4>3. /\ text \in Seq(STRING) /\ value \in Seq(STRING)
            /\ Len(text) = 0 /\ Len(value) = 0
        BY <4>1, <4>2
      <4>4. \A i \in 1..Len(text) : text[i] # LF /\ value[i] = text[i]
        BY <4>3
      <4> QED  BY <4>3, <4>4, Chomped
    <3>2. CASE pos + 1 > lend + 4
      <4>1. /\ value \in Seq(STRING) /\ Len(value) = (pos + 1) - (lend + 5) + 1
            /\ \A i \in 1..((pos + 1) - (lend + 5) + 1) :
                 value[i] = body[(lend + 5) + i - 1]
        <5> DEFINE m == lend + 5
                   e == pos + 1
        <5>1. m \in Nat /\ m >= 1 /\ e \in Nat /\ m <= e + 1 /\ e <= Len(body)
          BY <1>0, <2>1, <3>2
        <5>2. value = SubSeq(body, m, e)
          BY <2>10
        <5> HIDE DEF m, e
        <5>3. /\ value \in Seq(STRING) /\ Len(value) = e - m + 1
              /\ \A i \in 1..(e - m + 1) : value[i] = body[m + i - 1]
          BY <1>0, <5>1, <5>2, Elements
        <5> QED  BY <5>3 DEF m, e
      <4>2. /\ text \in Seq(STRING) /\ Len(text) = pos - (lend + 5) + 1
            /\ \A i \in 1..(pos - (lend + 5) + 1) :
                 text[i] = body[(lend + 5) + i - 1]
        <5> DEFINE m == lend + 5
        <5>1. m \in Nat /\ m >= 1 /\ pos \in Nat /\ m <= pos + 1
              /\ pos <= Len(body)
          BY <1>0, <2>1, <3>2
        <5> HIDE DEF m
        <5>2. /\ SubSeq(body, m, pos) \in Seq(STRING)
              /\ Len(SubSeq(body, m, pos)) = pos - m + 1
              /\ \A i \in 1..(pos - m + 1) :
                   SubSeq(body, m, pos)[i] = body[m + i - 1]
          BY <1>0, <5>1, Elements
        <5> QED  BY <5>2 DEF m
      <4> HIDE DEF text
      <4>3. Len(value) = Len(text) + 1 /\ Len(text) = pos - (lend + 4)
        BY <2>1, <4>1, <4>2
      <4>4. ASSUME NEW i \in 1..Len(text)
            PROVE  text[i] # LF /\ value[i] = text[i]
        <5>1. (lend + 5) + i - 1 \in (lend + 2)..pos
          BY <2>1, <4>3
        <5>2. /\ i \in 1..(pos - (lend + 5) + 1)
              /\ i \in 1..((pos + 1) - (lend + 5) + 1)
          BY <2>1, <4>3
        <5> QED  BY <2>5, <4>1, <4>2, <5>1, <5>2
      <4>5. value[Len(value)] = LF
        <5>1. /\ Len(value) \in 1..((pos + 1) - (lend + 5) + 1)
              /\ (lend + 5) + Len(value) - 1 = pos + 1
          BY <2>1, <3>2, <4>1
        <5> QED  BY <2>1, <4>1, <5>1
      <4> QED  BY <4>1, <4>2, <4>3, <4>4, <4>5, Chomped
    <3>3. pos + 1 = lend + 4 \/ pos + 1 > lend + 4
      BY <2>1, <2>5
    <3> HIDE DEF text
    <3> QED  BY <3>1, <3>2, <3>3
  <2> HIDE DEF text
  <2>12. CASE ChompThrows(value) /\ Throw
    BY <2>6, <2>9, <2>11, <2>12, NothingSaid DEF Throw
  <2>13. CASE ~ChompThrows(value) /\ Return(<<Request(request, chomp(value))>>)
    <3> DEFINE host == chomp(value)
    <3>1. /\ HostLines(body) # {} /\ host = HostText(body) /\ host # <<>>
      BY <2>6, <2>9, <2>11, <2>13
    <3> HIDE DEF host
    <3>2. body \notin Malformed /\ Expected[body] = <<Request(request, host)>>
      BY <3>1, RequestEntry
    <3>3. loc' = "idle" /\ indata' = indata \o <<Request(request, host)>>
      BY <2>13 DEF Return, host
    <3> QED  BY <3>2, <3>3
  <2>14. \/ ChompThrows(value) /\ Throw
         \/ ~ChompThrows(value) /\ Return(<<Request(request, chomp(value))>>)
    BY <1>3, <1>9
  <2> QED  BY <2>12, <2>13, <2>14
<1>10. CASE /\ pos # npos /\ ~IsHost
            /\ lend' = NextLine(pos, to)
            /\ UNCHANGED <<loc, body, request, indata>>
  <2>1. /\ pos \in (lend + 1)..(Len(body) - 1) /\ pos \in Nat
        /\ body[pos + 1] = LF
        /\ \A j \in (lend + 1)..(pos - 1) : body[j + 1] # LF
    BY <1>1, <1>10
  <2>2. /\ lend' \in {pos, pos + 1} /\ lend' \in Nat
        /\ lend < lend' /\ lend' <= Len(body)
    BY <1>0, <1>10, <2>1 DEF NextLine
  <2>3. ASSUME \A k \in (lend + 2)..Len(body) : body[k] # ":"
        PROVE  Ahead(body, lend')
    <3>1. ASSUME NEW t \in HostLines(body) PROVE FALSE
      <4>1. lend + 2 <= t[1]
        BY <3>1 DEF Ahead
      <4>2. t[1] + 1 \in (lend + 2)..Len(body)
        <5>1. t[1] # t[2]
          BY <1>7, WordsDiffer
        <5> QED  BY <1>0, <1>7, <4>1, <5>1
      <4> QED  BY <1>7, <2>3, <4>2
    <3>2. ASSUME NEW k \in (lend' + 2)..Len(body) PROVE body[k] # ":"
      <4>1. lend' \in Nat /\ lend < lend'
        BY <2>2
      <4>2. k \in (lend + 2)..Len(body)
        <5> DEFINE next == lend'
        <5>1. next \in Nat /\ lend < next /\ k \in (next + 2)..Len(body)
          BY <4>1
        <5> HIDE DEF next
        <5> QED  BY <1>0, <5>1
      <4> QED  BY <2>3, <4>2
    <3> QED  BY <3>1, <3>2 DEF Ahead
  <2>4. CASE to = npos
    <3>1. ASSUME NEW k \in (lend + 2)..Len(body) PROVE body[k] # ":"
      <4>1. \A i \in (lend + 1)..(Len(body) - 1) : body[i + 1] # ":"
        BY <1>2, <2>4 DEF npos
      <4>2. k - 1 \in (lend + 1)..(Len(body) - 1) /\ (k - 1) + 1 = k
        BY <1>0
      <4> QED  BY <4>1, <4>2
    <3>2. Ahead(body, lend')
      BY <2>3, <3>1
    <3> QED  BY <1>4, <1>10, <2>2, <3>2
  <2>5. CASE to # npos
    <3>1. /\ to \in (lend + 1)..(Len(body) - 1) /\ to \in Nat
          /\ body[to + 1] = ":"
          /\ \A j \in (lend + 1)..(to - 1) : body[j + 1] # ":"
      BY <1>2, <2>5
    <3>2. lend' = pos
      BY <1>10, <2>5 DEF NextLine
    <3>3. lend < Len(body) /\ \A t \in HostLines(body) : lend + 2 <= t[1]
      <4>1. to + 1 \in (lend + 2)..Len(body)
        BY <1>0, <3>1
      <4> QED  BY <3>1, <4>1 DEF Ahead
    <3>4. ASSUME NEW t \in HostLines(body) PROVE pos + 2 <= t[1]
      <4>1. t[1] # lend + 2
        <5>1. SUFFICES ASSUME t[1] = lend + 2 PROVE IsHost
          BY <1>10
        <5>2. body[lend + 2] = "Host" /\ body[lend + 3] = ":"
              /\ lend + 3 <= Len(body)
          <6>1. t[1] # t[2]
            BY <1>7, WordsDiffer
          <6> QED  BY <1>0, <1>7, <5>1, <6>1
        <5>3. to = lend + 2
          <6>1. to # lend + 1
            BY <3>1, <5>2, WordsDiffer
          <6>2. ~(to > lend + 2)
            BY <3>1, <5>2
          <6> QED  BY <3>1, <6>1, <6>2
        <5>4. substr(body, lend + 1, 1) = <<body[lend + 2]>>
          <6>1. substr(body, lend + 1, 1) = SubSeq(body, lend + 2, lend + 2)
            <7> DEFINE k == lend + 1
            <7>1. k \in Nat /\ k + 1 = lend + 2 /\ k + 1 <= Len(body)
              BY <1>0, <5>2
            <7> HIDE DEF k
            <7>2. substr(body, k, 1) = SubSeq(body, k + 1, k + 1)
              BY <1>0, <7>1, PartOf
            <7> QED  BY <7>1, <7>2 DEF k
          <6> QED  BY <1>0, <5>2, <6>1
        <5>5. to - lend - 1 = 1
          BY <5>3
        <5> QED  BY <1>5, <2>5, <5>2, <5>4, <5>5
      <4> DEFINE i == t[1]
      <4>2. i \in Nat /\ body[i - 1] = LF /\ lend + 2 <= i /\ i # lend + 2
        BY <1>7, <3>3, <4>1
      <4> HIDE DEF i
      <4>3. i - 2 < pos => i - 2 \in (lend + 1)..(pos - 1)
        BY <2>1, <4>2
      <4>4. (i - 2) + 1 = i - 1
        BY <4>2
      <4>5. ~(i - 2 < pos)
        BY <2>1, <4>2, <4>3, <4>4
      <4>6. pos + 2 <= i
        <5>1. i - 2 # pos - 0 \/ i = pos + 2
          BY <2>1, <4>2
        <5> QED  BY <2>1, <4>2, <4>5
      <4> QED  BY <4>6 DEF i
    <3>5. Ahead(body, lend')
      BY <1>0, <2>1, <3>2, <3>4 DEF Ahead
    <3> QED  BY <1>4, <1>10, <2>2, <3>5
  <2> QED  BY <2>4, <2>5
<1> QED  BY <1>3, <1>8, <1>9, <1>10

----------------------------------------------------------------------------
(* The theorems.                                                            *)

(* What is known between two steps. *)
Inv ==
  /\ loc # "idle" => body \in Bodies
  /\ loc = "headers" =>
       lend \in Nat /\ Asked(body, request) /\ Ahead(body, lend)
  /\ EndsOnlyMalformed

(* A turn of the loop goes on behind where it was, but not beyond the payload. *)
Forward ==
  loc = "headers" /\ loc' = "headers" => lend < lend' /\ lend' <= Len(body)

(* A call that returns has kept what it had to. *)
Kept ==
  loc # "idle" /\ loc' = "idle" =>
    body \notin Malformed /\ indata' = indata \o Expected[body]

LEMMA StepKeeps ==
  Inv /\ [Next]_vars => Inv' /\ (vars' = vars \/ (Kept /\ Forward))
<1> SUFFICES ASSUME Inv, [Next]_vars
             PROVE  Inv' /\ (vars' = vars \/ (Kept /\ Forward))
  OBVIOUS
<1>1. ASSUME NEW b \in Bodies, Receive(b) PROVE Inv' /\ Kept /\ Forward
  BY <1>1 DEF Receive, Inv, EndsOnlyMalformed, Kept, Forward
<1>2. CASE Start
  <2>1. loc = "start" /\ body \in Bodies
    BY <1>2 DEF Start, Inv
  <2>2. \/ /\ loc' = "idle" /\ body \notin Malformed
           /\ indata' = indata \o Expected[body]
        \/ loc' = "ended" /\ UNCHANGED body /\ body \in Malformed
        \/ /\ loc' = "headers" /\ UNCHANGED <<body, indata>>
           /\ Asked(body, request') /\ lend' \in Nat /\ Ahead(body, lend')
    BY <1>2, <2>1, StartStep
  <2>3. (Malformed)' = Malformed
    BY DEF Malformed
  <2>4. Inv'
    BY <2>1, <2>2, <2>3 DEF Inv, EndsOnlyMalformed
  <2>5. Kept /\ Forward
    BY <2>1, <2>2 DEF Kept, Forward
  <2> QED  BY <2>4, <2>5
<1>3. CASE HeaderLine
  <2>1. /\ loc = "headers" /\ body \in Bodies /\ lend \in Nat
        /\ Asked(body, request) /\ Ahead(body, lend)
    BY <1>3 DEF HeaderLine, Inv
  <2>2. \/ /\ loc' = "idle" /\ body \notin Malformed
           /\ indata' = indata \o Expected[body]
        \/ loc' = "ended" /\ UNCHANGED body /\ body \in Malformed
        \/ /\ loc' = "headers" /\ UNCHANGED <<body, request, indata>>
           /\ lend' \in Nat /\ lend < lend' /\ lend' <= Len(body)
           /\ Ahead(body, lend')
    BY <1>3, <2>1, HeaderStep
  <2>3. Inv'
    BY <2>1, <2>2 DEF Inv, EndsOnlyMalformed, Malformed
  <2>4. Kept /\ Forward
    BY <2>1, <2>2 DEF Kept, Forward
  <2> QED  BY <2>3, <2>4
<1>4. CASE UNCHANGED vars
  BY <1>4 DEF vars, Inv, EndsOnlyMalformed
<1> QED  BY <1>1, <1>2, <1>3, <1>4 DEF Next

LEMMA InitInv == Init => Inv
BY DEF Init, Inv, EndsOnlyMalformed

(* For payloads of any length, with lines, blanks, colons and line ends wherever
   they are: a call of parse() that returns has kept what the lines say, *)
THEOREM RecordsRight == Spec => Recorded
<1>1. Inv /\ [Next]_vars => Inv' /\ [Kept]_vars
  BY StepKeeps
<1>2. Kept => (loc # "idle" /\ loc' = "idle" =>
                 body \notin Malformed /\ indata' = indata \o Expected[body])
  BY DEF Kept
<1> QED  BY <1>1, <1>2, InitInv, PTL DEF Spec, Recorded

(* only the malformed payloads end the process, *)
THEOREM EndsRight == Spec => []EndsOnlyMalformed
<1>1. Inv => EndsOnlyMalformed
  BY DEF Inv
<1> QED  BY <1>1, StepKeeps, InitInv, PTL DEF Spec

(* and every turn of the loop gets on and stays inside the payload, so that the
   loop ends. *)
THEOREM LoopGetsOn == Spec => [][Forward]_vars
<1>1. Inv /\ [Next]_vars => Inv' /\ [Forward]_vars
  BY StepKeeps
<1> QED  BY <1>1, InitInv, PTL DEF Spec
=============================================================================
