------------------------------ MODULE Strings -------------------------------
(* What the text parsers use of std::string.  A string is a sequence of words
   and single characters; positions count from 0, as in the code. *)
EXTENDS Integers, Sequences

LF == "\n"
CR == "\r"
Blank == " "

(* string::npos, as a position and as a length. *)
npos == -1

(* The positions of s from one on: none from npos. *)
From(s, from) == IF from = npos THEN {} ELSE from..(Len(s) - 1)

find_first_of(s, c, from) ==
  IF \E i \in From(s, from) : s[i + 1] = c
  THEN CHOOSE i \in From(s, from) :
         s[i + 1] = c /\ \A j \in from..(i - 1) : s[j + 1] # c
  ELSE npos

find_first_not_of(s, C, from) ==
  IF \E i \in From(s, from) : s[i + 1] \notin C
  THEN CHOOSE i \in From(s, from) :
         s[i + 1] \notin C /\ \A j \in from..(i - 1) : s[j + 1] \in C
  ELSE npos

find_last_not_of(s, C) ==
  IF \E i \in From(s, 0) : s[i + 1] \notin C
  THEN CHOOSE i \in From(s, 0) :
         s[i + 1] \notin C /\ \A j \in From(s, i + 1) : s[j + 1] \in C
  ELSE npos

(* substr() throws out_of_range from here, because a size_t npos is beyond
   every string. *)
OutOfRange(s, pos) == pos = npos \/ pos > Len(s)

(* A negative length is one beyond every string. *)
substr(s, pos, n) ==
  SubSeq(s, pos + 1, IF n < 0 \/ pos + n > Len(s) THEN Len(s) ELSE pos + n)
=============================================================================
