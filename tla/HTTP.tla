-------------------------------- MODULE HTTP --------------------------------
(***************************************************************************)
(* HTTP::parse(): a request or a response is recognised by the first line  *)
(* of a packet's payload and one entry for it is kept, a request's with    *)
(* the Host among its header lines.  substr() may throw, which nothing     *)
(* catches.                                                                *)
(***************************************************************************)
EXTENDS Strings

CONSTANTS
  Bodies,   (* payloads                                                      *)
  MaxLines  (* bound: entries kept                                           *)

ASSUME BodiesAssumption == Bodies \subseteq Seq(STRING)

VARIABLES
  loc,      (* idle, start: the first line; headers: the loop; ended         *)
  body,     (* body                                                          *)
  lend,     (* lend                                                          *)
  request,  (* __request_method, __request_uri and __request_version         *)
  indata    (* _indata                                                       *)

vars == <<loc, body, lend, request, indata>>

Methods == {"GET", "POST", "HEADER", "PUT", "CONNECT"}
NoRequest == [method |-> <<>>, uri |-> <<>>, version |-> <<>>]

Response == [kind |-> "response"]
Request(r, host) ==
  [kind |-> "request", method |-> r.method, uri |-> r.uri,
   version |-> r.version, host |-> host]

Init ==
  /\ loc = "idle" /\ body = <<>> /\ lend = 0 /\ request = NoRequest
  /\ indata = <<>>

(* conn_data->data() and conn_data->parse(), for the next packet. *)
Receive(b) ==
  /\ loc = "idle" /\ Len(indata) < MaxLines
  /\ loc' = "start" /\ body' = b
  /\ UNCHANGED <<lend, request, indata>>

(* parse() returns, with these entries for _indata. *)
Return(entries) ==
  /\ loc' = "idle" /\ indata' = indata \o entries
  /\ body' = <<>> /\ lend' = 0 /\ request' = NoRequest

(* An exception leaves parse(), and with it the Listener and the process. *)
Throw == loc' = "ended" /\ UNCHANGED <<body, lend, request, indata>>

(* Mutant: chomp() also takes blanks. *)
LineEndsBlank == {CR, LF, Blank}

(* What chomp() takes from both ends. *)
LineEnds == {CR, LF}

chomp(s) ==
  LET s1 == find_first_not_of(s, LineEnds, 0)
      s2 == find_last_not_of(s, LineEnds)
  IN  substr(s, s1, s2 - s1 + 1)

ChompThrows(s) == OutOfRange(s, find_first_not_of(s, LineEnds, 0))

(* The first line is told by its beginning, up to the first blank. *)
IsResponse(start) == start # <<>> /\ start[1] = "HTTP/"

HasMethod(start) ==
  LET m == find_first_of(start, Blank, 0)
  IN  m # npos /\ \E w \in Methods : substr(start, 0, m) = <<w>>

(* URI and version, behind a method that ends at m, in a line that ends at eol. *)
Fields(start, m, eol) ==
  \E pos \in {find_first_not_of(start, {Blank}, m)} :
    \E to \in {find_first_of(start, Blank, pos)} :
      \E version \in {find_first_not_of(start, {Blank}, to)} :
        \/ (pos = npos \/ to = npos) /\ Return(<<>>)
        \/ /\ pos # npos /\ to # npos
           /\ OutOfRange(start, version) /\ Throw
        \/ /\ pos # npos /\ to # npos
           /\ ~OutOfRange(start, version)
           /\ loc' = "headers" /\ lend' = eol
           /\ request' = [method |-> substr(start, 0, m),
                          uri |-> substr(start, pos, to - pos),
                          version |-> substr(start, version, npos)]
           /\ UNCHANGED <<body, indata>>

(* The first line.  The test before the version looks at the wrong variable, so
   a line that ends in blanks makes substr() throw. *)
Start ==
  /\ loc = "start"
  /\ LET eol == find_first_of(body, LF, 0)
     IN  \/ eol = npos /\ Return(<<>>)
         \/ /\ eol # npos
            /\ \E start \in {substr(body, 0, eol)} :
                 \/ IsResponse(start) /\ Return(<<Response>>)
                 \/ ~IsResponse(start) /\ ~HasMethod(start) /\ Return(<<>>)
                 \/ /\ ~IsResponse(start) /\ HasMethod(start)
                    /\ Fields(start, find_first_of(start, Blank, 0), eol)

(* Mutants: the loop goes on one too far; nowhere. *)
NextFar(pos, to) == pos + 1
NextNowhere(pos, to) == lend

(* lend after a line that is not a Host line. *)
NextLine(pos, to) == IF to = npos THEN pos + 1 ELSE pos

(* A turn of the loop over the header lines: pos is where the line ends; the
   colon, to, may be lines ahead. *)
HeaderLine ==
  /\ loc = "headers"
  /\ \E pos \in {find_first_of(body, LF, lend + 1)},
        to \in {find_first_of(body, ":", lend + 1)} :
       LET IsHost == /\ to # npos
                     /\ substr(body, lend + 1, to - lend - 1) = <<"Host">>
           value == substr(body, to + 2, pos - to - 1)
       IN  \/ pos = npos /\ Return(<<Request(request, <<>>)>>)
           \/ pos # npos /\ IsHost /\ ChompThrows(value) /\ Throw
           \/ /\ pos # npos /\ IsHost /\ ~ChompThrows(value)
              /\ Return(<<Request(request, chomp(value))>>)
           \/ /\ pos # npos /\ ~IsHost
              /\ lend' = NextLine(pos, to)
              /\ UNCHANGED <<loc, body, request, indata>>

Next == (\E b \in Bodies : Receive(b)) \/ Start \/ HeaderLine

Spec == Init /\ [][Next]_vars

(* The Listener goes on with a call of parse(). *)
FairSpec == Spec /\ WF_vars(Start \/ HeaderLine)

----------------------------------------------------------------------------
(* The reference: the payload by its lines, in positions that count from 1. *)

Line(b, i, j) ==
  /\ i \in 1..j /\ b[j] = LF /\ \A k \in i..(j - 1) : b[k] # LF
  /\ i = 1 \/ b[i - 1] = LF

HasLine(b) == \E j \in 1..Len(b) : b[j] = LF
FirstLine(b) ==
  LET j == CHOOSE j \in 1..Len(b) : Line(b, 1, j) IN SubSeq(b, 1, j - 1)

(* A method, blanks, a URI from a to z, blanks, and from v on a version. *)
Shape(s, a, z, v) ==
  /\ s[1] \in Methods
  /\ 2 < a /\ a <= z /\ z + 1 < v
  /\ \A k \in 2..(a - 1) : s[k] = Blank
  /\ \A k \in a..z : s[k] # Blank
  /\ \A k \in (z + 1)..(v - 1) : s[k] = Blank
  /\ v <= Len(s) => s[v] # Blank

Shapes(s) ==
  {t \in (1..Len(s)) \X (1..Len(s)) \X (1..(Len(s) + 1)) :
     Shape(s, t[1], t[2], t[3])}

IsRequest(b) ==
  HasLine(b) /\ Shapes(FirstLine(b)) # {}

Cut(b) == CHOOSE t \in Shapes(FirstLine(b)) : TRUE

(* Header lines that say Host, and what they say: all behind the colon and the
   blank, without carriage returns at its ends. *)
HostLines(b) ==
  {t \in (2..Len(b)) \X (2..Len(b)) :
     Line(b, t[1], t[2]) /\ b[t[1]] = "Host" /\ b[t[1] + 1] = ":"}

Trimmed(s) ==
  LET n == Len(s)
  IN  CHOOSE t \in {SubSeq(s, k, l) : k \in 1..(n + 1), l \in 0..n} :
        /\ \E k \in 1..(n + 1) : \E l \in (k - 1)..n :
             /\ t = SubSeq(s, k, l)
             /\ \A i \in 1..n : i \notin k..l => s[i] = CR
        /\ t # <<>> => t[1] # CR /\ t[Len(t)] # CR

HostText(b) ==
  LET t == CHOOSE t \in HostLines(b) : \A u \in HostLines(b) : t[1] <= u[1]
  IN  Trimmed(SubSeq(b, t[1] + 3, t[2] - 1))

(* The payloads that end the process: a request line without a version, behind
   blanks, or a first Host line that says nothing. *)
Malformed ==
  {b \in Bodies :
     /\ IsRequest(b)
     /\ \/ Cut(b)[3] > Len(FirstLine(b))
        \/ HostLines(b) # {} /\ HostText(b) = <<>>}

Entry(b) ==
  LET s == FirstLine(b)
      t == Cut(b)
  IN  [kind |-> "request", method |-> <<s[1]>>, uri |-> SubSeq(s, t[1], t[2]),
       version |-> SubSeq(s, t[3], Len(s)),
       host |-> IF HostLines(b) = {} THEN <<>> ELSE HostText(b)]

Expected ==
  [b \in Bodies |->
     IF HasLine(b) /\ IsResponse(FirstLine(b)) THEN <<Response>>
     ELSE IF IsRequest(b) THEN <<Entry(b)>> ELSE <<>>]

----------------------------------------------------------------------------
(* A packet that is parsed adds what its lines say and nothing else: a response
   or a request with its URI, its version and the Host of the first Host line,
   wherever colons and line ends are. *)
Recorded ==
  [][loc # "idle" /\ loc' = "idle" =>
       body \notin Malformed /\ indata' = indata \o Expected[body]]_vars

(* The process ends only by a request line without a version or an empty
   Host. *)
EndsOnlyMalformed == loc = "ended" => body \in Malformed

(* Every payload is parsed to its end, or ends the process. *)
Returns == loc \in {"start", "headers"} ~> loc \in {"idle", "ended"}
=============================================================================
