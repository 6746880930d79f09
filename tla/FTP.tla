-------------------------------- MODULE FTP ---------------------------------
(***************************************************************************)
(* FTP::parse(): the payload of a packet is cut into lines, all of which   *)
(* are kept.  One character before each line end is taken for a carriage   *)
(* return and dropped.                                                     *)
(***************************************************************************)
EXTENDS Strings, SequencesExt

CONSTANTS
  Bodies,   (* payloads                                                      *)
  MaxLines  (* bound: a packet is parsed when fewer lines are kept           *)

ASSUME BodiesAssumption == Bodies \subseteq Seq(STRING)

VARIABLES
  loc,      (* idle, or loop: in parse()                                     *)
  body,     (* body                                                          *)
  last,     (* last                                                          *)
  line,     (* __line                                                        *)
  had       (* history: __line when parse() was called                       *)

vars == <<loc, body, last, line, had>>

Init == loc = "idle" /\ body = <<>> /\ last = 0 /\ line = <<>> /\ had = <<>>

(* conn_data->data() and conn_data->parse(), for the next packet. *)
Receive(b) ==
  /\ loc = "idle" /\ Len(line) < MaxLines
  /\ loc' = "loop" /\ body' = b /\ last' = 0 /\ had' = line
  /\ UNCHANGED line

(* Mutant: a line is kept with its carriage return. *)
TextWhole(pos) == substr(body, last, pos - last)

(* The line that ends at pos, and where the next one begins.  Of a line end at
   last the length is npos: all that is left is kept. *)
Text(pos) == substr(body, last, pos - last - 1)
After(pos) == pos + 1

(* A turn of the loop. *)
CutLine ==
  /\ loc = "loop"
  /\ LET pos == find_first_of(body, LF, last)
     IN  /\ pos # npos
         /\ line' = Append(line, Text(pos))
         /\ last' = After(pos)
  /\ UNCHANGED <<loc, body, had>>

(* Mutant: nothing is kept when the payload ends with a line end. *)
RestNotEmpty ==
  /\ loc = "loop" /\ find_first_of(body, LF, last) = npos
  /\ line' = IF last = Len(body) THEN line
             ELSE Append(line, substr(body, last, npos))
  /\ loc' = "idle" /\ body' = <<>> /\ last' = 0 /\ had' = <<>>

(* What is behind the last line end, even if it is nothing. *)
Rest ==
  /\ loc = "loop" /\ find_first_of(body, LF, last) = npos
  /\ line' = Append(line, substr(body, last, npos))
  /\ loc' = "idle" /\ body' = <<>> /\ last' = 0 /\ had' = <<>>

Next == (\E b \in Bodies : Receive(b)) \/ CutLine \/ Rest

Spec == Init /\ [][Next]_vars

----------------------------------------------------------------------------
(* The call of parse() ends, with these lines added. *)
Returns == loc = "loop" /\ loc' = "idle"
Added == SubSeq(line', Len(had) + 1, Len(line'))

Ends == {j \in 1..Len(body) : body[j] = LF}

(* Every line ends as those of the protocol do, with CR LF. *)
ProtocolLines == \A j \in Ends : j > 1 /\ body[j - 1] = CR

(* Lines with CR LF between them. *)
Joined(lines) ==
  LET text[i \in 1..Len(lines)] ==
        IF i = 1 THEN lines[1] ELSE text[i - 1] \o <<CR, LF>> \o lines[i]
  IN  text[Len(lines)]

(* A packet adds a line for each line end and one for what is behind the last,
   whatever precedes the line ends, and no packet touches the lines before.  No
   substr() on the way throws. *)
LinesKept ==
  [][/\ loc = "loop" => ~OutOfRange(body, last)
     /\ Returns => /\ IsPrefix(had, line')
                   /\ Len(line') = Len(had) + Cardinality(Ends) + 1]_vars

(* Nothing is lost of payloads whose lines end in CR LF: the lines, joined again,
   are the payload. *)
TextKept == [][Returns /\ ProtocolLines => Joined(Added) = body]_vars
=============================================================================
