----------------------------- MODULE LifeCycle ------------------------------
(* What csharker promises of each connection it tracks: it is open while
   packets are counted, sent when it has been closed, settled when its row was
   inserted or refused, and then freed. *)

CONSTANT Conns   (* the addresses a connection may have *)

VARIABLES
  stage,     (* the stage of the connection at each address *)
  outcome    (* what became of its row                      *)

vars == <<stage, outcome>>

Init ==
  /\ stage = [a \in Conns |-> "free"]
  /\ outcome = [a \in Conns |-> "none"]

Move(a, from, to) == stage[a] = from /\ stage' = [stage EXCEPT ![a] = to]

Open(a) == Move(a, "free", "open") /\ outcome' = [outcome EXCEPT ![a] = "none"]

Send(a) == Move(a, "open", "sent") /\ UNCHANGED outcome

Decide(a) ==
  /\ stage[a] = "sent" /\ outcome[a] = "none"
  /\ outcome' \in {[outcome EXCEPT ![a] = r] : r \in {"inserted", "failed"}}
  /\ UNCHANGED stage

Settle(a) ==
  outcome[a] # "none" /\ Move(a, "sent", "settled") /\ UNCHANGED outcome

Free(a) == Move(a, "settled", "free") /\ UNCHANGED outcome

Next ==
  \E a \in Conns : Open(a) \/ Send(a) \/ Decide(a) \/ Settle(a) \/ Free(a)

Spec == Init /\ [][Next]_vars
=============================================================================
