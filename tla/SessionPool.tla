----------------------------- MODULE SessionPool ----------------------------
(* What the pool of database sessions promises its users: a session goes from
   the pool to one user, and from that user back to the pool or, when the pool
   refuses it, to nobody. *)
EXTENDS Naturals

CONSTANTS Users, Sessions, None

VARIABLES
  free,   (* the sessions in the pool      *)
  held    (* the session each user has     *)

Init == free = Sessions /\ held = [u \in Users |-> None]

Take(u, s) ==
  /\ held[u] = None /\ s \in free
  /\ free' = free \ {s}
  /\ held' = [held EXCEPT ![u] = s]

Give(u) ==
  /\ held[u] # None
  /\ free' \in {free, free \cup {held[u]}}
  /\ held' = [held EXCEPT ![u] = None]

Next == \E u \in Users : Give(u) \/ \E s \in Sessions : Take(u, s)

Spec == Init /\ [][Next]_<<free, held>>
=============================================================================
