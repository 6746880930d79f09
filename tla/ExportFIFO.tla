----------------------------- MODULE ExportFIFO -----------------------------
(***************************************************************************)
(* What threadSafeQueue promises the tracker and the exporter: an unbounded *)
(* first-in first-out queue whose operations are atomic.  ConnTrack uses    *)
(* the export queue in this form; TSQueue implements it.                    *)
(***************************************************************************)
EXTENDS Sequences

CONSTANTS
  Values,   (* what is queued: addresses of connections                    *)
  None      (* the null pointer                                            *)

VARIABLES
  q,        (* the values in the queue, oldest first                       *)
  out       (* what the last successful dequeue() returned                 *)

fifoVars == <<q, out>>

FIFOInit == q = <<>> /\ out = None

Enq(v) == q' = Append(q, v) /\ UNCHANGED out

Deq ==
  /\ q # <<>>
  /\ out' = Head(q)
  /\ q' = Tail(q)

FIFONext == (\E v \in Values : Enq(v)) \/ Deq

FIFOSpec == FIFOInit /\ [][FIFONext]_fifoVars

(* A queue that is polled for ever hands out everything that is put in. *)
FIFOFairSpec == FIFOSpec /\ WF_fifoVars(Deq)
=============================================================================
