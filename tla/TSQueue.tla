------------------------------ MODULE TSQueue ------------------------------
(***************************************************************************)
(* threadSafeQueue: a linked list with a dummy node at its end, one thread *)
(* that enqueues (the connection tracker) and one that dequeues (the       *)
(* exporter), and no lock.  Every access to a node is a step.              *)
(*                                                                         *)
(* Stores take effect in the order of the source.  On the x86 the program  *)
(* is built for, the producer's stores reach memory in program order, and  *)
(* it loads nothing that the consumer stores, so a store that lingers in   *)
(* its store buffer looks like a producer that is late.                    *)
(*                                                                         *)
(* The node pool is finite and freed nodes are used again: operator new    *)
(* returns a node whose fields hold whatever was left there.               *)
(***************************************************************************)
EXTENDS Integers, Sequences

CONSTANTS
  Nodes,    (* bound: the addresses a struct __queue may have              *)
  Values,   (* what is queued: addresses of connections                    *)
  None      (* the null pointer                                            *)

ASSUME QueueAssumption == None \notin Nodes /\ None \notin Values

VARIABLES
  mem,      (* the fields of the node at each address                      *)
  used,     (* the addresses that are allocated                            *)
  (* producer *)
  fst,      (* where the next value goes                                   *)
  ppc,      (* where the producer is in enqueue(), or "idle"               *)
  d_in,     (* the argument of enqueue()                                   *)
  tmp,      (* the node it has allocated                                   *)
  (* consumer *)
  lst,      (* the oldest node                                             *)
  cpc,      (* where the consumer is in dequeue()                          *)
  d_out,    (* the value it has read                                       *)
  old,      (* the node it will delete (its own tmp)                       *)
  ret,      (* what the last successful dequeue() returned                 *)
  (* history *)
  chain     (* the linked nodes, from the consumer's to the dummy          *)

producerVars == <<fst, ppc, d_in, tmp>>
consumerVars == <<lst, cpc, d_out, old, ret>>
vars == <<mem, used, producerVars, consumerVars, chain>>

Node == [data: Values \cup {None}, next: Nodes \cup {None}]

(* The constructor: one node, whose data is not initialised. *)
Init ==
  /\ mem \in {[n \in Nodes |-> x] : x \in [data: Values, next: {None}]}
  /\ fst \in Nodes /\ lst = fst /\ used = {fst}
  /\ ppc = "idle" /\ d_in = None /\ tmp = None
  /\ cpc = "test" /\ d_out = None /\ old = None /\ ret = None
  /\ chain = <<fst>>

----------------------------------------------------------------------------
(* void enqueue(T &d)                                                      *)

StoreData(v) ==
  /\ ppc = "idle"
  /\ mem' = [mem EXCEPT ![fst].data = v]
  /\ d_in' = v /\ ppc' = "new"
  /\ UNCHANGED <<used, fst, tmp, consumerVars, chain>>

(* Bound: it waits until one of Nodes is free. *)
New(n, junk) ==
  /\ ppc = "new"
  /\ n \notin used
  /\ used' = used \cup {n}
  /\ mem' = [mem EXCEPT ![n] = junk]
  /\ tmp' = n /\ ppc' = "null"
  /\ UNCHANGED <<fst, d_in, consumerVars, chain>>

(* Mutant: the node is linked before its next is set to NULL. *)
StoreNullLate ==
  /\ ppc = "null"
  /\ ppc' = "link"
  /\ UNCHANGED <<mem, used, fst, d_in, tmp, consumerVars, chain>>

StoreNull ==
  /\ ppc = "null"
  /\ mem' = [mem EXCEPT ![tmp].next = None]
  /\ ppc' = "link"
  /\ UNCHANGED <<used, fst, d_in, tmp, consumerVars, chain>>

Link ==
  /\ ppc = "link"
  /\ mem' = [mem EXCEPT ![fst].next = tmp]
  /\ chain' = Append(chain, tmp)
  /\ ppc' = "advance"
  /\ UNCHANGED <<used, fst, d_in, tmp, consumerVars>>

AdvanceFst ==
  /\ ppc = "advance"
  /\ fst' = tmp
  /\ ppc' = "idle" /\ tmp' = None /\ d_in' = None
  /\ UNCHANGED <<mem, used, consumerVars, chain>>

Producer ==
  \/ \E v \in Values : StoreData(v)
  \/ \E n \in Nodes, junk \in Node : New(n, junk)
  \/ StoreNull \/ Link \/ AdvanceFst

----------------------------------------------------------------------------
(* T* dequeue()                                                            *)

(* Mutant: a list of one value is taken for empty. *)
TestTwo ==
  /\ cpc = "test"
  /\ mem[lst].next # None /\ mem[mem[lst].next].next # None
  /\ cpc' = "read"
  /\ UNCHANGED <<mem, used, producerVars, lst, d_out, old, ret, chain>>

(* If lst->next is NULL, dequeue() returns NULL and changes nothing. *)
TestNext ==
  /\ cpc = "test"
  /\ mem[lst].next # None
  /\ cpc' = "read"
  /\ UNCHANGED <<mem, used, producerVars, lst, d_out, old, ret, chain>>

ReadData ==
  /\ cpc = "read"
  /\ d_out' = mem[lst].data
  /\ cpc' = "step"
  /\ UNCHANGED <<mem, used, producerVars, lst, old, ret, chain>>

(* Mutant: the list is not advanced before its node goes. *)
StepLstLate ==
  /\ cpc = "step"
  /\ old' = lst /\ lst' = lst
  /\ cpc' = "delete"
  /\ UNCHANGED <<mem, used, producerVars, d_out, ret, chain>>

StepLst ==
  /\ cpc = "step"
  /\ old' = lst
  /\ lst' = mem[lst].next
  /\ cpc' = "delete"
  /\ UNCHANGED <<mem, used, producerVars, d_out, ret, chain>>

(* Mutant: the node is not deleted. *)
DeleteForgotten ==
  /\ cpc = "delete"
  /\ ret' = d_out
  /\ chain' = Tail(chain)
  /\ cpc' = "test" /\ d_out' = None /\ old' = None
  /\ UNCHANGED <<mem, used, producerVars, lst>>

DeleteReturn ==
  /\ cpc = "delete"
  /\ used' = used \ {old}
  /\ ret' = d_out
  /\ chain' = Tail(chain)
  /\ cpc' = "test" /\ d_out' = None /\ old' = None
  /\ UNCHANGED <<mem, producerVars, lst>>

Consumer == TestNext \/ ReadData \/ StepLst \/ DeleteReturn

Next == Producer \/ Consumer

Spec == Init /\ [][Next]_vars

(* The exporter polls for ever, and a dequeue() that has begun ends; nothing is
   asked of the producer. *)
FairSpec == Spec /\ WF_vars(Consumer)

----------------------------------------------------------------------------
TypeOK ==
  /\ mem \in [Nodes -> Node] /\ used \subseteq Nodes
  /\ fst \in Nodes /\ lst \in Nodes
  /\ ppc \in {"idle", "new", "null", "link", "advance"}
  /\ cpc \in {"test", "read", "step", "delete"}
  /\ d_in \in Values \cup {None} /\ d_out \in Values \cup {None}
  /\ tmp \in Nodes \cup {None} /\ old \in Nodes \cup {None}
  /\ ret \in Values \cup {None}
  /\ chain \in Seq(Nodes)

(* What is queued: the data of every linked node but the dummy. *)
Queued == [i \in 1..(Len(chain) - 1) |-> mem[chain[i]].data]

FIFO == INSTANCE ExportFIFO WITH q <- Queued, out <- ret

(* The list implements an atomic first-in first-out queue: enqueue() takes
   effect when the new dummy is linked, dequeue() when it returns. *)
Implements == FIFO!FIFOSpec

(* Nothing that was put in waits for ever while the exporter polls. *)
ImplementsFair == FIFO!FIFOFairSpec

(* Neither thread touches a node that is not allocated, although the consumer
   deletes nodes the producer has just written and deleted nodes are used
   again. *)
NoUseAfterFree ==
  /\ cpc # "delete" => lst \in used
  /\ cpc = "delete" => old \in used /\ old # lst
  /\ ppc # "advance" => fst \in used
  /\ ppc \in {"null", "link"} => tmp \in used /\ tmp # fst

(* Every allocated node is in the list or about to be linked: none leaks. *)
NoLeak ==
  used = {chain[i] : i \in 1..Len(chain)}
           \cup (IF ppc \in {"null", "link"} THEN {tmp} ELSE {})
============================================================================
