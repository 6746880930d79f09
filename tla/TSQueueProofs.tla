--------------------------- MODULE TSQueueProofs ---------------------------
(***************************************************************************)
(* Proof that threadSafeQueue implements an atomic first-in first-out      *)
(* queue and frees its nodes safely, for any number of nodes and values.   *)
(***************************************************************************)
EXTENDS TSQueue, SequenceTheorems, TLAPS

Last == chain[Len(chain)]
InChain(n) == \E i \in 1..Len(chain) : chain[i] = n

(* The chain is what the next fields say it is, and ends in the dummy. *)
ChainOK ==
  /\ chain # <<>>
  /\ \A i \in 1..Len(chain) : chain[i] \in used
  /\ \A i, j \in 1..Len(chain) : chain[i] = chain[j] => i = j
  /\ \A i \in 1..(Len(chain) - 1) : mem[chain[i]].next = chain[i + 1]
  /\ mem[Last].next = None
  /\ \A i \in 1..(Len(chain) - 1) : mem[chain[i]].data \in Values

(* Where the consumer is in the chain. *)
ConsumerOK ==
  /\ cpc # "delete" => lst = chain[1]
  /\ cpc # "test" => Len(chain) > 1
  /\ cpc = "delete" => old = chain[1] /\ lst = chain[2]
  /\ cpc \in {"step", "delete"} => d_out = mem[chain[1]].data

(* Where the producer is: it fills the dummy and prepares the next one out of
   the consumer's sight. *)
ProducerOK ==
  /\ ppc # "advance" => fst = Last
  /\ ppc = "advance" => tmp = Last
  /\ ppc \in {"new", "null", "link"} => mem[fst].data = d_in /\ d_in \in Values
  /\ ppc \in {"null", "link"} => tmp \in used /\ ~InChain(tmp)
  /\ ppc = "link" => mem[tmp].next = None

ListInv == TypeOK /\ ChainOK /\ ConsumerOK /\ ProducerOK /\ NoLeak

(* The constructor leaves a list of one dummy. *)
LEMMA InitList == Init => ListInv
<1> SUFFICES ASSUME Init PROVE ListInv
  OBVIOUS
<1>1. PICK x \in [data: Values, next: {None}] : mem = [n \in Nodes |-> x]
  BY DEF Init
<1>2. Len(chain) = 1 /\ chain[1] = fst /\ chain \in Seq(Nodes)
  BY DEF Init
<1>3. TypeOK
  BY <1>1, <1>2 DEF Init, TypeOK, Node
<1>4. ChainOK
  BY <1>1, <1>2 DEF Init, ChainOK, Last
<1>5. ConsumerOK /\ ProducerOK
  BY <1>2 DEF Init, ConsumerOK, ProducerOK, Last
<1>6. NoLeak
  BY <1>2 DEF Init, NoLeak
<1> QED  BY <1>3, <1>4, <1>5, <1>6 DEF ListInv

(* The producer fills the dummy, which the consumer does not read yet. *)
LEMMA StoreDataStep ==
  ASSUME ListInv, NEW v \in Values, StoreData(v)
  PROVE  ListInv'
<1> USE DEF ListInv
<1>1. TypeOK'
  BY DEF TypeOK, StoreData, Node, consumerVars
<1>2. /\ UNCHANGED <<chain, used, fst, lst, cpc, d_out, old>>
      /\ fst = Last /\ chain \in Seq(Nodes) /\ Len(chain) \in Nat \ {0}
      /\ mem'[fst].data = v
      /\ \A n \in Nodes : /\ mem'[n].next = mem[n].next
                          /\ n # fst => mem'[n] = mem[n]
  BY DEF StoreData, consumerVars, TypeOK, Node, ProducerOK, ChainOK
<1>3. \A i \in 1..(Len(chain) - 1) : chain[i] \in Nodes /\ chain[i] # fst
  BY <1>2 DEF ChainOK, Last
<1>4. ChainOK'
  BY <1>2, <1>3 DEF ChainOK, Last
<1>5. ConsumerOK'
  BY <1>2, <1>3 DEF ConsumerOK
<1>6. ProducerOK'
  BY <1>2 DEF ProducerOK, StoreData, Last
<1>7. NoLeak'
  BY <1>2 DEF NoLeak, StoreData
<1> QED  BY <1>1, <1>4, <1>5, <1>6, <1>7

(* A new node is neither in the list nor held by the consumer. *)
LEMMA NewStep ==
  ASSUME ListInv, NEW n \in Nodes, NEW junk \in Node, New(n, junk)
  PROVE  ListInv'
<1> USE DEF ListInv
<1>1. TypeOK'
  BY DEF TypeOK, New, Node, consumerVars
<1>2. /\ UNCHANGED <<chain, fst, lst, cpc, d_out, old, d_in>>
      /\ used' = used \cup {n} /\ n \notin used
      /\ tmp' = n /\ ppc = "new" /\ ppc' = "null"
      /\ chain \in Seq(Nodes) /\ Len(chain) \in Nat \ {0}
      /\ \A m \in Nodes \ {n} : mem'[m] = mem[m]
  BY DEF New, consumerVars, TypeOK, ChainOK
<1>3. \A i \in 1..Len(chain) : chain[i] \in Nodes /\ chain[i] # n
  BY <1>2 DEF ChainOK
<1>4. ChainOK'
  BY <1>2, <1>3 DEF ChainOK, Last
<1>5. ConsumerOK'
  BY <1>2, <1>3 DEF ConsumerOK
<1>6. ProducerOK'
  BY <1>2, <1>3 DEF ProducerOK, Last, InChain
<1>7. NoLeak'
  BY <1>2 DEF NoLeak
<1> QED  BY <1>1, <1>4, <1>5, <1>6, <1>7

(* Ending the new node touches no linked node. *)
LEMMA StoreNullStep ==
  ASSUME ListInv, StoreNull
  PROVE  ListInv'
<1> USE DEF ListInv
<1>1. TypeOK'
  BY DEF TypeOK, StoreNull, Node, consumerVars
<1>2. /\ UNCHANGED <<chain, used, fst, lst, cpc, d_out, old, d_in, tmp>>
      /\ ppc = "null" /\ ppc' = "link"
      /\ chain \in Seq(Nodes) /\ Len(chain) \in Nat \ {0}
      /\ tmp \in Nodes /\ ~InChain(tmp) /\ mem'[tmp].next = None
      /\ \A m \in Nodes \ {tmp} : mem'[m] = mem[m]
  BY DEF StoreNull, consumerVars, TypeOK, Node, ChainOK, ProducerOK
<1>3. \A i \in 1..Len(chain) : chain[i] \in Nodes /\ chain[i] # tmp
  BY <1>2 DEF InChain
<1>4. ChainOK'
  BY <1>2, <1>3 DEF ChainOK, Last
<1>5. ConsumerOK'
  BY <1>2, <1>3 DEF ConsumerOK
<1>6. ProducerOK'
  BY <1>2, <1>3 DEF ProducerOK, Last, InChain
<1>7. NoLeak'
  BY <1>2 DEF NoLeak
<1> QED  BY <1>1, <1>4, <1>5, <1>6, <1>7

(* What linking does to the chain. *)
LEMMA LinkEffect ==
  ASSUME ListInv, Link
  PROVE  /\ chain \in Seq(Nodes) /\ Len(chain) \in Nat \ {0}
         /\ Len(chain') = Len(chain) + 1
         /\ \A i \in 1..Len(chain) : chain'[i] = chain[i]
         /\ chain'[Len(chain) + 1] = tmp
         /\ fst = chain[Len(chain)] /\ tmp \in used /\ tmp \in Nodes
         /\ \A i \in 1..Len(chain) : chain[i] # tmp
         /\ mem'[fst].next = tmp
         /\ \A m \in Nodes : /\ mem'[m].data = mem[m].data
                             /\ m # fst => mem'[m] = mem[m]
         /\ UNCHANGED <<used, fst, lst, cpc, d_out, old, ret, d_in, tmp>>
         /\ ppc = "link" /\ ppc' = "advance"
<1> USE DEF ListInv
<1>1. /\ chain \in Seq(Nodes) /\ Len(chain) \in Nat \ {0}
      /\ tmp \in Nodes /\ tmp \in used /\ ~InChain(tmp) /\ fst = Last
      /\ chain' = Append(chain, tmp)
  BY DEF Link, TypeOK, ChainOK, ProducerOK
<1>2. /\ mem'[fst].next = tmp
      /\ \A m \in Nodes : /\ mem'[m].data = mem[m].data
                          /\ m # fst => mem'[m] = mem[m]
  BY DEF Link, TypeOK, Node
<1>3. /\ UNCHANGED <<used, fst, lst, cpc, d_out, old, ret, d_in, tmp>>
      /\ ppc = "link" /\ ppc' = "advance"
  BY DEF Link, consumerVars
<1> QED  BY <1>1, <1>2, <1>3 DEF InChain, Last

(* Linking makes a finished node the dummy. *)
LEMMA LinkStep ==
  ASSUME ListInv, Link
  PROVE  ListInv'
<1> USE DEF ListInv
<1>1. /\ chain \in Seq(Nodes) /\ Len(chain) \in Nat \ {0}
      /\ Len(chain') = Len(chain) + 1
      /\ \A i \in 1..Len(chain) : chain'[i] = chain[i] /\ chain[i] # tmp
      /\ chain'[Len(chain) + 1] = tmp
      /\ fst = chain[Len(chain)] /\ tmp \in used /\ tmp \in Nodes
      /\ mem'[fst].next = tmp
      /\ \A m \in Nodes : /\ mem'[m].data = mem[m].data
                          /\ m # fst => mem'[m] = mem[m]
      /\ UNCHANGED <<used, fst, lst, cpc, d_out, old, d_in, tmp>>
      /\ ppc = "link" /\ ppc' = "advance"
  BY LinkEffect
<1>2. TypeOK'
  BY <1>1 DEF TypeOK, Link, Node, consumerVars
<1>3. \A i \in 1..Len(chain) : chain[i] \in Nodes
  BY <1>1
<1>4. ChainOK'
  <2>1. chain' # <<>> /\ Last' = tmp
    BY <1>1, <1>2 DEF Last, TypeOK
  <2>2. \A i \in 1..Len(chain') : chain'[i] \in used'
    BY <1>1 DEF ChainOK
  <2>3. \A i, j \in 1..Len(chain') : chain'[i] = chain'[j] => i = j
    BY <1>1 DEF ChainOK
  <2>4. ASSUME NEW i \in 1..(Len(chain') - 1)
        PROVE  /\ mem'[chain'[i]].next = chain'[i + 1]
               /\ mem'[chain'[i]].data \in Values
    <3>1. CASE i = Len(chain)
      BY <1>1, <1>3, <3>1 DEF ProducerOK
    <3>2. CASE i \in 1..(Len(chain) - 1)
      <4>1. chain[i] # fst
        BY <1>1, <3>2 DEF ChainOK
      <4> QED  BY <1>1, <1>3, <3>2, <4>1 DEF ChainOK
    <3> QED  BY <1>1, <2>4, <3>1, <3>2
  <2>5. mem'[tmp].next = None
    BY <1>1 DEF ProducerOK
  <2> QED  BY <2>1, <2>2, <2>3, <2>4, <2>5 DEF ChainOK
<1>5. ConsumerOK'
  BY <1>1, <1>3 DEF ConsumerOK
<1>6. ProducerOK'
  BY <1>1 DEF ProducerOK, Last
<1>7. NoLeak'
  <2>1. {chain'[i] : i \in 1..Len(chain')} =
          {chain[i] : i \in 1..Len(chain)} \cup {tmp}
    BY <1>1
  <2> QED  BY <1>1, <2>1 DEF NoLeak
<1> QED  BY <1>2, <1>4, <1>5, <1>6, <1>7

(* The steps that only move a pointer keep the list. *)
LEMMA OtherSteps ==
  ASSUME ListInv, AdvanceFst \/ TestNext \/ ReadData \/ StepLst \/ UNCHANGED vars
  PROVE  ListInv'
<1> USE DEF ListInv
<1>1. UNCHANGED <<mem, used, chain>>
  BY DEF AdvanceFst, TestNext, ReadData, StepLst, vars
<1>2. chain \in Seq(Nodes) /\ Len(chain) \in Nat \ {0} /\ chain[1] \in Nodes
  BY DEF TypeOK, ChainOK
<1>3. cpc = "test" /\ mem[lst].next # None => Len(chain) > 1
  BY <1>2 DEF ConsumerOK, ChainOK, Last
<1>4. Len(chain) > 1 => mem[chain[1]].next = chain[2] /\ chain[2] \in Nodes
  BY <1>2 DEF ChainOK
<1>5. TypeOK'
  <2>1. mem[lst].data \in Values \cup {None}
    BY DEF TypeOK, Node
  <2>2. cpc = "step" => mem[lst].next \in Nodes
    BY <1>4 DEF ConsumerOK, TypeOK
  <2>3. CASE AdvanceFst
    <3>1. tmp \in Nodes
      BY <1>2, <2>3 DEF AdvanceFst, ProducerOK, Last, TypeOK
    <3> QED  BY <2>3, <3>1 DEF TypeOK, AdvanceFst, consumerVars
  <2>4. CASE TestNext \/ ReadData \/ StepLst
    BY <2>1, <2>2, <2>4 DEF TypeOK, TestNext, ReadData, StepLst, producerVars
  <2>5. CASE UNCHANGED vars
    BY <2>5 DEF TypeOK, vars, producerVars, consumerVars
  <2> QED  BY <2>3, <2>4, <2>5
<1>6. ChainOK'
  BY <1>1 DEF ChainOK, Last
<1>7. ConsumerOK'
  BY <1>1, <1>2, <1>3, <1>4 DEF ConsumerOK, AdvanceFst, TestNext, ReadData,
     StepLst, vars, consumerVars
<1>8. ProducerOK'
  BY <1>1 DEF ProducerOK, Last, InChain, AdvanceFst, TestNext, ReadData,
     StepLst, vars, producerVars
<1>9. NoLeak'
  BY <1>1 DEF NoLeak, AdvanceFst, TestNext, ReadData, StepLst, vars,
     producerVars
<1> QED  BY <1>5, <1>6, <1>7, <1>8, <1>9

(* What deleting the oldest node does to the chain. *)
LEMMA DeleteEffect ==
  ASSUME ListInv, DeleteReturn
  PROVE  /\ chain \in Seq(Nodes) /\ Len(chain) \in Nat /\ Len(chain) > 1
         /\ chain' \in Seq(Nodes) /\ Len(chain') = Len(chain) - 1
         /\ \A i \in 1..(Len(chain) - 1) : chain'[i] = chain[i + 1]
         /\ used' = used \ {chain[1]}
         /\ lst = chain[2] /\ d_out = mem[chain[1]].data
         /\ UNCHANGED <<mem, fst, ppc, d_in, tmp, lst>>
         /\ ret' = d_out /\ cpc' = "test"
<1> USE DEF ListInv
<1>1. /\ chain \in Seq(Nodes) /\ Len(chain) \in Nat /\ Len(chain) > 1
      /\ chain # <<>> /\ chain' = Tail(chain)
      /\ old = chain[1] /\ lst = chain[2] /\ d_out = mem[chain[1]].data
  BY DEF DeleteReturn, TypeOK, ConsumerOK, ChainOK
<1>2. /\ chain' \in Seq(Nodes) /\ Len(chain') = Len(chain) - 1
      /\ \A i \in 1..Len(chain') : chain'[i] = chain[i + 1]
  BY <1>1, HeadTailProperties
<1> QED  BY <1>1, <1>2 DEF DeleteReturn, producerVars

(* Deleting the oldest node keeps the rest of the list. *)
LEMMA DeleteStep ==
  ASSUME ListInv, DeleteReturn
  PROVE  ListInv'
<1> USE DEF ListInv
<1>1. /\ chain \in Seq(Nodes) /\ Len(chain) \in Nat /\ Len(chain) > 1
      /\ chain' \in Seq(Nodes) /\ Len(chain') = Len(chain) - 1
      /\ \A i \in 1..(Len(chain) - 1) : chain'[i] = chain[i + 1]
      /\ used' = used \ {chain[1]}
      /\ lst = chain[2] /\ d_out = mem[chain[1]].data
      /\ UNCHANGED <<mem, fst, ppc, d_in, tmp, lst>>
      /\ ret' = d_out /\ cpc' = "test"
  BY DeleteEffect
<1>2. TypeOK'
  <2>1. chain' \in Seq(Nodes)
    BY <1>1
  <2> QED  BY <2>1 DEF TypeOK, DeleteReturn, producerVars
<1>3. /\ Last' = Last /\ chain' # <<>>
      /\ \A i \in 2..Len(chain) : chain[i] # chain[1]
  BY <1>1 DEF Last, ChainOK
<1>4. ChainOK'
  <2>1. \A i \in 1..Len(chain') : chain'[i] \in used'
    BY <1>1, <1>3 DEF ChainOK
  <2>2. \A i, j \in 1..Len(chain') : chain'[i] = chain'[j] => i = j
    BY <1>1 DEF ChainOK
  <2>3. ASSUME NEW i \in 1..(Len(chain') - 1)
        PROVE  /\ mem'[chain'[i]].next = chain'[i + 1]
               /\ mem'[chain'[i]].data \in Values
    <3>1. i + 1 \in 1..(Len(chain) - 1) /\ i \in 1..(Len(chain) - 1)
      BY <1>1, <2>3
    <3> QED  BY <1>1, <3>1 DEF ChainOK
  <2> QED  BY <1>1, <1>3, <2>1, <2>2, <2>3 DEF ChainOK
<1>5. ConsumerOK'
  BY <1>1 DEF ConsumerOK
<1>6. ProducerOK'
  <2>1. \A n : InChain(n)' => InChain(n)
    BY <1>1 DEF InChain
  <2>2. ppc \in {"null", "link"} => tmp # chain[1]
    BY <1>1 DEF ProducerOK, InChain
  <2> QED  BY <1>1, <1>3, <2>1, <2>2 DEF ProducerOK
<1>7. NoLeak'
  <2>1. {chain'[i] : i \in 1..Len(chain')} =
          {chain[i] : i \in 1..Len(chain)} \ {chain[1]}
    <3>1. \A i \in 1..Len(chain') : i + 1 \in 2..Len(chain)
      BY <1>1
    <3>2. \A i \in 2..Len(chain) : i - 1 \in 1..Len(chain')
                                   /\ chain'[i - 1] = chain[i]
      BY <1>1
    <3> QED  BY <1>1, <1>3, <3>1, <3>2
  <2>2. ppc \in {"null", "link"} => tmp # chain[1]
    BY <1>1 DEF ProducerOK, InChain
  <2> QED  BY <1>1, <2>1, <2>2 DEF NoLeak
<1> QED  BY <1>2, <1>4, <1>5, <1>6, <1>7

(* Every step of either thread keeps the list. *)
LEMMA StepList == ListInv /\ [Next]_vars => ListInv'
<1> SUFFICES ASSUME ListInv, [Next]_vars PROVE ListInv'
  OBVIOUS
<1> QED
  BY StoreDataStep, NewStep, StoreNullStep, LinkStep, OtherSteps, DeleteStep
     DEF Next, Producer, Consumer

(* The nodes from lst to fst always form a list that ends, whose values are
   set. *)
THEOREM ListCorrect == Spec => []ListInv
  BY InitList, StepList, PTL DEF Spec

(* Every field and pointer keeps its type. *)
THEOREM TypeCorrect == Spec => []TypeOK
  BY ListCorrect, PTL DEF ListInv

(* Neither thread touches a node that is not allocated. *)
THEOREM NodesSafe == Spec => []NoUseAfterFree
<1>1. ListInv => NoUseAfterFree
  <2> SUFFICES ASSUME ListInv PROVE NoUseAfterFree
    OBVIOUS
  <2>1. /\ chain \in Seq(Nodes) /\ Len(chain) \in Nat \ {0}
        /\ chain[1] \in used /\ Last \in used /\ InChain(Last)
    BY DEF ListInv, TypeOK, ChainOK, Last, InChain
  <2>2. Len(chain) > 1 => chain[2] # chain[1]
    BY <2>1 DEF ListInv, ChainOK
  <2> QED
    BY <2>1, <2>2 DEF ListInv, ConsumerOK, ProducerOK, NoUseAfterFree
<1> QED  BY <1>1, ListCorrect, PTL

(* No node leaks. *)
THEOREM NodesKept == Spec => []NoLeak
  BY ListCorrect, PTL DEF ListInv

----------------------------------------------------------------------------
(* Refinement.                                                             *)

(* What the list represents is a sequence of values. *)
LEMMA QueuedType ==
  ASSUME ListInv
  PROVE  Queued \in Seq(Values) /\ Len(Queued) = Len(chain) - 1
<1>1. Len(chain) - 1 \in Nat
  BY DEF ListInv, TypeOK, ChainOK
<1> QED  BY <1>1 DEF ListInv, ChainOK, Queued

(* Linking the new dummy appends the argument of enqueue(). *)
LEMMA LinkEnqueues ==
  ASSUME ListInv, Link
  PROVE  d_in \in Values /\ FIFO!Enq(d_in)
<1>1. /\ chain \in Seq(Nodes) /\ Len(chain) \in Nat \ {0}
      /\ Len(chain') = Len(chain) + 1
      /\ \A i \in 1..Len(chain) : chain'[i] = chain[i] /\ chain[i] \in Nodes
      /\ fst = chain[Len(chain)]
      /\ \A m \in Nodes : mem'[m].data = mem[m].data
      /\ ret' = ret /\ ppc = "link"
  BY LinkEffect
<1>2. d_in \in Values /\ mem[fst].data = d_in
  BY <1>1 DEF ListInv, ProducerOK
<1>3. Queued' = [i \in 1..Len(chain) |-> mem'[chain'[i]].data]
  BY <1>1 DEF Queued
<1>4. Queued \in Seq(Values) /\ Len(Queued) = Len(chain) - 1
  BY QueuedType
<1>5. /\ Append(Queued, d_in) \in Seq(Values)
      /\ Len(Append(Queued, d_in)) = Len(chain)
      /\ \A i \in 1..(Len(chain) - 1) : Append(Queued, d_in)[i] = Queued[i]
      /\ Append(Queued, d_in)[Len(chain)] = d_in
  BY <1>1, <1>2, <1>4
<1>6. \A i \in 1..Len(chain) :
         mem'[chain'[i]].data = Append(Queued, d_in)[i]
  BY <1>1, <1>2, <1>5 DEF Queued
<1>7. Append(Queued, d_in) = [i \in 1..Len(chain) |-> Append(Queued, d_in)[i]]
  <2>1. Append(Queued, d_in) \in [1..Len(chain) -> Values]
    BY <1>5, LenProperties
  <2> QED  BY <2>1
<1>8. Queued' = Append(Queued, d_in)
  BY <1>3, <1>6, <1>7
<1> QED  BY <1>1, <1>2, <1>8 DEF FIFO!Enq

(* The end of dequeue() takes and returns the oldest value. *)
LEMMA DeleteDequeues ==
  ASSUME ListInv, DeleteReturn
  PROVE  FIFO!Deq
<1>1. /\ chain \in Seq(Nodes) /\ Len(chain) \in Nat /\ Len(chain) > 1
      /\ chain' \in Seq(Nodes) /\ Len(chain') = Len(chain) - 1
      /\ \A i \in 1..(Len(chain) - 1) : chain'[i] = chain[i + 1]
      /\ d_out = mem[chain[1]].data
      /\ mem' = mem /\ ret' = d_out
  BY DeleteEffect
<1>2. Queued \in Seq(Values) /\ Len(Queued) = Len(chain) - 1
  BY QueuedType
<1>3. Queued # <<>> /\ Head(Queued) = d_out
  BY <1>1, <1>2 DEF Queued
<1>4. /\ Tail(Queued) \in Seq(Values) /\ Len(Tail(Queued)) = Len(chain) - 2
      /\ \A i \in 1..(Len(chain) - 2) : Tail(Queued)[i] = Queued[i + 1]
  BY <1>1, <1>2, <1>3, HeadTailProperties
<1>5. Queued' = [i \in 1..(Len(chain) - 2) |-> mem[chain'[i]].data]
  BY <1>1 DEF Queued
<1>6. \A i \in 1..(Len(chain) - 2) : mem[chain'[i]].data = Tail(Queued)[i]
  <2> SUFFICES ASSUME NEW i \in 1..(Len(chain) - 2)
               PROVE  mem[chain'[i]].data = Tail(Queued)[i]
    OBVIOUS
  <2>1. i \in 1..(Len(chain) - 1) /\ i + 1 \in 1..(Len(chain) - 1)
    BY <1>1
  <2>2. Queued[i + 1] = mem[chain[i + 1]].data
    BY <2>1 DEF Queued
  <2> QED  BY <1>1, <1>4, <2>1, <2>2
<1>7. Tail(Queued) = [i \in 1..(Len(chain) - 2) |-> Tail(Queued)[i]]
  <2>1. Tail(Queued) \in [1..(Len(chain) - 2) -> Values]
    BY <1>4, LenProperties
  <2> QED  BY <2>1
<1>8. Queued' = Tail(Queued)
  BY <1>5, <1>6, <1>7
<1> QED  BY <1>1, <1>3, <1>8 DEF FIFO!Deq

(* Every other step leaves the queue as it is: the producer writes only the
   dummy and a node of its own. *)
LEMMA OthersStutter ==
  ASSUME ListInv, [Next]_vars, ~Link, ~DeleteReturn
  PROVE  Queued' = Queued /\ ret' = ret
<1>1. chain' = chain /\ ret' = ret
  BY DEF Next, Producer, Consumer, StoreData, New, StoreNull, AdvanceFst,
     TestNext, ReadData, StepLst, vars, consumerVars
<1>2. chain \in Seq(Nodes) /\ Len(chain) \in Nat \ {0} /\ mem \in [Nodes -> Node]
  BY DEF ListInv, TypeOK, ChainOK
<1>3. ASSUME NEW i \in 1..(Len(chain) - 1)
      PROVE  mem'[chain[i]].data = mem[chain[i]].data
  <2>1. /\ i \in 1..Len(chain) /\ chain[i] \in Nodes /\ chain[i] \in used
        /\ chain[i] # Last /\ InChain(chain[i])
    BY <1>2 DEF ListInv, ChainOK, Last, InChain
  <2>2. ASSUME NEW v \in Values, StoreData(v)
        PROVE  mem'[chain[i]] = mem[chain[i]]
    BY <1>2, <2>1, <2>2 DEF StoreData, ListInv, ProducerOK
  <2>3. ASSUME NEW n \in Nodes, NEW junk \in Node, New(n, junk)
        PROVE  mem'[chain[i]] = mem[chain[i]]
    BY <1>2, <2>1, <2>3 DEF New
  <2>4. CASE StoreNull
    <3>1. ~InChain(tmp)
      BY <2>4 DEF StoreNull, ListInv, ProducerOK
    <3>2. tmp # chain[i]
      BY <2>1, <3>1
    <3> QED  BY <1>2, <2>1, <2>4, <3>2 DEF StoreNull
  <2>5. CASE AdvanceFst \/ Consumer \/ UNCHANGED vars
    BY <2>5 DEF AdvanceFst, Consumer, TestNext, ReadData, StepLst,
       DeleteReturn, vars
  <2> QED  BY <2>2, <2>3, <2>4, <2>5 DEF Next, Producer
<1> QED  BY <1>1, <1>3 DEF Queued

(* The lock-free list implements the atomic queue the tracker and the exporter
   count on. *)
THEOREM QueueImplementsFIFO == Spec => Implements
<1>1. Init => FIFO!FIFOInit
  BY DEF Init, FIFO!FIFOInit, Queued
<1>2. ListInv /\ [Next]_vars => [FIFO!FIFONext]_(FIFO!fifoVars)
  BY LinkEnqueues, DeleteDequeues, OthersStutter
     DEF FIFO!FIFONext, FIFO!fifoVars
<1> QED
  BY <1>1, <1>2, ListCorrect, PTL DEF Spec, Implements, FIFO!FIFOSpec
============================================================================
