-------------------------- MODULE ConnTrackProofs --------------------------
(***************************************************************************)
(* Proofs of ConnTrack's safety properties, for every set of hosts, ports, *)
(* packets and addresses and every delay.  They rest on one another in the *)
(* order of this module: MapOK says what the lists contain, Custody and    *)
(* the invariants after it use it to know which connection the tracker is  *)
(* at.                                                                     *)
(***************************************************************************)
EXTENDS ConnTrack, SequenceTheorems, WellFoundedInduction, TLAPS

----------------------------------------------------------------------------
(* Every variable keeps its type.                                           *)

(* There is a first bucket in the order of the map. *)
LEMMA LeastBucket ==
  FirstBucket \in Buckets /\ \A m \in Buckets : FirstBucket <= m
<1> DEFINE LessThan == OpToRel(<, Nat)
<1>1. Buckets # {}
  BY ConstantsAssumption DEF Buckets
<1>2. \E l \in Buckets : \A m \in Buckets : <<m, l>> \notin LessThan
  <2>1. IsWellFoundedOn(LessThan, Nat)
    BY NatLessThanWellFounded
  <2>2. Buckets \subseteq Nat
    BY ConstantsAssumption
  <2> HIDE DEF LessThan
  <2> QED  BY <1>1, <2>1, <2>2, WFMin
<1>3. \E l \in Buckets : \A m \in Buckets : l <= m
  <2>1. PICK l \in Buckets : \A m \in Buckets : <<m, l>> \notin LessThan
    BY <1>2
  <2>2. ASSUME NEW m \in Buckets PROVE l <= m
    <3>1. l \in Nat /\ m \in Nat
      BY ConstantsAssumption
    <3>2. m < l => <<m, l>> \in LessThan
      BY <3>1 DEF OpToRel
    <3> HIDE DEF LessThan
    <3> QED  BY <2>1, <3>1, <3>2
  <2> QED  BY <2>2
<1> QED  BY <1>3 DEF FirstBucket

(* Every key has its bucket in the map. *)
LEMMA KeyBucket ==
  ASSUME NEW k \in Key
  PROVE  Bucket(k) \in Buckets
<1>1. k.saddr \in Hosts /\ k.daddr \in Hosts
  BY DEF Key
<1> QED  BY <1>1 DEF Bucket, Buckets

(* What RemoveAt keeps, and where. *)
LEMMA RemoveAtFacts ==
  ASSUME NEW S, NEW q \in Seq(S), NEW i \in 1..Len(q)
  PROVE  /\ RemoveAt(q, i) \in Seq(S)
         /\ Len(RemoveAt(q, i)) = Len(q) - 1
         /\ \A j \in 1..(Len(q) - 1) :
              RemoveAt(q, i)[j] = IF j < i THEN q[j] ELSE q[j + 1]
<1> DEFINE front == SubSeq(q, 1, i - 1)
           back == SubSeq(q, i + 1, Len(q))
<1>1. /\ front \in Seq(S) /\ Len(front) = i - 1
      /\ \A j \in 1..(i - 1) : front[j] = q[j]
  <2>1. \A j \in 1..(i - 1) : q[j] \in S
    OBVIOUS
  <2> QED  BY <2>1, SubSeqProperties
<1>2. /\ back \in Seq(S) /\ Len(back) = Len(q) - i
      /\ \A j \in 1..(Len(q) - i) : back[j] = q[j + i]
  <2>1. \A j \in (i + 1)..Len(q) : q[j] \in S
    OBVIOUS
  <2> QED  BY <2>1, SubSeqProperties
<1>3. RemoveAt(q, i) = front \o back
  BY DEF RemoveAt
<1> HIDE DEF front, back
<1>4. /\ front \o back \in Seq(S)
      /\ Len(front \o back) = Len(front) + Len(back)
      /\ \A j \in 1..(Len(front) + Len(back)) :
           (front \o back)[j] =
              IF j <= Len(front) THEN front[j] ELSE back[j - Len(front)]
  BY <1>1, <1>2, ConcatProperties
<1>5. ASSUME NEW j \in 1..(Len(q) - 1)
      PROVE  (front \o back)[j] = IF j < i THEN q[j] ELSE q[j + 1]
  <2>1. CASE j < i
    BY <1>1, <1>2, <1>4, <2>1
  <2>2. CASE ~(j < i)
    <3>1. /\ (front \o back)[j] = back[j - (i - 1)]
          /\ j - (i - 1) \in 1..(Len(q) - i)
      BY <1>1, <1>2, <1>4, <2>2
    <3>2. back[j - (i - 1)] = q[(j - (i - 1)) + i]
      BY <1>2, <3>1
    <3> QED  BY <2>2, <3>1, <3>2
  <2> QED  BY <2>1, <2>2
<1> QED  BY <1>1, <1>2, <1>3, <1>4, <1>5

----------------------------------------------------------------------------
(* Types.  TypeOK is not inductive alone: the tracker must point into the list
   when it marks and queues, and the Listener must have set conn_data when it
   calls parse(). *)
PositionOK == tpc \in {"mark", "enqueue"} => idx \in 1..Len(connmap[at])
DataSet == lpc = "parse" /\ cnew \in live => conn[cnew].data # None

TypeInv == TypeOK /\ PositionOK /\ DataSet

(* The program starts in a typed state. *)
LEMMA InitTypes == Init => TypeInv
<1> SUFFICES ASSUME Init PROVE TypeInv
  OBVIOUS
<1>1. Cleared \in Connection
  BY ConstantsAssumption DEF Cleared, Connection, ZeroKey, Key
<1>2. /\ db \in BOOLEAN /\ nap \in 0..SweepPeriod /\ captured \in 0..MaxPackets
  BY ConstantsAssumption DEF Init
<1>3. /\ conn \in [Conns -> Connection] /\ connmap \in [Buckets -> Seq(Conns)]
  BY <1>1 DEF Init
<1>4. /\ queue \in Seq(Conns) /\ row \in [bytes: Int, parsed: Nat]
      /\ outcome \in [Conns -> {"none", "inserted", "failed"}]
      /\ due \in [Conns -> Nat]
  BY DEF Init
<1>5. at \in Buckets /\ idx \in Nat \ {0}
  BY LeastBucket DEF Init
<1>6. TypeOK
  BY <1>2, <1>3, <1>4, <1>5 DEF Init, TypeOK, Using
<1> QED  BY <1>6 DEF TypeInv, PositionOK, DataSet, Init

USE DEF TypeInv

(* A captured packet fills the Listener's c with a typed turn. *)
LEMMA CaptureTypes ==
  ASSUME TypeInv, NEW p \in Packets, Capture(p)
  PROVE  TypeInv'
<1>1. p \in Track
  BY ConstantsAssumption
<1>2. c' \in Turn
  BY <1>1, ConstantsAssumption DEF Capture, Turn, Track
<1>3. c' # None
  BY <1>2, ConstantsAssumption
<1>4. captured' \in 0..MaxPackets
  BY ConstantsAssumption DEF Capture, TypeOK
<1>5. TypeOK'
  BY <1>2, <1>3, <1>4 DEF Capture, TypeOK, Using, heapVars, trackerVars,
     exporterVars
<1>6. PositionOK'
  <2>1. UNCHANGED <<tpc, at, idx, connmap>>
    BY DEF Capture, heapVars, trackerVars
  <2>2. PositionOK
    OBVIOUS
  <2> QED  BY <2>1, <2>2 DEF PositionOK
<1>7. DataSet'
  <2>1. lpc' # "parse"
    BY DEF Capture
  <2> QED  BY <2>1 DEF DataSet
<1> QED  BY <1>5, <1>6, <1>7

(* A pointer that lookup() returns is an address of a connection. *)
LEMMA LookupTypes ==
  ASSUME TypeInv, Lookup
  PROVE  TypeInv'
<1>1. c \in Turn /\ Bucket(c.key) \in Buckets
  <2>1. c \in Turn
    BY DEF TypeOK, Lookup
  <2>2. c.key \in Key
    BY <2>1 DEF Turn
  <2> QED  BY <2>1, <2>2, KeyBucket
<1>2. \A i \in Matches(Bucket(c.key)) : connmap[Bucket(c.key)][i] \in Conns
  BY <1>1 DEF TypeOK, Matches
<1>3. cnew' \in Conns \cup {None} /\ lateHit' \in BOOLEAN
  BY <1>1, <1>2 DEF Lookup, TypeOK, Connection
<1>4. Using' => cnew' # None
  BY <1>1, <1>2, ConstantsAssumption DEF Lookup, Using
<1>5. TypeOK'
  BY <1>3, <1>4 DEF Lookup, TypeOK, heapVars, trackerVars, exporterVars
<1>6. PositionOK' /\ DataSet'
  BY DEF Lookup, PositionOK, DataSet, heapVars, trackerVars
<1> QED  BY <1>5, <1>6

(* add() puts a typed connection into the map. *)
LEMMA AddTypes ==
  ASSUME TypeInv, NEW a \in Conns, Add(a)
  PROVE  TypeInv'
<1>1. c \in Turn /\ Bucket(c.key) \in Buckets
  BY DEF TypeOK, Add, Turn, Key, Bucket, Buckets
<1>2. conn' \in [Conns -> Connection]
  BY <1>1 DEF Add, TypeOK, Cleared, Connection, Turn
<1>3. connmap' \in [Buckets -> Seq(Conns)]
  BY <1>1 DEF Add, TypeOK
<1> QED
  BY <1>2, <1>3, ConstantsAssumption DEF Add, TypeOK, PositionOK, DataSet,
     Using, MutexFree, trackerVars

(* A write through cnew that keeps the type of the Connection it goes to. *)
LEMMA WriteTypes ==
  ASSUME TypeOK, NEW x \in Connection, Using,
         conn' = IF cnew \in live THEN [conn EXCEPT ![cnew] = x] ELSE conn
  PROVE  conn' \in [Conns -> Connection]
BY DEF TypeOK, Using

(* The Listener's writes leave the rest of the state alone. *)
LEMMA ListenerWriteTypes ==
  ASSUME TypeInv, MergeClose \/ MergeTs \/ CountBytes \/ SetData \/ Parse
  PROVE  TypeInv'
<1>1. /\ Using /\ c \in Turn /\ cnew \in Conns
      /\ conn[cnew] \in Connection
  BY DEF TypeOK, Using, MergeClose, MergeTs, CountBytes, SetData, Parse
<1>2. /\ conn' \in [Conns -> Connection]
      /\ DataSet'
  <2>1. CASE MergeClose
    <3>1. [conn[cnew] EXCEPT !.close_wait = MergedClose(@, c.close_wait)]
            \in Connection
      BY <1>1 DEF Connection, Turn, MergedClose
    <3> QED  BY <1>1, <2>1, <3>1, WriteTypes DEF MergeClose, Write, DataSet
  <2>2. CASE MergeTs
    <3>1. [conn[cnew] EXCEPT !.age = c.age] \in Connection
      BY <1>1 DEF Connection, Turn
    <3> QED  BY <1>1, <2>2, <3>1, WriteTypes DEF MergeTs, Write, DataSet
  <2>3. CASE CountBytes
    <3>1. [conn[cnew] EXCEPT !.bytes = @ + c.len] \in Connection
      BY <1>1 DEF Connection, Turn
    <3> QED  BY <1>1, <2>3, <3>1, WriteTypes DEF CountBytes, Write, DataSet
  <2>4. CASE SetData
    <3> DEFINE d == IF conn[cnew].data = None
                    THEN [kind |-> c.kind, parsed |-> 0] ELSE conn[cnew].data
               x == [conn[cnew] EXCEPT !.data = d]
    <3>1. d \in Data
      BY <1>1 DEF Connection, Turn, Data
    <3>2. d # None
      BY <3>1, ConstantsAssumption
    <3>3. x \in Connection /\ x.data # None
      BY <1>1, <3>1, <3>2 DEF Connection
    <3>4. conn' = IF cnew \in live THEN [conn EXCEPT ![cnew] = x] ELSE conn
      BY <2>4 DEF SetData, Write
    <3>5. DataSet'
      BY <1>1, <2>4, <3>3, <3>4 DEF SetData, DataSet, TypeOK
    <3> HIDE DEF d, x
    <3> QED  BY <1>1, <3>3, <3>4, <3>5, WriteTypes
  <2>5. CASE Parse
    <3>1. CASE cnew \in live
      <4>1. conn[cnew].data \in Data
        BY <1>1, <2>5, <3>1 DEF DataSet, Connection, Parse
      <4>2. [conn[cnew] EXCEPT !.data.parsed = @ + 1] \in Connection
        BY <1>1, <4>1 DEF Connection, Data
      <4> QED  BY <1>1, <2>5, <4>2, WriteTypes DEF Parse, Write, DataSet
    <3>2. CASE cnew \notin live
      BY <2>5, <3>2 DEF Parse, Write, DataSet, TypeOK
    <3> QED  BY <3>1, <3>2
  <2> QED  BY <2>1, <2>2, <2>3, <2>4, <2>5
<1>3. /\ TypeOK'
      /\ PositionOK'
  BY <1>1, <1>2 DEF TypeOK, PositionOK, Using, MergeClose, MergeTs,
     CountBytes, SetData, Parse, trackerVars, exporterVars
<1> QED  BY <1>2, <1>3

(* The ways out of the loop leave the state typed. *)
LEMMA LoopEndTypes ==
  ASSUME TypeInv,
         StaleCall \/ ParseFails \/ ParseHangs \/ HungStale \/ PackRaces
  PROVE  TypeInv'
BY DEF TypeOK, PositionOK, DataSet, Using, StaleCall, ParseFails,
   ParseHangs, HungStale, PackRaces, heapVars, listenerVars, trackerVars,
   exporterVars

(* The steps of a sweep that leave the connections as they are. *)
LEMMA SweepTypes ==
  ASSUME TypeInv,
         SweepStart \/ VisitSkip \/ VisitExpired \/ NextBucket \/ SweepEnd
  PROVE  TypeInv'
<1>1. /\ at' \in Buckets /\ idx' \in Nat \ {0}
      /\ nap' \in 0..SweepPeriod
      /\ tpc' \in {"sleep", "visit", "mark", "enqueue"}
  BY ConstantsAssumption, LeastBucket DEF TypeOK, SweepStart, VisitSkip,
     Advance, VisitExpired, NextBucket, SweepEnd
<1>2. PositionOK'
  BY DEF TypeOK, PositionOK, SweepStart, VisitSkip, VisitExpired, NextBucket,
     SweepEnd, AtEnd, heapVars
<1>3. /\ UNCHANGED <<heapVars, queue, listenerVars, exporterVars, db, due>>
  BY DEF SweepStart, VisitSkip, VisitExpired, NextBucket, SweepEnd
<1>4. TypeOK' /\ DataSet'
  BY <1>1, <1>3 DEF TypeOK, DataSet, Using, heapVars, listenerVars,
     exporterVars
<1> QED  BY <1>2, <1>4

(* The connection the tracker is at. *)
LEMMA JType ==
  ASSUME TypeInv, (tpc = "visit" /\ ~AtEnd) \/ tpc \in {"mark", "enqueue"}
  PROVE  J \in Conns /\ idx \in 1..Len(connmap[at])
BY DEF TypeOK, PositionOK, AtEnd, J

(* erase(j++) keeps the lists typed. *)
LEMMA VisitEraseTypes ==
  ASSUME TypeInv, VisitErase
  PROVE  TypeInv'
<1>1. J \in Conns /\ idx \in 1..Len(connmap[at])
  BY JType DEF VisitErase
<1>2. RemoveAt(connmap[at], idx) \in Seq(Conns)
  BY <1>1, RemoveAtFacts DEF TypeOK
<1>3. Cleared \in Connection
  BY ConstantsAssumption DEF Cleared, Connection, ZeroKey, Key
<1>4. /\ conn' \in [Conns -> Connection]
      /\ connmap' \in [Buckets -> Seq(Conns)]
      /\ live' \subseteq Conns
  BY <1>1, <1>2, <1>3 DEF TypeOK, VisitErase
<1>5. TypeOK' /\ PositionOK' /\ DataSet'
  BY <1>1, <1>4 DEF TypeOK, PositionOK, DataSet, Using, VisitErase,
     listenerVars, trackerVars, exporterVars
<1> QED  BY <1>5

(* Marking keeps the connection typed and its place valid. *)
LEMMA MarkTypes ==
  ASSUME TypeInv, Mark
  PROVE  TypeInv'
<1>1. J \in Conns
  BY JType DEF Mark
<1>2. conn[J] \in Connection /\ Marked(conn[J]) \in Connection
  BY <1>1 DEF TypeOK, Marked, Connection
<1>3. conn' \in [Conns -> Connection] /\ due' \in [Conns -> Nat]
  BY <1>1, <1>2 DEF TypeOK, Mark, Connection
<1>4. (cnew \in live => conn'[cnew].data = conn[cnew].data)
  BY <1>1 DEF TypeOK, Mark, Marked, Connection
<1>5. TypeOK' /\ PositionOK' /\ DataSet'
  BY <1>3, <1>4 DEF TypeOK, PositionOK, DataSet, Using, Mark, listenerVars,
     exporterVars
<1> QED  BY <1>5

(* Queueing moves the tracker to a valid position. *)
LEMMA EnqueueTypes ==
  ASSUME TypeInv, Enqueue
  PROVE  TypeInv'
<1>1. J \in Conns
  BY JType DEF Enqueue
<1>2. queue' \in Seq(Conns) /\ idx' \in Nat \ {0}
  BY <1>1 DEF TypeOK, Enqueue, Advance
<1>3. TypeOK' /\ PositionOK' /\ DataSet'
  BY <1>2 DEF TypeOK, PositionOK, DataSet, Using, Enqueue, heapVars,
     listenerVars, exporterVars
<1> QED  BY <1>3

(* The conversion to an int yields an integer, and the same number where an int
   holds it. *)
LEMMA ToIntFacts ==
  ASSUME NEW n \in Nat
  PROVE  ToInt(n) \in Int /\ (n < IntLimit => ToInt(n) = n)
<1> DEFINE w == 2 * IntLimit
<1>1. w \in Nat \ {0} /\ IntLimit \in Nat /\ w = 2 * IntLimit
  BY ConstantsAssumption
<1> HIDE DEF w
<1>2. n % w \in 0..(w - 1)
  BY <1>1
<1>3. n < w => n % w = n
  BY <1>1
<1>4. ToInt(n) = IF n % w < IntLimit THEN n % w ELSE (n % w) - w
  BY DEF ToInt, w
<1>5. n < IntLimit => n < w
  BY <1>1
<1> QED  BY <1>1, <1>2, <1>3, <1>4, <1>5

(* The exporter's steps, failed queries included, keep the types. *)
LEMMA ExporterTypes ==
  ASSUME TypeInv, ExporterStep
  PROVE  TypeInv'
<1>1. /\ UNCHANGED <<live, connmap, listenerVars, trackerVars, db, due>>
  BY DEF ExporterStep, Dequeue, Bind, Pack, Execute, QueryFails, Flag, heapVars
<1>2. CASE Dequeue
  <2>1. Head(queue) \in Conns /\ Tail(queue) \in Seq(Conns)
    BY <1>2 DEF Dequeue, TypeOK
  <2>2. Head(queue) # None
    BY <2>1, ConstantsAssumption
  <2> QED
    BY <1>1, <1>2, <2>1, <2>2 DEF Dequeue, TypeOK, PositionOK, DataSet, Using,
       heapVars, listenerVars, trackerVars
<1>3. CASE Bind \/ Pack \/ Execute \/ QueryFails
  <2>1. s \in Conns /\ conn[s] \in Connection
    BY <1>3 DEF TypeOK, Bind, Pack, Execute, QueryFails
  <2>2. conn[s].bytes \in Nat
        /\ (conn[s].data = None \/ conn[s].data.parsed \in Nat)
    BY <2>1 DEF Connection, Data
  <2>3. row' \in [bytes: Int, parsed: Nat]
    BY <1>3, <2>2, ToIntFacts DEF TypeOK, Bind, Pack, Execute, QueryFails
  <2>4. /\ outcome' \in [Conns -> {"none", "inserted", "failed"}]
        /\ xpc' \in {"poll", "bind", "pack", "execute", "flag"}
        /\ UNCHANGED <<s, conn, queue>>
    BY <1>3 DEF TypeOK, Bind, Pack, Execute, QueryFails, heapVars
  <2> QED
    BY <1>1, <2>1, <2>3, <2>4, ConstantsAssumption DEF TypeOK, PositionOK,
       DataSet, Using, listenerVars, trackerVars
<1>4. CASE Flag
  <2>1. s \in Conns /\ conn[s] \in Connection
    BY <1>4 DEF TypeOK, Flag
  <2>2. SetExported(conn[s]) \in Connection
        /\ SetExported(conn[s]).data = conn[s].data
    BY <2>1 DEF SetExported, Connection
  <2>3. conn' \in [Conns -> Connection] /\ DataSet'
    BY <1>1, <1>4, <2>1, <2>2 DEF TypeOK, Flag, DataSet, listenerVars
  <2> QED
    BY <1>1, <1>4, <2>3 DEF Flag, TypeOK, PositionOK, Using, listenerVars,
       trackerVars
<1> QED  BY <1>2, <1>3, <1>4 DEF ExporterStep

(* The clock keeps ages and the sleep within their bounds. *)
LEMMA TickTypes ==
  ASSUME TypeInv, Tick
  PROVE  TypeInv'
<1>1. \A n \in 0..MaxAge : Older(n) \in 0..MaxAge
  BY ConstantsAssumption DEF Older
<1>2. \A x \in Connection :
         /\ [x EXCEPT !.age = Older(@)] \in Connection
         /\ [x EXCEPT !.age = Older(@)].data = x.data
  BY <1>1 DEF Connection
<1>3. conn' \in [Conns -> Connection] /\ DataSet'
  BY <1>2 DEF TypeOK, Tick, DataSet
<1>4. \A x \in Turn : [x EXCEPT !.age = Older(@)] \in Turn
  BY <1>1 DEF Turn
<1>5. c' \in {None} \cup Turn /\ (c # None => c' # None)
  BY <1>4, ConstantsAssumption DEF TypeOK, Tick
<1>6. nap' \in 0..SweepPeriod
  BY ConstantsAssumption DEF TypeOK, Tick
<1>7. TypeOK' /\ PositionOK'
  BY <1>3, <1>5, <1>6 DEF TypeOK, PositionOK, Using, Tick, exporterVars
<1> QED  BY <1>3, <1>7

(* Every step keeps the types. *)
LEMMA StepTypes == TypeInv /\ [Next]_vars => TypeInv'
<1> SUFFICES ASSUME TypeInv, [Next]_vars PROVE TypeInv'
  OBVIOUS
<1>1. CASE \E p \in Packets : Capture(p)
  BY <1>1, CaptureTypes
<1>2. CASE ListenerStep \/ HungStale
  BY <1>2, LookupTypes, AddTypes, ListenerWriteTypes, LoopEndTypes
     DEF ListenerStep
<1>3. CASE TrackerStep
  BY <1>3, SweepTypes, VisitEraseTypes, MarkTypes, EnqueueTypes DEF TrackerStep
<1>4. CASE ExporterStep
  BY <1>4, ExporterTypes
<1>5. CASE Tick
  BY <1>5, TickTypes
<1>6. CASE UNCHANGED vars
  BY <1>6 DEF vars, heapVars, listenerVars, trackerVars, exporterVars, TypeOK,
     PositionOK, DataSet, Using
<1> QED  BY <1>1, <1>2, <1>3, <1>4, <1>5, <1>6 DEF Next

(* Every variable keeps its type, the tracker points into a list while it hands
   a connection over, and parse() is called on a conn_data that is set. *)
THEOREM Types == Spec => []TypeInv
  BY InitTypes, StepTypes, PTL DEF Spec

(* The same, of the invariant the runs check. *)
COROLLARY TypeCorrect == Spec => []TypeOK
  BY Types, PTL

HIDE DEF TypeInv

----------------------------------------------------------------------------
(* What the lists, the rows and the counters keep.                          *)

(* The map and the heap agree: the lists hold live connections only, each one
   once and in the bucket of its key, and every live connection is in one. *)
MapOK ==
  /\ \A l \in Buckets : \A i \in 1..Len(connmap[l]) :
       /\ connmap[l][i] \in live
       /\ Bucket(conn[connmap[l][i]].key) = l
       /\ \A j \in 1..Len(connmap[l]) : connmap[l][i] = connmap[l][j] => i = j
  /\ \A a \in live :
       \E i \in 1..Len(connmap[Bucket(conn[a].key)]) :
          connmap[Bucket(conn[a].key)][i] = a

(* The tracker marks a connection that has not been sent. *)
MarkUnsent == tpc = "mark" => ~conn[J].sent

(* Where a connection's row stands: none before it is sent, none as long as it
   waits, some once the exporter flags it. *)
OutcomeOK ==
  /\ \A a \in live : /\ ~conn[a].sent \/ Queued(a) \/ BeingSent(a)
                         => outcome[a] = "none"
                     /\ conn[a].exported => outcome[a] # "none"
  /\ xpc \in {"bind", "pack", "execute"} => outcome[s] = "none"
  /\ xpc = "flag" => outcome[s] # "none"

(* The counter of a sent connection is at least what was due when it was
   marked. *)
DueOK ==
  /\ \A a \in live : conn[a].sent => conn[a].bytes >= due[a]
  /\ RowCoversDue

(* Between lookup() and add() no connection for the Listener's packet turns
   up. *)
StillMissing == lpc = "add" => \A a \in live : ~Equal(conn[a], c.key)

(* The sweep in progress will not come to a any more. *)
Passed(a) ==
  \/ Bucket(conn[a].key) < at
  \/ \E i \in 1..Len(connmap[at]) :
       /\ connmap[at][i] = a
       /\ i < idx \/ (i = idx /\ tpc = "enqueue")

(* A connection that was not sent when it was looked up is there for
   SweepPeriod seconds: the sweep that sends it does not come to it again, and
   after that sweep the tracker's nap outlasts the packet. *)
FreshOK ==
  Using /\ ~lateHit /\ c.age < SweepPeriod =>
    /\ cnew \in live
    /\ conn[cnew].sent =>
         IF tpc = "sleep" THEN SweepPeriod - nap <= c.age ELSE Passed(cnew)

----------------------------------------------------------------------------
(* What a step leaves alone.                                               *)

ListenerWrite == MergeClose \/ MergeTs \/ CountBytes \/ SetData \/ Parse

(* The steps that change no Connection and not what is allocated. *)
Quiet ==
  \/ \E p \in Packets : Capture(p)
  \/ Lookup \/ StaleCall \/ ParseFails \/ ParseHangs \/ HungStale \/ PackRaces
  \/ SweepStart \/ VisitSkip \/ VisitExpired \/ Enqueue \/ NextBucket
  \/ SweepEnd
  \/ Dequeue \/ Bind \/ Pack \/ Execute \/ QueryFails

(* Of a connection, all but what the Listener and the clock write; and its
   counter does not go down. *)
Kept(a) ==
  /\ conn'[a].key = conn[a].key
  /\ conn'[a].sent = conn[a].sent
  /\ conn'[a].exported = conn[a].exported
  /\ conn'[a].bytes >= conn[a].bytes

(* A step is of one of these kinds. *)
LEMMA NextCases ==
  ASSUME [Next]_vars
  PROVE  \/ ListenerWrite \/ Quiet \/ Tick \/ UNCHANGED vars
         \/ \E a \in Conns : Add(a)
         \/ VisitErase \/ Mark \/ Flag
BY DEF Next, ListenerStep, TrackerStep, ExporterStep, ListenerWrite, Quiet

(* One field of the connection at cnew is replaced. *)
LEMMA WriteKeeps ==
  ASSUME TypeInv, ListenerWrite
  PROVE  \A a \in Conns : Kept(a)
<1> SUFFICES ASSUME NEW a \in Conns PROVE Kept(a)
  OBVIOUS
<1>1. /\ c \in Turn /\ cnew \in Conns
      /\ conn \in [Conns -> Connection]
      /\ conn[cnew] \in Connection /\ conn[a] \in Connection
  BY DEF TypeInv, TypeOK, Using, ListenerWrite, MergeClose, MergeTs,
     CountBytes, SetData, Parse
<1>2. c.len \in Nat /\ conn[a].bytes \in Nat
  BY <1>1 DEF Turn, Connection
<1>3. CASE MergeClose
  BY <1>1, <1>2, <1>3 DEF MergeClose, Write, Kept, Connection
<1>4. CASE MergeTs
  BY <1>1, <1>2, <1>4 DEF MergeTs, Write, Kept, Connection
<1>5. CASE CountBytes
  BY <1>1, <1>2, <1>5 DEF CountBytes, Write, Kept, Connection
<1>6. CASE SetData
  BY <1>1, <1>2, <1>6 DEF SetData, Write, Kept, Connection
<1>7. CASE Parse
  BY <1>1, <1>2, <1>7 DEF Parse, Write, Kept, Connection
<1> QED  BY <1>3, <1>4, <1>5, <1>6, <1>7 DEF ListenerWrite

(* These steps leave every connection its key, flags and bytes. *)
LEMMA QuietKeeps ==
  ASSUME TypeInv, Quiet \/ Tick \/ UNCHANGED vars
  PROVE  \A a \in Conns : Kept(a)
<1> SUFFICES ASSUME NEW a \in Conns PROVE Kept(a)
  OBVIOUS
<1>1. conn[a] \in Connection /\ conn[a].bytes \in Nat
  BY DEF TypeInv, TypeOK, Connection
<1>2. CASE Quiet \/ UNCHANGED vars
  <2>1. conn' = conn
    BY <1>2 DEF Quiet, vars, heapVars, Capture, Lookup, StaleCall,
       ParseFails, ParseHangs, HungStale, PackRaces, SweepStart,
       VisitSkip, VisitExpired, Enqueue, NextBucket, SweepEnd, Dequeue, Bind,
       Pack, Execute, QueryFails
  <2> QED  BY <1>1, <2>1 DEF Kept
<1>3. CASE Tick
  BY <1>1, <1>3 DEF Tick, Kept, Connection
<1> QED  BY <1>2, <1>3

(* Only add() and erase() change what is allocated and listed. *)
LEMMA HeapKept ==
  ASSUME \/ ListenerWrite \/ Quiet \/ Tick \/ UNCHANGED vars
         \/ Mark \/ Flag
  PROVE  UNCHANGED <<live, connmap>>
BY DEF ListenerWrite, MergeClose, MergeTs, CountBytes, SetData, Parse, Quiet,
   Tick, vars, heapVars, Capture, Lookup, StaleCall, ParseFails,
   ParseHangs, HungStale, PackRaces, SweepStart, VisitSkip,
   VisitExpired, Enqueue, NextBucket, SweepEnd, Dequeue, Bind, Pack, Execute,
   QueryFails, Mark, Flag

(* Mark and Flag change one connection each. *)
LEMMA MarkFlagKeep ==
  ASSUME TypeInv, Mark \/ Flag
  PROVE  \A a \in Conns :
           /\ conn'[a].key = conn[a].key
           /\ conn'[a].bytes = conn[a].bytes
           /\ conn'[a].sent = (conn[a].sent \/ (Mark /\ a = J))
           /\ conn'[a].exported =
                 IF Mark /\ a = J THEN FALSE
                 ELSE conn[a].exported \/ (Flag /\ a = s)
<1> SUFFICES ASSUME NEW a \in Conns
             PROVE  /\ conn'[a].key = conn[a].key
                    /\ conn'[a].bytes = conn[a].bytes
                    /\ conn'[a].sent = (conn[a].sent \/ (Mark /\ a = J))
                    /\ conn'[a].exported =
                          IF Mark /\ a = J THEN FALSE
                          ELSE conn[a].exported \/ (Flag /\ a = s)
  OBVIOUS
<1>1. conn \in [Conns -> Connection] /\ conn[a] \in Connection
  BY DEF TypeInv, TypeOK
<1>2. conn[a].sent \in BOOLEAN /\ conn[a].exported \in BOOLEAN
  BY <1>1 DEF Connection
<1>3. ~(Mark /\ Flag)
  BY DEF Mark, Flag, exporterVars
<1>4. CASE Mark
  BY <1>1, <1>2, <1>3, <1>4 DEF Mark, Marked, Connection
<1>5. CASE Flag
  BY <1>1, <1>2, <1>3, <1>5 DEF Flag, SetExported, Connection
<1> QED  BY <1>4, <1>5

----------------------------------------------------------------------------
(* The map.                                                                *)

(* add() keeps the map and the heap in agreement. *)
LEMMA AddMap ==
  ASSUME TypeInv, MapOK, NEW a \in Conns, Add(a)
  PROVE  MapOK'
<1> DEFINE l == Bucket(c.key)
<1>1. c \in Turn /\ l \in Buckets
  BY KeyBucket DEF TypeInv, TypeOK, Add, Turn
<1>2. /\ conn'[a].key = c.key
      /\ \A b \in Conns \ {a} : conn'[b] = conn[b]
  BY DEF Add, TypeInv, TypeOK, Cleared
<1>3. /\ connmap'[l] = Append(connmap[l], a)
      /\ \A m \in Buckets \ {l} : connmap'[m] = connmap[m]
      /\ \A m \in Buckets : connmap[m] \in Seq(Conns)
  BY <1>1 DEF Add, TypeInv, TypeOK
<1>4. /\ Len(connmap'[l]) = Len(connmap[l]) + 1
      /\ connmap'[l][Len(connmap[l]) + 1] = a
      /\ \A i \in 1..Len(connmap[l]) : connmap'[l][i] = connmap[l][i]
      /\ Len(connmap[l]) \in Nat
  BY <1>1, <1>3
<1>5. live' = live \cup {a} /\ a \notin live /\ live \subseteq Conns
  BY DEF Add, TypeInv, TypeOK
<1>6. ASSUME NEW m \in Buckets, NEW i \in 1..Len(connmap'[m])
      PROVE  /\ connmap'[m][i] \in live'
             /\ Bucket(conn'[connmap'[m][i]].key) = m
             /\ \A j \in 1..Len(connmap'[m]) :
                  connmap'[m][i] = connmap'[m][j] => i = j
  <2>1. CASE m # l
    <3>1. /\ connmap[m][i] \in live /\ Bucket(conn[connmap[m][i]].key) = m
          /\ connmap[m] = connmap'[m]
          /\ \A j \in 1..Len(connmap[m]) :
               connmap[m][i] = connmap[m][j] => i = j
      BY <1>3, <1>6, <2>1 DEF MapOK
    <3>2. connmap[m][i] # a
      BY <1>5, <3>1
    <3> QED  BY <1>2, <1>5, <3>1, <3>2
  <2>2. CASE m = l /\ i \in 1..Len(connmap[l])
    <3> HIDE DEF l
    <3>1. /\ connmap'[l][i] = connmap[l][i] /\ connmap[l][i] \in live
          /\ Bucket(conn[connmap[l][i]].key) = l
          /\ \A j \in 1..Len(connmap[l]) :
               connmap[l][i] = connmap[l][j] => i = j
      BY <1>1, <1>4, <2>2 DEF MapOK
    <3>2. connmap[l][i] # a
      BY <1>5, <3>1
    <3>3. ASSUME NEW j \in 1..Len(connmap'[l]), connmap'[l][i] = connmap'[l][j]
          PROVE  i = j
      <4>1. j \in 1..Len(connmap[l]) \/ j = Len(connmap[l]) + 1
        BY <1>4
      <4> QED  BY <1>4, <3>1, <3>2, <3>3, <4>1
    <3> QED  BY <1>2, <1>5, <2>2, <3>1, <3>2, <3>3
  <2>3. CASE m = l /\ i = Len(connmap[l]) + 1
    <3>1. \A j \in 1..Len(connmap[l]) : connmap'[l][j] # a
      BY <1>1, <1>4, <1>5 DEF MapOK
    <3> QED  BY <1>2, <1>4, <1>5, <2>3, <3>1
  <2> QED  BY <1>4, <1>6, <2>1, <2>2, <2>3
<1>7. ASSUME NEW b \in live'
      PROVE  \E i \in 1..Len(connmap'[Bucket(conn'[b].key)]) :
                connmap'[Bucket(conn'[b].key)][i] = b
  <2>1. CASE b = a
    BY <1>2, <1>4, <2>1
  <2>2. CASE b # a
    <3> DEFINE m == Bucket(conn[b].key)
    <3>1. b \in live /\ b \in Conns /\ conn'[b] = conn[b]
      BY <1>2, <1>5, <2>2
    <3>2. m \in Buckets
      BY <3>1, KeyBucket DEF TypeInv, TypeOK, Connection
    <3>3. PICK i \in 1..Len(connmap[m]) : connmap[m][i] = b
      BY <3>1 DEF MapOK
    <3>4. i \in 1..Len(connmap'[m]) /\ connmap'[m][i] = b
      BY <1>3, <1>4, <3>2, <3>3
    <3> QED  BY <3>1, <3>4
  <2> QED  BY <2>1, <2>2
<1> QED  BY <1>6, <1>7 DEF MapOK

(* The connection the tracker is at is live and in the tracker's bucket. *)
LEMMA JLive ==
  ASSUME TypeInv, MapOK,
         (tpc = "visit" /\ ~AtEnd) \/ tpc \in {"mark", "enqueue"}
  PROVE  /\ J \in live /\ J \in Conns /\ Bucket(conn[J].key) = at
         /\ at \in Buckets /\ idx \in 1..Len(connmap[at])
         /\ \A i \in 1..Len(connmap[at]) : connmap[at][i] = J => i = idx
BY JType DEF TypeInv, TypeOK, MapOK, J

(* erase(j++) keeps the map and the heap in agreement. *)
LEMMA VisitEraseMap ==
  ASSUME TypeInv, MapOK, VisitErase
  PROVE  MapOK'
<1> DEFINE q == connmap[at]
<1>1. /\ J \in live /\ Bucket(conn[J].key) = at
      /\ at \in Buckets /\ idx \in 1..Len(q) /\ J = q[idx]
      /\ \A i \in 1..Len(q) : q[i] = J => i = idx
  BY JLive DEF VisitErase, J
<1>2. /\ connmap'[at] = RemoveAt(q, idx)
      /\ \A m \in Buckets \ {at} : connmap'[m] = connmap[m]
      /\ q \in Seq(Conns)
  BY <1>1 DEF VisitErase, TypeInv, TypeOK
<1> HIDE DEF q
<1>3. /\ Len(connmap'[at]) = Len(q) - 1
      /\ \A i \in 1..(Len(q) - 1) :
           connmap'[at][i] = IF i < idx THEN q[i] ELSE q[i + 1]
      /\ Len(q) \in Nat
  <2>1. /\ Len(RemoveAt(q, idx)) = Len(q) - 1
        /\ \A i \in 1..(Len(q) - 1) :
             RemoveAt(q, idx)[i] = IF i < idx THEN q[i] ELSE q[i + 1]
    BY <1>1, <1>2, RemoveAtFacts, Zenon
  <2>2. Len(q) \in Nat
    BY <1>2
  <2> QED  BY <1>2, <2>1, <2>2
<1>4. /\ live' = live \ {J} /\ live \subseteq Conns
      /\ \A b \in Conns \ {J} : conn'[b] = conn[b]
  BY DEF VisitErase, TypeInv, TypeOK
<1>5. ASSUME NEW m \in Buckets, NEW i \in 1..Len(connmap'[m])
      PROVE  /\ connmap'[m][i] \in live'
             /\ Bucket(conn'[connmap'[m][i]].key) = m
             /\ \A j \in 1..Len(connmap'[m]) :
                  connmap'[m][i] = connmap'[m][j] => i = j
  <2>1. CASE m # at
    <3>1. /\ connmap[m][i] \in live /\ Bucket(conn[connmap[m][i]].key) = m
          /\ connmap[m] = connmap'[m]
          /\ \A j \in 1..Len(connmap[m]) :
               connmap[m][i] = connmap[m][j] => i = j
      BY <1>2, <1>5, <2>1 DEF MapOK
    <3>2. connmap[m][i] # J
      BY <1>1, <2>1, <3>1
    <3> QED  BY <1>4, <3>1, <3>2
  <2>2. CASE m = at
    <3> DEFINE o(n) == IF n < idx THEN n ELSE n + 1
    <3>1. \A n \in 1..(Len(q) - 1) :
            /\ o(n) \in 1..Len(q) /\ o(n) # idx /\ connmap'[at][n] = q[o(n)]
      <4> SUFFICES ASSUME NEW n \in 1..(Len(q) - 1)
                   PROVE  /\ o(n) \in 1..Len(q) /\ o(n) # idx
                          /\ connmap'[at][n] = q[o(n)]
        OBVIOUS
      <4>1. idx \in Nat /\ Len(q) \in Nat
        BY <1>1, <1>3
      <4>2. o(n) \in 1..Len(q) /\ o(n) # idx
        BY <4>1
      <4>3. connmap'[at][n] = q[o(n)]
        BY <1>3
      <4> QED  BY <4>2, <4>3
    <3>2. i \in 1..(Len(q) - 1)
      BY <1>3, <1>5, <2>2
    <3>3. /\ q[o(i)] \in live /\ Bucket(conn[q[o(i)]].key) = at
          /\ q[o(i)] # J
      BY <1>1, <3>1, <3>2 DEF MapOK, q
    <3>4. ASSUME NEW j \in 1..(Len(q) - 1), q[o(i)] = q[o(j)]
          PROVE  i = j
      <4>1. o(i) = o(j)
        BY <1>1, <3>1, <3>2, <3>4 DEF MapOK, q
      <4> QED  BY <1>1, <3>2, <4>1
    <3> HIDE DEF o
    <3> QED  BY <1>3, <1>4, <2>2, <3>1, <3>2, <3>3, <3>4
  <2> QED  BY <2>1, <2>2
<1>6. ASSUME NEW b \in live'
      PROVE  \E i \in 1..Len(connmap'[Bucket(conn'[b].key)]) :
                connmap'[Bucket(conn'[b].key)][i] = b
  <2> DEFINE m == Bucket(conn[b].key)
  <2>1. b \in live /\ b # J /\ conn'[b] = conn[b]
    BY <1>4
  <2>2. m \in Buckets
    BY <1>4, <2>1, KeyBucket DEF TypeInv, TypeOK, Connection
  <2>3. PICK i \in 1..Len(connmap[m]) : connmap[m][i] = b
    BY <2>1 DEF MapOK
  <2>4. CASE m # at
    BY <1>2, <2>1, <2>2, <2>3, <2>4
  <2>5. CASE m = at
    <3>1. i \in 1..Len(q) /\ q[i] = b /\ i # idx
      BY <1>1, <2>1, <2>3, <2>5 DEF q
    <3>2. CASE i < idx
      <4>1. i \in 1..(Len(q) - 1)
        BY <1>1, <1>3, <3>1, <3>2
      <4>2. connmap'[at][i] = q[i]
        BY <1>3, <3>2, <4>1
      <4> QED  BY <1>3, <2>1, <2>5, <3>1, <4>1, <4>2
    <3>3. CASE i > idx
      <4>1. i - 1 \in 1..(Len(q) - 1) /\ ~(i - 1 < idx)
        BY <1>1, <1>3, <3>1, <3>3
      <4>2. connmap'[at][i - 1] = q[i]
        BY <1>3, <3>1, <4>1
      <4> QED  BY <1>3, <2>1, <2>5, <3>1, <4>1, <4>2
    <3> QED  BY <1>1, <3>1, <3>2, <3>3
  <2> QED  BY <2>4, <2>5
<1> QED  BY <1>5, <1>6 DEF MapOK

(* Every step keeps the map and the heap in agreement. *)
LEMMA StepMap == TypeInv /\ MapOK /\ [Next]_vars => MapOK'
<1> SUFFICES ASSUME TypeInv, MapOK, [Next]_vars PROVE MapOK'
  OBVIOUS
<1>1. CASE ListenerWrite \/ Quiet \/ Tick \/ UNCHANGED vars \/ Mark \/ Flag
  <2>1. UNCHANGED <<live, connmap>>
    BY <1>1, HeapKept
  <2>2. \A a \in Conns : conn'[a].key = conn[a].key
    BY <1>1, WriteKeeps, QuietKeeps, MarkFlagKeep DEF Kept
  <2>3. live \subseteq Conns
    BY DEF TypeInv, TypeOK
  <2> QED  BY <2>1, <2>2, <2>3 DEF MapOK
<1> QED  BY <1>1, AddMap, VisitEraseMap, NextCases

(* The lists of the map and the allocated connections agree at every step of
   every thread: nothing is lost in the map, and nothing freed stays in it. *)
THEOREM MapConsistent == Spec => []MapOK
<1>1. Init => MapOK
  BY DEF Init, MapOK
<1> QED  BY <1>1, StepMap, Types, PTL DEF Spec

----------------------------------------------------------------------------
(* Custody.                                                                *)

CustodyInv == Custody /\ MarkUnsent

(* The steps that move no connection from one holder to another and find none
   to mark. *)
Bystander ==
  \/ ListenerWrite \/ Tick \/ UNCHANGED vars
  \/ \E p \in Packets : Capture(p)
  \/ Lookup \/ StaleCall \/ ParseFails \/ ParseHangs \/ HungStale \/ PackRaces
  \/ Bind \/ Pack \/ Execute \/ QueryFails
  \/ SweepStart \/ VisitSkip \/ NextBucket \/ SweepEnd

(* A bystander moves no connection from hand to hand. *)
LEMMA BystanderKeeps ==
  ASSUME TypeInv, Bystander
  PROVE  /\ \A a \in Conns : Kept(a)
         /\ \A a : /\ Held(a)' <=> Held(a)
                   /\ BeingSent(a)' <=> BeingSent(a)
         /\ tpc' = "mark" => tpc = "mark" /\ J' = J
         /\ UNCHANGED <<live, connmap, queue, due, db>>
<1>1. UNCHANGED <<live, connmap, queue, due, db>>
  BY DEF Bystander, ListenerWrite, MergeClose, MergeTs, CountBytes, SetData,
     Parse, Tick, vars, heapVars, Capture, Lookup, StaleCall, ParseFails,
     ParseHangs, HungStale, PackRaces, SweepStart,
     VisitSkip, NextBucket, SweepEnd, Bind, Pack, Execute, QueryFails
<1>2. \A a \in Conns : Kept(a)
  BY WriteKeeps, QuietKeeps DEF Bystander, Quiet
<1>3. s' = s /\ (xpc' = "poll" <=> xpc = "poll")
  BY DEF Bystander, ListenerWrite, MergeClose, MergeTs, CountBytes, SetData,
     Parse, Tick, vars, exporterVars, Capture, Lookup, StaleCall, ParseFails,
     ParseHangs, HungStale, PackRaces, SweepStart,
     VisitSkip, NextBucket, SweepEnd, Bind, Pack, Execute, QueryFails
<1>4. \/ UNCHANGED <<tpc, at, idx>>
      \/ tpc \in {"sleep", "visit"} /\ tpc' \in {"sleep", "visit"}
  BY DEF Bystander, ListenerWrite, MergeClose, MergeTs, CountBytes, SetData,
     Parse, Tick, vars, trackerVars, Capture, Lookup, StaleCall, ParseFails,
     ParseHangs, HungStale, PackRaces, SweepStart,
     VisitSkip, NextBucket, SweepEnd, Bind, Pack, Execute, QueryFails
<1> QED  BY <1>1, <1>2, <1>3, <1>4 DEF Held, BeingSent, J

(* A step is a bystander or one of the steps that hand a connection over. *)
LEMMA NextCases2 ==
  ASSUME [Next]_vars
  PROVE  \/ Bystander \/ VisitExpired \/ Enqueue \/ Dequeue
         \/ \E a \in Conns : Add(a)
         \/ VisitErase \/ Mark \/ Flag
BY NextCases DEF Quiet, Bystander

(* Every step keeps a handed-over connection in one place. *)
LEMMA StepCustody ==
  TypeInv /\ MapOK /\ CustodyInv /\ [Next]_vars => CustodyInv'
<1> SUFFICES ASSUME TypeInv, MapOK, CustodyInv, [Next]_vars
             PROVE  CustodyInv'
  OBVIOUS
<1> USE DEF CustodyInv
<1>0. /\ live \subseteq Conns /\ queue \in Seq(Conns)
      /\ conn \in [Conns -> Connection]
  BY DEF TypeInv, TypeOK
<1>1. CASE Bystander
  <2>1. /\ \A a \in Conns : Kept(a)
        /\ \A a : /\ Held(a)' <=> Held(a)
                  /\ BeingSent(a)' <=> BeingSent(a)
        /\ tpc' = "mark" => tpc = "mark" /\ J' = J
        /\ UNCHANGED <<live, connmap, queue>>
    BY <1>1, BystanderKeeps
  <2>2. \A a : Queued(a)' <=> Queued(a)
    BY <2>1 DEF Queued
  <2>3. Custody'
    BY <2>1, <2>2 DEF Custody, Kept
  <2>4. MarkUnsent'
    <3>1. CASE tpc' = "mark"
      <4>1. J \in Conns /\ J' = J /\ ~conn[J].sent
        BY <2>1, <3>1, JType DEF MarkUnsent
      <4> QED  BY <2>1, <4>1 DEF MarkUnsent, Kept
    <3> QED  BY <3>1 DEF MarkUnsent
  <2> QED  BY <2>3, <2>4
<1>2. CASE VisitExpired
  <2>1. /\ UNCHANGED <<live, conn, connmap, queue, xpc, s, at, idx>>
        /\ tpc = "visit" /\ tpc' = "mark" /\ ~conn[J].sent
    BY <1>2 DEF VisitExpired, Sendable, heapVars, exporterVars
  <2> QED
    BY <2>1 DEF Custody, MarkUnsent, Queued, Held, BeingSent, J
<1>3. CASE Enqueue
  <2>1. /\ UNCHANGED <<live, conn, connmap, xpc, s>>
        /\ tpc = "enqueue" /\ tpc' = "visit"
        /\ queue' = Append(queue, J)
    BY <1>3 DEF Enqueue, heapVars, exporterVars
  <2>2. J \in Conns /\ BeingSent(J)
    BY <2>1, JType DEF BeingSent
  <2>3. /\ \A i \in 1..Len(queue) : queue'[i] = queue[i] /\ queue[i] # J
        /\ Len(queue') = Len(queue) + 1 /\ queue'[Len(queue) + 1] = J
        /\ Len(queue) \in Nat
    BY <1>0, <2>1, <2>2 DEF Custody, Queued
  <2>4. \A a : Queued(a)' <=> Queued(a) \/ a = J
    BY <2>3 DEF Queued
  <2>5. \A a : ~BeingSent(a)' /\ (Held(a)' <=> Held(a))
    BY <2>1 DEF BeingSent, Held
  <2>6. \A i, j \in 1..Len(queue') : queue'[i] = queue'[j] => i = j
    BY <2>3 DEF Custody
  <2> QED  BY <2>1, <2>2, <2>4, <2>5, <2>6 DEF Custody, MarkUnsent
<1>4. CASE Dequeue
  <2>1. /\ UNCHANGED <<live, conn, connmap, tpc, at, idx>>
        /\ queue # <<>> /\ queue' = Tail(queue) /\ xpc = "poll"
        /\ xpc' # "poll" => s' = Head(queue)
    BY <1>4 DEF Dequeue, heapVars, trackerVars
  <2>2. /\ Len(queue') = Len(queue) - 1 /\ Len(queue) \in Nat \ {0}
        /\ \A i \in 1..Len(queue') : queue'[i] = queue[i + 1]
        /\ Head(queue) = queue[1]
    BY <1>0, <2>1
  <2>3. \A i, j \in 1..Len(queue') : queue'[i] = queue'[j] => i = j
    BY <2>2 DEF Custody
  <2>4. \A a : Queued(a)' => Queued(a) /\ a # Head(queue)
    BY <2>2 DEF Custody, Queued
  <2>5. \A a : Held(a)' => a = Head(queue) /\ Queued(a)
    BY <2>1, <2>2 DEF Held, Queued
  <2>6. \A a : BeingSent(a)' <=> BeingSent(a)
    BY <2>1 DEF BeingSent, J
  <2> QED
    BY <2>1, <2>3, <2>4, <2>5, <2>6 DEF Custody, MarkUnsent, J
<1>5. ASSUME NEW b \in Conns, Add(b)
      PROVE  CustodyInv'
  <2>1. /\ UNCHANGED <<queue, xpc, s, tpc, at, idx>> /\ tpc = "sleep"
        /\ live' = live \cup {b} /\ b \notin live
        /\ \A a \in Conns \ {b} : conn'[a] = conn[a]
    BY <1>0, <1>5 DEF Add, MutexFree, trackerVars
  <2>2. \A a : /\ Queued(a)' <=> Queued(a)
               /\ Held(a)' <=> Held(a)
               /\ ~BeingSent(a)'
    BY <2>1 DEF Queued, Held, BeingSent
  <2> QED  BY <1>0, <2>1, <2>2 DEF Custody, MarkUnsent
<1>6. CASE VisitErase
  <2>1. /\ UNCHANGED <<queue, xpc, s, tpc>> /\ tpc = "visit"
        /\ live' = live \ {J} /\ conn[J].exported
        /\ \A a \in Conns \ {J} : conn'[a] = conn[a]
    BY <1>0, <1>6 DEF VisitErase, Erasable, trackerVars, exporterVars
  <2>2. \A a : /\ Queued(a)' <=> Queued(a)
               /\ Held(a)' <=> Held(a)
               /\ ~BeingSent(a)'
    BY <2>1 DEF Queued, Held, BeingSent
  <2> QED  BY <1>0, <2>1, <2>2 DEF Custody, MarkUnsent
<1>7. CASE Mark
  <2>1. /\ UNCHANGED <<live, connmap, queue, xpc, s, at, idx>>
        /\ tpc = "mark" /\ tpc' = "enqueue"
    BY <1>7 DEF Mark, exporterVars
  <2>2. J \in live /\ ~conn[J].sent
    BY <2>1, JLive DEF MarkUnsent
  <2>3. \A a \in Conns :
           /\ conn'[a].sent = (conn[a].sent \/ a = J)
           /\ conn'[a].exported = IF a = J THEN FALSE
                                  ELSE conn[a].exported \/ (Flag /\ a = s)
    BY <1>7, MarkFlagKeep
  <2>4. ~Flag
    BY <2>1 DEF Flag, trackerVars
  <2>5. \A a : /\ Queued(a)' <=> Queued(a)
               /\ Held(a)' <=> Held(a)
               /\ BeingSent(a)' <=> a = J
    BY <2>1 DEF Queued, Held, BeingSent, J
  <2>6. ~BeingSent(J)
    BY <2>1 DEF BeingSent
  <2> QED
    BY <1>0, <2>1, <2>2, <2>3, <2>4, <2>5 DEF Custody, MarkUnsent, BeingSent
<1>8. CASE Flag
  <2>1. /\ UNCHANGED <<live, connmap, queue, tpc, at, idx>>
        /\ xpc = "flag" /\ xpc' = "poll"
    BY <1>8 DEF Flag, trackerVars
  <2>2. \A a \in Conns :
           /\ conn'[a].sent = (conn[a].sent \/ (Mark /\ a = J))
           /\ conn'[a].exported = IF Mark /\ a = J THEN FALSE
                                  ELSE conn[a].exported \/ (Flag /\ a = s)
    BY <1>8, MarkFlagKeep
  <2>3. ~Mark
    BY <1>8 DEF Mark, Flag, exporterVars
  <2>4. \A a : /\ Queued(a)' <=> Queued(a)
               /\ ~Held(a)'
               /\ BeingSent(a)' <=> BeingSent(a)
    BY <2>1 DEF Queued, Held, BeingSent, J
  <2>5. Held(s)
    BY <2>1 DEF Held
  <2>6. Custody'
    BY <1>0, <2>1, <2>2, <2>3, <2>4, <2>5 DEF Custody
  <2>7. MarkUnsent'
    BY <2>1, <2>2, <2>3, JType DEF MarkUnsent, J
  <2> QED  BY <2>6, <2>7
<1> QED
  BY <1>1, <1>2, <1>3, <1>4, <1>5, <1>6, <1>7, <1>8, NextCases2

(* What the tracker hands over is in one place at a time and stays allocated
   until the exporter has flagged it. *)
THEOREM CustodyHolds == Spec => [](Custody /\ MarkUnsent)
<1>1. Init => CustodyInv
  BY DEF Init, CustodyInv, Custody, MarkUnsent, Queued, Held, BeingSent
<1> QED
  BY <1>1, StepCustody, Types, MapConsistent, PTL DEF Spec, CustodyInv

----------------------------------------------------------------------------
(* No sent connection is forgotten.                                        *)

(* No step loses a sent connection while the database is there. *)
LEMMA StepNotForgotten ==
  /\ TypeInv /\ MapOK /\ CustodyInv /\ NotForgotten
  /\ [Next]_vars
  => NotForgotten'
<1> SUFFICES ASSUME TypeInv, MapOK, CustodyInv, NotForgotten, [Next]_vars, db'
             PROVE  \A a \in live' : conn'[a].sent /\ ~conn'[a].exported =>
                       Queued(a)' \/ Held(a)' \/ BeingSent(a)'
  BY DEF NotForgotten
<1>0. /\ live \subseteq Conns /\ queue \in Seq(Conns)
      /\ conn \in [Conns -> Connection]
  BY DEF TypeInv, TypeOK
<1>1. CASE Bystander
  <2>1. /\ \A a \in Conns : Kept(a)
        /\ \A a : /\ Held(a)' <=> Held(a)
                  /\ BeingSent(a)' <=> BeingSent(a)
        /\ UNCHANGED <<live, queue, db>>
    BY <1>1, BystanderKeeps
  <2>2. \A a : Queued(a)' <=> Queued(a)
    BY <2>1 DEF Queued
  <2> QED  BY <1>0, <2>1, <2>2 DEF NotForgotten, Kept
<1>2. CASE VisitExpired
  <2>1. /\ UNCHANGED <<live, conn, connmap, queue, xpc, s, db>>
        /\ tpc = "visit"
    BY <1>2 DEF VisitExpired, heapVars, exporterVars
  <2> QED  BY <2>1 DEF NotForgotten, Queued, Held, BeingSent
<1>3. CASE Enqueue
  <2>1. /\ UNCHANGED <<live, conn, connmap, xpc, s, db>>
        /\ tpc = "enqueue" /\ queue' = Append(queue, J)
    BY <1>3 DEF Enqueue, heapVars, exporterVars
  <2>2. J \in Conns
    BY <2>1, JType
  <2>3. /\ \A i \in 1..Len(queue) : queue'[i] = queue[i]
        /\ Len(queue') = Len(queue) + 1 /\ queue'[Len(queue) + 1] = J
        /\ Len(queue) \in Nat
    BY <1>0, <2>1, <2>2
  <2>4. \A a : /\ Queued(a) \/ BeingSent(a) => Queued(a)'
               /\ Held(a)' <=> Held(a)
    BY <2>1, <2>3 DEF Queued, Held, BeingSent
  <2> QED  BY <2>1, <2>4 DEF NotForgotten
<1>4. CASE Dequeue
  <2>1. /\ UNCHANGED <<live, conn, connmap, tpc, at, idx, db>>
        /\ queue # <<>> /\ queue' = Tail(queue) /\ xpc = "poll"
        /\ s' = Head(queue) /\ xpc' = "bind"
    BY <1>4 DEF Dequeue, heapVars, trackerVars
  <2>2. /\ Len(queue') = Len(queue) - 1 /\ Len(queue) \in Nat \ {0}
        /\ \A i \in 1..Len(queue') : queue'[i] = queue[i + 1]
        /\ Head(queue) = queue[1]
    BY <1>0, <2>1
  <2>3. ASSUME NEW a, Queued(a) PROVE Queued(a)' \/ Held(a)'
    <3>1. PICK i \in 1..Len(queue) : queue[i] = a
      BY <2>3 DEF Queued
    <3>2. CASE i = 1
      BY <2>1, <2>2, <3>1, <3>2 DEF Held
    <3>3. CASE i # 1
      <4>1. i - 1 \in 1..Len(queue') /\ queue'[i - 1] = a
        BY <2>2, <3>1, <3>3
      <4> QED  BY <4>1 DEF Queued
    <3> QED  BY <3>2, <3>3
  <2>4. \A a : ~Held(a) /\ (BeingSent(a)' <=> BeingSent(a))
    BY <2>1 DEF Held, BeingSent, J
  <2> QED  BY <2>1, <2>3, <2>4 DEF NotForgotten
<1>5. ASSUME NEW b \in Conns, Add(b)
      PROVE  \A a \in live' : conn'[a].sent /\ ~conn'[a].exported =>
                Queued(a)' \/ Held(a)' \/ BeingSent(a)'
  <2>1. /\ UNCHANGED <<queue, xpc, s, tpc, db>> /\ tpc = "sleep"
        /\ live' = live \cup {b}
        /\ \A a \in Conns \ {b} : conn'[a] = conn[a]
        /\ ~conn'[b].sent
    BY <1>0, <1>5 DEF Add, MutexFree, trackerVars, Cleared
  <2> QED
    BY <1>0, <2>1 DEF NotForgotten, Queued, Held, BeingSent
<1>6. CASE VisitErase
  <2>1. /\ UNCHANGED <<queue, xpc, s, tpc, db>> /\ tpc = "visit"
        /\ live' = live \ {J}
        /\ \A a \in Conns \ {J} : conn'[a] = conn[a]
    BY <1>0, <1>6 DEF VisitErase, trackerVars, exporterVars
  <2> QED  BY <1>0, <2>1 DEF NotForgotten, Queued, Held, BeingSent
<1>7. CASE Mark
  <2>1. /\ UNCHANGED <<live, connmap, queue, xpc, s, at, idx, db>>
        /\ tpc = "mark" /\ tpc' = "enqueue"
        /\ \A a \in Conns \ {J} : conn'[a] = conn[a]
    BY <1>0, <1>7 DEF Mark, exporterVars
  <2> QED  BY <1>0, <2>1 DEF NotForgotten, Queued, Held, BeingSent, J
<1>8. CASE Flag
  <2>1. /\ UNCHANGED <<live, connmap, queue, tpc, at, idx, db>>
        /\ \A a \in Conns \ {s} : conn'[a] = conn[a]
        /\ s \in Conns => conn'[s].exported
    BY <1>0, <1>8 DEF Flag, SetExported, Connection, trackerVars
  <2> QED  BY <1>0, <2>1 DEF NotForgotten, Queued, Held, BeingSent, J
<1> QED
  BY <1>1, <1>2, <1>3, <1>4, <1>5, <1>6, <1>7, <1>8, NextCases2

(* As long as there is a database connection, every connection marked as sent is
   with the tracker, in the queue or with the exporter until it is exported. *)
THEOREM NothingForgotten == Spec => []NotForgotten
<1>1. Init => NotForgotten
  BY DEF Init, NotForgotten
<1> QED
  BY <1>1, StepNotForgotten, Types, MapConsistent, CustodyHolds, PTL
     DEF Spec, CustodyInv

----------------------------------------------------------------------------
(* Rows.                                                                   *)

(* Every step keeps the record of what became of a row. *)
LEMMA StepOutcome ==
  TypeInv /\ MapOK /\ CustodyInv /\ OutcomeOK /\ [Next]_vars => OutcomeOK'
<1> SUFFICES ASSUME TypeInv, MapOK, CustodyInv, OutcomeOK, [Next]_vars
             PROVE  OutcomeOK'
  OBVIOUS
<1>0. /\ live \subseteq Conns /\ queue \in Seq(Conns)
      /\ conn \in [Conns -> Connection]
      /\ outcome \in [Conns -> {"none", "inserted", "failed"}]
      /\ xpc # "poll" => s \in Conns
  BY DEF TypeInv, TypeOK
<1>9. xpc # "poll" =>
        s \in live /\ conn[s].sent /\ ~Queued(s) /\ ~BeingSent(s)
  BY <1>0 DEF CustodyInv, Custody, Held
<1>1. CASE Bystander
  <2>1. /\ \A a \in Conns : Kept(a)
        /\ \A a : BeingSent(a)' <=> BeingSent(a)
        /\ UNCHANGED <<live, queue>>
    BY <1>1, BystanderKeeps
  <2>2. \A a : Queued(a)' <=> Queued(a)
    BY <2>1 DEF Queued
  <2>3. s' = s /\ (xpc' # "poll" => xpc # "poll")
    BY <1>1 DEF Bystander, ListenerWrite, MergeClose, MergeTs, CountBytes,
       SetData, Parse, Tick, vars, exporterVars, Capture, Lookup, StaleCall,
       ParseFails, ParseHangs, HungStale, PackRaces,
       SweepStart, VisitSkip, NextBucket, SweepEnd, Bind, Pack, Execute,
       QueryFails
  <2>4. CASE outcome' = outcome
    <3>1. (xpc' = "flag" => xpc = "flag")
          /\ (xpc' \in {"bind", "pack", "execute"} =>
                 xpc \in {"bind", "pack", "execute"})
      <4>1. CASE Execute \/ QueryFails
        BY <1>0, <1>9, <2>4, <4>1 DEF Execute, QueryFails, OutcomeOK
      <4>2. CASE ~(Execute \/ QueryFails)
        BY <1>1, <4>2 DEF Bystander, ListenerWrite, MergeClose, MergeTs,
           CountBytes, SetData, Parse, Tick, vars, exporterVars, Capture,
           Lookup, StaleCall, ParseFails, ParseHangs, HungStale, PackRaces,
           SweepStart,
           VisitSkip, NextBucket, SweepEnd,
           Bind, Pack
      <4> QED  BY <4>1, <4>2
    <3> QED  BY <1>0, <2>1, <2>2, <2>3, <2>4, <3>1 DEF OutcomeOK, Kept
  <2>5. CASE Execute \/ QueryFails
    <3>1. /\ xpc # "poll" /\ xpc' = "flag"
          /\ \A a \in Conns \ {s} : outcome'[a] = outcome[a]
          /\ outcome'[s] # "none"
      BY <1>0, <2>5 DEF Execute, QueryFails
    <3> QED
      BY <1>0, <1>9, <2>1, <2>2, <2>3, <3>1 DEF OutcomeOK, Kept
  <2>6. outcome' = outcome \/ Execute \/ QueryFails
    BY <1>1 DEF Bystander, ListenerWrite, MergeClose, MergeTs, CountBytes,
       SetData, Parse, Tick, vars, exporterVars, Capture, Lookup, StaleCall,
       ParseFails, ParseHangs, HungStale, PackRaces,
       SweepStart, VisitSkip, NextBucket, SweepEnd, Bind, Pack
  <2> QED  BY <2>4, <2>5, <2>6
<1>2. CASE VisitExpired
  <2>1. /\ UNCHANGED <<live, conn, connmap, queue, xpc, s, outcome>>
        /\ tpc' = "mark"
    BY <1>2 DEF VisitExpired, heapVars, exporterVars
  <2> QED  BY <2>1 DEF OutcomeOK, Queued, BeingSent
<1>3. CASE Enqueue
  <2>1. /\ UNCHANGED <<live, conn, connmap, xpc, s, outcome>>
        /\ tpc = "enqueue" /\ tpc' = "visit" /\ queue' = Append(queue, J)
    BY <1>3 DEF Enqueue, heapVars, exporterVars
  <2>2. J \in Conns
    BY <2>1, JType
  <2>3. /\ \A i \in 1..Len(queue) : queue'[i] = queue[i]
        /\ Len(queue') = Len(queue) + 1 /\ queue'[Len(queue) + 1] = J
        /\ Len(queue) \in Nat
    BY <1>0, <2>1, <2>2
  <2>4. \A a : Queued(a)' \/ BeingSent(a)' => Queued(a) \/ BeingSent(a)
    BY <2>1, <2>3 DEF Queued, BeingSent
  <2> QED  BY <2>1, <2>4 DEF OutcomeOK
<1>4. CASE Dequeue
  <2>1. /\ UNCHANGED <<live, conn, connmap, tpc, at, idx, outcome>>
        /\ queue # <<>> /\ queue' = Tail(queue)
        /\ xpc' # "poll" => s' = Head(queue)
        /\ xpc' \in {"poll", "bind"}
    BY <1>4 DEF Dequeue, heapVars, trackerVars
  <2>2. /\ Len(queue') = Len(queue) - 1 /\ Len(queue) \in Nat \ {0}
        /\ \A i \in 1..Len(queue') : queue'[i] = queue[i + 1]
        /\ Head(queue) = queue[1] /\ Head(queue) \in Conns
    BY <1>0, <2>1
  <2>3. \A a : /\ Queued(a)' => Queued(a)
               /\ BeingSent(a)' <=> BeingSent(a)
    BY <2>1, <2>2 DEF Queued, BeingSent, J
  <2>4. Queued(Head(queue)) /\ Head(queue) \in live
    BY <2>2 DEF Queued, CustodyInv, Custody
  <2> QED  BY <2>1, <2>3, <2>4 DEF OutcomeOK
<1>5. ASSUME NEW b \in Conns, Add(b)
      PROVE  OutcomeOK'
  <2>1. /\ UNCHANGED <<queue, xpc, s, tpc>> /\ tpc = "sleep"
        /\ live' = live \cup {b} /\ b \notin live
        /\ \A a \in Conns \ {b} :
             conn'[a] = conn[a] /\ outcome'[a] = outcome[a]
        /\ ~conn'[b].exported /\ outcome'[b] = "none"
    BY <1>0, <1>5 DEF Add, MutexFree, trackerVars, Cleared
  <2>2. \A a : (Queued(a)' <=> Queued(a)) /\ ~BeingSent(a)'
    BY <2>1 DEF Queued, BeingSent
  <2> QED  BY <1>0, <1>9, <2>1, <2>2 DEF OutcomeOK
<1>6. CASE VisitErase
  <2>1. /\ UNCHANGED <<queue, xpc, s, tpc, outcome>> /\ tpc = "visit"
        /\ live' = live \ {J}
        /\ \A a \in Conns \ {J} : conn'[a] = conn[a]
    BY <1>0, <1>6 DEF VisitErase, trackerVars, exporterVars
  <2>2. \A a : (Queued(a)' <=> Queued(a)) /\ ~BeingSent(a)'
    BY <2>1 DEF Queued, BeingSent
  <2> QED  BY <1>0, <2>1, <2>2 DEF OutcomeOK
<1>7. CASE Mark
  <2>1. /\ UNCHANGED <<live, connmap, queue, xpc, s, at, idx, outcome>>
        /\ tpc = "mark" /\ tpc' = "enqueue"
        /\ \A a \in Conns \ {J} : conn'[a] = conn[a]
    BY <1>0, <1>7 DEF Mark, exporterVars
  <2>2. J \in live /\ ~conn[J].sent /\ ~conn'[J].exported
    BY <1>0, <1>7, <2>1, JLive DEF CustodyInv, MarkUnsent, Mark, Marked,
       Connection
  <2>3. \A a : /\ Queued(a)' <=> Queued(a)
               /\ BeingSent(a)' <=> a = J
    BY <2>1 DEF Queued, BeingSent, J
  <2> QED  BY <1>0, <2>1, <2>2, <2>3 DEF OutcomeOK
<1>8. CASE Flag
  <2>1. /\ UNCHANGED <<live, connmap, queue, tpc, at, idx, outcome>>
        /\ xpc = "flag" /\ xpc' = "poll"
        /\ \A a \in Conns \ {s} : conn'[a] = conn[a]
        /\ conn'[s].sent = conn[s].sent
    BY <1>0, <1>8 DEF Flag, SetExported, Connection, trackerVars
  <2>2. \A a : /\ Queued(a)' <=> Queued(a)
               /\ BeingSent(a)' <=> BeingSent(a)
    BY <2>1 DEF Queued, BeingSent, J
  <2> QED  BY <1>0, <1>9, <2>1, <2>2 DEF OutcomeOK
<1> QED
  BY <1>1, <1>2, <1>3, <1>4, <1>5, <1>6, <1>7, <1>8, NextCases2

(* A connection has a row or a refusal exactly from the query to its end. *)
THEOREM Outcomes == Spec => []OutcomeOK
<1>1. Init => OutcomeOK
  BY DEF Init, OutcomeOK
<1> QED
  BY <1>1, StepOutcome, Types, MapConsistent, CustodyHolds, PTL
     DEF Spec, CustodyInv

(* The exporter binds and executes for a connection that has no row yet. *)
THEOREM OneRow == Spec => []RowAtMostOnce
  BY Outcomes, PTL DEF OutcomeOK, RowAtMostOnce

(* The tracker frees a connection only when its row was inserted or refused. *)
THEOREM NoEarlyFree == Spec => FreedAfterOutcome
<1>1. TypeInv /\ MapOK /\ OutcomeOK /\ [Next]_vars =>
        [\A a \in live \ live' : outcome[a] # "none" /\ conn[a].exported]_vars
  <2> SUFFICES ASSUME TypeInv, MapOK, OutcomeOK, [Next]_vars,
                      NEW a \in live \ live'
               PROVE  outcome[a] # "none" /\ conn[a].exported
    OBVIOUS
  <2>1. VisitErase
    BY NextCases, HeapKept DEF Add
  <2> QED  BY <2>1 DEF VisitErase, Erasable, OutcomeOK
<1> QED
  BY <1>1, Types, MapConsistent, Outcomes, PTL DEF Spec, FreedAfterOutcome

(* The stage of one connection. *)
LEMMA StageAt ==
  ASSUME NEW a \in Conns
  PROVE  Stage[a] = IF a \notin live THEN "free"
                    ELSE IF ~conn[a].sent THEN "open"
                    ELSE IF ~conn[a].exported THEN "sent" ELSE "settled"
BY DEF Stage

(* A step that leaves the rest alone moves one connection to another stage. *)
LEMMA StageMoves ==
  ASSUME NEW b \in Conns, NEW to,
         \A a \in Conns \ {b} : Stage'[a] = Stage[a],
         Stage'[b] = to
  PROVE  Stage' = [Stage EXCEPT ![b] = to]
<1>1. DOMAIN Stage = Conns /\ DOMAIN Stage' = Conns
  BY DEF Stage
<1>2. Stage' = [a \in Conns |-> Stage'[a]]
  BY DEF Stage
<1> DEFINE T == [Stage EXCEPT ![b] = to]
<1>3. T = [a \in Conns |-> IF a = b THEN to ELSE Stage[a]]
  BY <1>1
<1>4. \A a \in Conns : Stage'[a] = IF a = b THEN to ELSE Stage[a]
  OBVIOUS
<1> HIDE DEF T
<1>5. Stage' = T
  BY <1>2, <1>3, <1>4
<1> QED  BY <1>5 DEF T

(* Every step of the three threads is one of the life cycle, or none. *)
LEMMA StepLives ==
  TypeInv /\ MapOK /\ CustodyInv /\ OutcomeOK /\ [Next]_vars =>
    [Cycle!Next]_(Cycle!vars)
<1> SUFFICES ASSUME TypeInv, MapOK, CustodyInv, OutcomeOK, [Next]_vars
             PROVE  Cycle!Next \/ UNCHANGED <<Stage, outcome>>
  BY DEF Cycle!vars
<1>0. /\ live \subseteq Conns /\ conn \in [Conns -> Connection]
      /\ outcome \in [Conns -> {"none", "inserted", "failed"}]
      /\ xpc # "poll" => s \in Conns
  BY DEF TypeInv, TypeOK
<1>9. xpc # "poll" => s \in live /\ conn[s].sent /\ ~conn[s].exported
  BY <1>0 DEF CustodyInv, Custody, Held
<1>1. CASE Bystander
  <2>1. (\A a \in Conns : Kept(a)) /\ live' = live
    BY <1>1, BystanderKeeps
  <2>2. Stage' = Stage
    BY <2>1 DEF Stage, Kept
  <2>3. outcome' = outcome \/ Execute \/ QueryFails
    BY <1>1 DEF Bystander, ListenerWrite, MergeClose, MergeTs, CountBytes,
       SetData, Parse, Tick, vars, exporterVars, Capture, Lookup, StaleCall,
       ParseFails, ParseHangs, HungStale, PackRaces,
       SweepStart, VisitSkip, NextBucket, SweepEnd, Bind, Pack
  <2>4. ASSUME Execute \/ QueryFails PROVE Cycle!Decide(s)
    <3>1. s \in Conns /\ Stage[s] = "sent" /\ outcome[s] = "none"
      BY <1>0, <1>9, <2>4, StageAt DEF Execute, QueryFails, OutcomeOK
    <3>2. \/ outcome' = [outcome EXCEPT ![s] = "inserted"]
          \/ outcome' = [outcome EXCEPT ![s] = "failed"]
      BY <2>4 DEF Execute, QueryFails
    <3> QED  BY <2>2, <3>1, <3>2 DEF Cycle!Decide
  <2>5. Execute \/ QueryFails => s \in Conns
    BY <1>0 DEF Execute, QueryFails
  <2> QED  BY <2>2, <2>3, <2>4, <2>5 DEF Cycle!Next
<1>2. CASE VisitExpired \/ Enqueue \/ Dequeue
  <2>1. UNCHANGED <<live, conn, outcome>>
    BY <1>2 DEF VisitExpired, Enqueue, Dequeue, heapVars, exporterVars
  <2> QED  BY <2>1 DEF Stage
<1>3. ASSUME NEW b \in Conns, Add(b) PROVE Cycle!Open(b)
  <2>1. /\ live' = live \cup {b} /\ b \notin live
        /\ \A a \in Conns \ {b} : conn'[a] = conn[a]
        /\ ~conn'[b].sent
        /\ outcome' = [outcome EXCEPT ![b] = "none"]
    BY <1>0, <1>3 DEF Add, Cleared
  <2>2. Stage[b] = "free" /\ Stage'[b] = "open"
    BY <2>1 DEF Stage
  <2>3. \A a \in Conns \ {b} : Stage'[a] = Stage[a]
    BY <2>1 DEF Stage
  <2> QED  BY <2>1, <2>2, <2>3, StageMoves DEF Cycle!Open, Cycle!Move
<1>4. ASSUME VisitErase PROVE J \in Conns /\ Cycle!Free(J)
  <2>1. /\ live' = live \ {J} /\ outcome' = outcome
        /\ \A a \in Conns \ {J} : conn'[a] = conn[a]
        /\ conn[J].sent /\ conn[J].exported
    BY <1>0, <1>4 DEF VisitErase, Erasable, exporterVars
  <2>2. J \in live
    BY <1>4, JLive DEF VisitErase
  <2>3. J \in Conns /\ Stage[J] = "settled" /\ Stage'[J] = "free"
    BY <1>0, <2>1, <2>2 DEF Stage
  <2>4. \A a \in Conns \ {J} : Stage'[a] = Stage[a]
    BY <2>1 DEF Stage
  <2> QED  BY <2>1, <2>3, <2>4, StageMoves DEF Cycle!Free, Cycle!Move
<1>5. ASSUME Mark PROVE J \in Conns /\ Cycle!Send(J)
  <2>1. /\ UNCHANGED <<live, outcome>> /\ tpc = "mark"
        /\ \A a \in Conns \ {J} : conn'[a] = conn[a]
    BY <1>0, <1>5 DEF Mark, exporterVars
  <2>2. J \in live /\ ~conn[J].sent
    BY <2>1, JLive DEF CustodyInv, MarkUnsent
  <2>3. conn'[J].sent /\ ~conn'[J].exported
    BY <1>0, <1>5, <2>2 DEF Mark, Marked, Connection
  <2>4. J \in Conns /\ Stage[J] = "open" /\ Stage'[J] = "sent"
    BY <1>0, <2>1, <2>2, <2>3 DEF Stage
  <2>5. \A a \in Conns \ {J} : Stage'[a] = Stage[a]
    BY <2>1 DEF Stage
  <2> QED  BY <2>1, <2>4, <2>5, StageMoves DEF Cycle!Send, Cycle!Move
<1>6. ASSUME Flag PROVE s \in Conns /\ Cycle!Settle(s)
  <2>1. /\ UNCHANGED <<live, outcome>> /\ xpc = "flag"
        /\ s \in live /\ s \in Conns
        /\ \A a \in Conns \ {s} : conn'[a] = conn[a]
        /\ conn'[s].sent /\ conn'[s].exported
    BY <1>0, <1>6, <1>9 DEF Flag, SetExported, Connection
  <2>2. Stage[s] = "sent" /\ Stage'[s] = "settled"
    BY <1>9, <2>1 DEF Stage
  <2>3. \A a \in Conns \ {s} : Stage'[a] = Stage[a]
    BY <2>1 DEF Stage
  <2>4. outcome[s] # "none"
    BY <2>1 DEF OutcomeOK
  <2> QED  BY <2>1, <2>2, <2>3, <2>4, StageMoves DEF Cycle!Settle, Cycle!Move
<1> QED
  BY <1>1, <1>2, <1>3, <1>4, <1>5, <1>6, NextCases2 DEF Cycle!Next

(* The three threads together make every connection live as LifeCycle says. *)
THEOREM ImplementsLifeCycle == Spec => Lives
<1>1. Init => Cycle!Init
  BY DEF Init, Cycle!Init, Stage
<1> QED
  BY <1>1, StepLives, Types, MapConsistent, CustodyHolds, Outcomes, PTL
     DEF Spec, Lives, Cycle!Spec, CustodyInv

----------------------------------------------------------------------------
(* Counters.                                                               *)

(* Every step keeps a sent connection from losing counted bytes. *)
LEMMA StepDue ==
  TypeInv /\ MapOK /\ CustodyInv /\ DueOK /\ [Next]_vars => DueOK'
<1> SUFFICES ASSUME TypeInv, MapOK, CustodyInv, DueOK, [Next]_vars
             PROVE  DueOK'
  OBVIOUS
<1>0. /\ live \subseteq Conns
      /\ conn \in [Conns -> Connection]
      /\ due \in [Conns -> Nat]
      /\ \A a \in Conns : conn[a].bytes \in Nat
      /\ row \in [bytes: Int, parsed: Nat]
      /\ xpc # "poll" => s \in Conns
  BY DEF TypeInv, TypeOK, Connection
<1>9. xpc # "poll" => s \in live /\ conn[s].sent /\ ~conn[s].exported
  BY <1>0 DEF CustodyInv, Custody, Held
<1>10. \A a \in Conns : conn'[a].bytes \in Nat
  BY StepTypes DEF TypeInv, TypeOK, Connection
<1>1. CASE Bystander
  <2>1. /\ \A a \in Conns : Kept(a)
        /\ UNCHANGED <<live, due>>
    BY <1>1, BystanderKeeps
  <2>2. ASSUME NEW a \in live, conn'[a].sent
        PROVE  conn'[a].bytes >= due[a]
    <3>1. conn[a].sent /\ conn'[a].bytes >= conn[a].bytes
      BY <1>0, <2>1, <2>2 DEF Kept
    <3>2. conn[a].bytes >= due[a]
      BY <3>1 DEF DueOK
    <3> QED  BY <1>0, <1>10, <3>1, <3>2
  <2>3. RowCoversDue'
    <3>1. CASE Bind
      <4>1. /\ row'.bytes = ToInt(conn[s].bytes) /\ s' = s /\ conn' = conn
            /\ s \in Conns
        BY <1>0, <3>1 DEF Bind, heapVars
      <4>2. conn[s].bytes >= due[s]
        BY <1>9, <3>1 DEF Bind, DueOK
      <4>3. conn[s].bytes < IntLimit => row'.bytes = conn[s].bytes
        BY <1>0, <4>1, ToIntFacts
      <4> QED  BY <2>1, <4>1, <4>2, <4>3 DEF RowCoversDue
    <3>2. CASE Pack
      <4>1. /\ row'.bytes = row.bytes /\ s' = s /\ xpc = "pack"
            /\ conn' = conn
        BY <1>0, <3>2 DEF Pack, heapVars
      <4> QED  BY <2>1, <4>1 DEF RowCoversDue, DueOK
    <3>3. CASE ~Bind /\ ~Pack
      <4>1. \/ UNCHANGED <<xpc, s, row>>
            \/ xpc' = "flag"
        BY <1>1, <3>3 DEF Bystander, ListenerWrite, MergeClose, MergeTs,
           CountBytes, SetData, Parse, Tick, vars, exporterVars, Capture,
           Lookup, StaleCall, ParseFails, ParseHangs, HungStale, PackRaces,
           SweepStart,
           VisitSkip, NextBucket, SweepEnd,
           Execute, QueryFails
      <4>2. xpc # "poll" => conn'[s].bytes >= conn[s].bytes /\ s \in Conns
        BY <1>0, <2>1 DEF Kept
      <4>3. xpc # "poll" /\ conn'[s].bytes < IntLimit =>
              conn[s].bytes < IntLimit
        BY <1>0, <1>10, <4>2, ConstantsAssumption
      <4> QED  BY <2>1, <4>1, <4>3 DEF RowCoversDue, DueOK
    <3> QED  BY <3>1, <3>2, <3>3
  <2> QED  BY <2>1, <2>2, <2>3 DEF DueOK
<1>2. CASE VisitExpired \/ Enqueue
  <2>1. UNCHANGED <<live, conn, xpc, s, row, due>>
    BY <1>2 DEF VisitExpired, Enqueue, heapVars, exporterVars
  <2> QED  BY <2>1 DEF DueOK, RowCoversDue
<1>3. CASE Dequeue
  <2>1. UNCHANGED <<live, conn, due>> /\ xpc' \in {"poll", "bind"}
    BY <1>3 DEF Dequeue, heapVars
  <2> QED  BY <2>1 DEF DueOK, RowCoversDue
<1>4. ASSUME NEW b \in Conns, Add(b)
      PROVE  DueOK'
  <2>1. /\ UNCHANGED <<xpc, s, row>> /\ live' = live \cup {b} /\ b \notin live
        /\ \A a \in Conns \ {b} : conn'[a] = conn[a] /\ due'[a] = due[a]
        /\ ~conn'[b].sent
    BY <1>0, <1>4 DEF Add, Cleared
  <2> QED  BY <1>0, <1>9, <2>1 DEF DueOK, RowCoversDue
<1>5. CASE VisitErase
  <2>1. /\ UNCHANGED <<xpc, s, row, due>> /\ live' = live \ {J}
        /\ \A a \in Conns \ {J} : conn'[a] = conn[a]
    BY <1>0, <1>5 DEF VisitErase, exporterVars
  <2>2. xpc # "poll" => s # J
    BY <1>5, <1>9 DEF VisitErase, Erasable
  <2> QED  BY <1>0, <2>1, <2>2 DEF DueOK, RowCoversDue
<1>6. CASE Mark
  <2>1. /\ UNCHANGED <<live, xpc, s, row>> /\ tpc = "mark"
        /\ \A a \in Conns \ {J} : conn'[a] = conn[a] /\ due'[a] = due[a]
    BY <1>0, <1>6 DEF Mark, exporterVars
  <2>2. J \in live /\ ~conn[J].sent
    BY <2>1, JLive DEF CustodyInv, MarkUnsent
  <2>3. conn'[J].bytes = due'[J] /\ due'[J] = conn[J].bytes
    BY <1>0, <1>6, <2>2, MarkFlagKeep DEF Mark
  <2>4. due'[J] >= due'[J]
    BY <1>0, <2>2, <2>3
  <2> QED  BY <1>0, <1>9, <2>1, <2>2, <2>3, <2>4 DEF DueOK, RowCoversDue
<1>7. CASE Flag
  <2>1. /\ UNCHANGED <<live, due>> /\ xpc' = "poll"
        /\ \A a \in Conns : /\ conn'[a].bytes = conn[a].bytes
                            /\ conn'[a].sent = conn[a].sent
    BY <1>0, <1>7 DEF Flag, SetExported, Connection
  <2> QED  BY <1>0, <2>1 DEF DueOK, RowCoversDue
<1> QED
  BY <1>1, <1>2, <1>3, <1>4, <1>5, <1>6, <1>7, NextCases2

(* No byte that had been counted when a connection was marked is missing from
   its row. *)
THEOREM RowCounts == Spec => []RowCoversDue
<1>1. Init => DueOK
  BY DEF Init, DueOK, RowCoversDue
<1>2. Spec => []DueOK
  BY <1>1, StepDue, Types, MapConsistent, CustodyHolds, PTL
     DEF Spec, CustodyInv
<1> QED  BY <1>2, PTL DEF DueOK

----------------------------------------------------------------------------
(* One connection per flow.                                                *)

(* Two connections that the code's comparison would match are in the same
   bucket: the exclusive or is the same in both directions. *)
LEMMA EqualBucket ==
  ASSUME NEW x \in Connection, NEW m \in Key, Equal(x, m)
  PROVE  Bucket(x.key) = Bucket(m)
<1>1. /\ x.key \in Key
      /\ x.key.saddr \in Hosts /\ x.key.daddr \in Hosts
      /\ m.saddr \in Hosts /\ m.daddr \in Hosts
  BY DEF Connection, Key
<1>2. CASE SameFlow(x.key, m)
  BY <1>2 DEF SameFlow, Bucket
<1>3. CASE Reversed(x.key, m)
  BY <1>1, <1>3, XorSymmetric DEF Reversed, Bucket
<1> QED  BY <1>2, <1>3 DEF Equal

(* Apart from add(), what is allocated does not grow, keys stay, and what was
   sent stays sent. *)
LEMMA SentStays ==
  ASSUME TypeInv, MapOK, [Next]_vars, ~\E a \in Conns : Add(a)
  PROVE  /\ live' \subseteq live
         /\ \A a \in live' : /\ conn'[a].key = conn[a].key
                             /\ conn[a].sent => conn'[a].sent
<1>0. live \subseteq Conns /\ conn \in [Conns -> Connection]
  BY DEF TypeInv, TypeOK
<1>1. CASE ListenerWrite \/ Quiet \/ Tick \/ UNCHANGED vars
  BY <1>0, <1>1, HeapKept, WriteKeeps, QuietKeeps DEF Kept
<1>2. CASE Mark \/ Flag
  BY <1>0, <1>2, HeapKept, MarkFlagKeep
<1>3. CASE VisitErase
  <2>1. live' = live \ {J} /\ \A a \in Conns \ {J} : conn'[a] = conn[a]
    BY <1>0, <1>3 DEF VisitErase
  <2> QED  BY <1>0, <2>1
<1> QED  BY <1>1, <1>2, <1>3, NextCases

(* What lookup() did not find is not added by another thread before add(). *)
LEMMA StepMissing ==
  TypeInv /\ MapOK /\ StillMissing /\ [Next]_vars => StillMissing'
<1> SUFFICES ASSUME TypeInv, MapOK, StillMissing, [Next]_vars, lpc' = "add",
                    NEW a \in live'
             PROVE  ~Equal(conn'[a], c'.key)
  BY DEF StillMissing
<1>0. live \subseteq Conns /\ conn \in [Conns -> Connection]
  BY DEF TypeInv, TypeOK
<1>1. ~\E b \in Conns : Add(b)
  BY DEF Add
<1>2. /\ a \in live /\ conn'[a].key = conn[a].key
      /\ conn[a].sent => conn'[a].sent
  BY <1>1, SentStays
<1>3. CASE Lookup
  <2> DEFINE l == Bucket(c.key)
  <2>1. c' = c /\ conn' = conn /\ Matches(l) = {} /\ c \in Turn
    BY <1>3 DEF Lookup, heapVars, TypeInv, TypeOK
  <2>2. c.key \in Key /\ conn[a] \in Connection
    BY <1>0, <1>2, <2>1 DEF Turn
  <2>3. ASSUME Equal(conn[a], c.key) PROVE FALSE
    <3>1. Bucket(conn[a].key) = l
      BY <2>2, <2>3, EqualBucket
    <3>2. PICK i \in 1..Len(connmap[l]) : connmap[l][i] = a
      BY <1>2, <3>1 DEF MapOK
    <3>3. i \in Matches(l)
      BY <2>3, <3>2 DEF Matches
    <3> QED  BY <2>1, <3>3
  <2> QED  BY <2>1, <2>3
<1>4. CASE ~Lookup
  <2>1. lpc = "add" /\ c'.key = c.key
    <3>1. CASE Tick
      <4>1. lpc = "add" /\ c \in Turn /\ c # None
        BY <3>1 DEF Tick, TypeInv, TypeOK
      <4> QED  BY <3>1, <4>1 DEF Tick, Turn
    <3>2. CASE ~Tick
      BY <1>1, <1>4, <3>2 DEF Next, ListenerStep, TrackerStep, ExporterStep,
         Capture, MergeClose, MergeTs, CountBytes, SetData, Parse, StaleCall,
         ParseFails, ParseHangs, HungStale, PackRaces,
         SweepStart, VisitErase, VisitSkip, VisitExpired, Mark, Enqueue,
         NextBucket, SweepEnd, Dequeue, Bind, Pack, Execute, QueryFails, Flag,
         vars, listenerVars
    <3> QED  BY <3>1, <3>2
  <2>2. ~Equal(conn[a], c.key)
    BY <1>2, <2>1 DEF StillMissing
  <2> QED  BY <1>2, <2>1, <2>2 DEF Equal
<1> QED  BY <1>3, <1>4

(* Every step keeps one connection per flow. *)
LEMMA StepUnique ==
  /\ TypeInv /\ MapOK /\ StillMissing /\ UniqueFlow
  /\ [Next]_vars
  => UniqueFlow'
<1> SUFFICES ASSUME TypeInv, MapOK, StillMissing, UniqueFlow, [Next]_vars
             PROVE  UniqueFlow'
  OBVIOUS
<1>1. CASE ~\E a \in Conns : Add(a)
  BY <1>1, SentStays DEF UniqueFlow, Reversed, SameFlow
<1>2. ASSUME NEW b \in Conns, Add(b)
      PROVE  UniqueFlow'
  <2>1. /\ live \subseteq Conns /\ live' = live \cup {b}
        /\ \A a \in Conns \ {b} : conn'[a] = conn[a]
        /\ conn'[b].key = c.key
        /\ b \notin live
    BY <1>2 DEF Add, TypeInv, TypeOK, Cleared
  <2>2. \A a \in live : ~Equal(conn[a], c.key)
    BY <1>2 DEF Add, StillMissing
  <2>3. \A a \in live : /\ ~Reversed(conn[a].key, c.key)
                        /\ ~Reversed(c.key, conn[a].key)
                        /\ conn[a].sent \/ conn[a].key.proto # c.key.proto
                             \/ ~SameFlow(conn[a].key, c.key)
    BY <2>2 DEF Equal, Reversed
  <2>4. \A a \in live : SameFlow(c.key, conn[a].key) <=>
                            SameFlow(conn[a].key, c.key)
    BY DEF SameFlow
  <2> QED  BY <2>1, <2>3, <2>4 DEF UniqueFlow
<1> QED  BY <1>1, <1>2

(* The map holds no two connections for the same traffic, although lookup() and
   add() release the mutex between them. *)
THEOREM OnePerFlow == Spec => []UniqueFlow
<1>1. Init => StillMissing /\ UniqueFlow
  BY DEF Init, StillMissing, UniqueFlow
<1> QED
  BY <1>1, StepMissing, StepUnique, Types, MapConsistent, PTL DEF Spec

----------------------------------------------------------------------------
(* Pointers.                                                               *)

(* The hypotheses of FreshOK. *)
Fresh == Using /\ ~lateHit /\ c.age < SweepPeriod

(* Its conclusion about a connection that has been sent. *)
BehindSweep ==
  IF tpc = "sleep" THEN SweepPeriod - nap <= c.age ELSE Passed(cnew)

(* Once the Listener has its pointer, nothing but the clock changes its turn. *)
LEMMA TurnKept ==
  ASSUME TypeInv, [Next]_vars, ~Lookup, ~\E a \in Conns : Add(a), Fresh'
  PROVE  /\ Fresh /\ cnew' = cnew
         /\ ~Tick => c' = c
         /\ Tick => c'.age = c.age + 1 /\ c.age \in Nat
<1>1. CASE Tick
  <2>1. /\ Using /\ UNCHANGED <<lpc, cnew, lateHit>>
        /\ c \in Turn /\ c # None
    BY <1>1 DEF Tick, Fresh, Using, TypeInv, TypeOK
  <2>2. c'.age = Older(c.age) /\ c.age \in 0..MaxAge
    BY <1>1, <2>1 DEF Tick, Turn
  <2>3. c.age < MaxAge
    BY <2>2, ConstantsAssumption DEF Fresh, Older
  <2>4. c'.age = c.age + 1 /\ c.age \in Nat
    BY <2>2, <2>3, ConstantsAssumption DEF Older
  <2> QED  BY <1>1, <2>1, <2>4, ConstantsAssumption DEF Fresh
<1>2. CASE ~Tick
  BY <1>2 DEF Next, ListenerStep, TrackerStep, ExporterStep, Capture,
     MergeClose, MergeTs, CountBytes, SetData, Parse, StaleCall, ParseFails,
     ParseHangs, HungStale, PackRaces, SweepStart,
     VisitErase, VisitSkip, VisitExpired, Mark, Enqueue, NextBucket, SweepEnd,
     Dequeue, Bind, Pack, Execute, QueryFails, Flag, vars, listenerVars,
     Fresh, Using
<1> QED  BY <1>1, <1>2

(* Every step keeps a fresh pointer behind the sweep that could free it. *)
LEMMA StepFresh ==
  TypeInv /\ MapOK /\ FreshOK /\ [Next]_vars => FreshOK'
<1> SUFFICES ASSUME TypeInv, MapOK, FreshOK, [Next]_vars, Fresh'
             PROVE  cnew' \in live' /\ (conn'[cnew'].sent => BehindSweep')
  BY DEF FreshOK, Fresh, BehindSweep
<1>0. /\ live \subseteq Conns /\ conn \in [Conns -> Connection]
      /\ at \in Buckets /\ idx \in Nat \ {0} /\ nap \in 0..SweepPeriod
      /\ SweepPeriod \in Nat
  BY ConstantsAssumption DEF TypeInv, TypeOK
<1>1. CASE Lookup
  <2> DEFINE l == Bucket(c.key)
  <2>1. /\ UNCHANGED <<live, conn>> /\ c \in Turn
        /\ lpc' \in {"add", "mergeClose"}
    BY <1>1 DEF Lookup, heapVars, TypeInv, TypeOK
  <2>2. PICK i \in Matches(l) : /\ cnew' = connmap[l][i]
                                /\ lateHit' = conn[connmap[l][i]].sent
    BY <1>1 DEF Lookup, Fresh, Using
  <2>3. l \in Buckets
    BY <2>1, KeyBucket DEF Turn
  <2> QED  BY <2>1, <2>2, <2>3 DEF Matches, MapOK, Fresh
<1>2. ASSUME NEW b \in Conns, Add(b)
      PROVE  cnew' \in live' /\ ~conn'[cnew'].sent
  BY <1>0, <1>2 DEF Add, Cleared
<1>3. CASE ~Lookup /\ ~\E b \in Conns : Add(b)
  <2>1. /\ Fresh /\ cnew' = cnew
        /\ ~Tick => c' = c
        /\ Tick => c'.age = c.age + 1 /\ c.age \in Nat
    BY <1>3, TurnKept
  <2>2. cnew \in live /\ (conn[cnew].sent => BehindSweep)
    BY <2>1 DEF FreshOK, Fresh, BehindSweep
  <2>3. c.age \in Nat /\ c.age < SweepPeriod
    BY <2>1 DEF Fresh, Using, TypeInv, TypeOK, Turn
  <2>4. ~(tpc = "sleep" /\ nap = 0 /\ conn[cnew].sent)
    BY <1>0, <2>2, <2>3 DEF BehindSweep
  <2>5. CASE Tick
    <3>1. /\ UNCHANGED <<live, connmap, tpc, at, idx>>
          /\ nap' = IF nap > 0 THEN nap - 1 ELSE 0
          /\ conn'[cnew].sent = conn[cnew].sent
          /\ conn'[cnew].key = conn[cnew].key
      BY <1>0, <2>2, <2>5, QuietKeeps DEF Tick, Kept
    <3>2. CASE conn[cnew].sent /\ tpc = "sleep"
      <4>1. SweepPeriod - nap <= c.age /\ nap > 0
        BY <1>0, <2>2, <2>4, <3>2 DEF BehindSweep
      <4>2. SweepPeriod - nap' <= c'.age
        BY <1>0, <2>1, <2>5, <3>1, <4>1
      <4> QED  BY <2>1, <2>2, <3>1, <3>2, <4>2 DEF BehindSweep
    <3>3. CASE conn[cnew].sent /\ tpc # "sleep"
      BY <2>1, <2>2, <3>1, <3>3 DEF BehindSweep, Passed
    <3>4. CASE ~conn[cnew].sent
      BY <2>1, <2>2, <3>1, <3>4
    <3> QED  BY <3>2, <3>3, <3>4
  <2>6. CASE VisitErase
    <3>1. /\ J \in live /\ Bucket(conn[J].key) = at
          /\ idx \in 1..Len(connmap[at]) /\ J = connmap[at][idx]
          /\ \A i \in 1..Len(connmap[at]) : connmap[at][i] = J => i = idx
      BY <2>6, JLive DEF VisitErase, J
    <3>2. /\ live' = live \ {J} /\ \A a \in Conns \ {J} : conn'[a] = conn[a]
          /\ UNCHANGED <<tpc, at, idx>> /\ tpc = "visit" /\ conn[J].sent
          /\ connmap'[at] = RemoveAt(connmap[at], idx)
          /\ connmap[at] \in Seq(Conns)
      BY <1>0, <2>6 DEF VisitErase, Erasable, trackerVars, TypeInv, TypeOK
    <3>3. /\ Len(connmap'[at]) = Len(connmap[at]) - 1
          /\ \A i \in 1..(Len(connmap[at]) - 1) :
               connmap'[at][i] = IF i < idx THEN connmap[at][i]
                                 ELSE connmap[at][i + 1]
      <4> DEFINE q == connmap[at]
      <4>1. q \in Seq(Conns) /\ idx \in 1..Len(q)
        BY <3>1, <3>2
      <4> HIDE DEF q
      <4>2. /\ Len(RemoveAt(q, idx)) = Len(q) - 1
            /\ \A i \in 1..(Len(q) - 1) :
                 RemoveAt(q, idx)[i] = IF i < idx THEN q[i] ELSE q[i + 1]
        BY <4>1, RemoveAtFacts
      <4> QED  BY <3>2, <4>2 DEF q
    <3>4. cnew # J
      <4> SUFFICES ASSUME cnew = J PROVE FALSE
        OBVIOUS
      <4>1. Passed(cnew)
        BY <2>2, <3>2 DEF BehindSweep
      <4>2. at \in Nat
        BY <1>0, ConstantsAssumption
      <4>3. ~(Bucket(conn[cnew].key) < at)
        BY <3>1, <4>2
      <4>4. PICK i \in 1..Len(connmap[at]) : connmap[at][i] = cnew /\ i < idx
        BY <3>2, <4>1, <4>3 DEF Passed
      <4> QED  BY <1>0, <3>1, <4>4
    <3>5. cnew \in live' /\ conn'[cnew] = conn[cnew]
      BY <1>0, <2>2, <3>2, <3>4
    <3>6. ASSUME conn[cnew].sent PROVE Passed(cnew)'
      <4>1. Passed(cnew)
        BY <2>2, <3>2, <3>6 DEF BehindSweep
      <4>2. CASE Bucket(conn[cnew].key) < at
        BY <2>1, <3>2, <3>5, <4>2 DEF Passed
      <4>3. CASE ~(Bucket(conn[cnew].key) < at)
        <5>1. PICK i \in 1..Len(connmap[at]) : connmap[at][i] = cnew /\ i < idx
          BY <3>2, <4>1, <4>3 DEF Passed
        <5>2. i \in 1..(Len(connmap[at]) - 1)
          BY <3>1, <5>1
        <5>3. connmap'[at][i] = cnew /\ i \in 1..Len(connmap'[at])
          BY <3>3, <5>1, <5>2
        <5> QED  BY <2>1, <3>2, <5>1, <5>3 DEF Passed
      <4> QED  BY <4>2, <4>3
    <3> QED  BY <2>1, <3>2, <3>5, <3>6 DEF BehindSweep
  <2>7. CASE Mark
    <3>1. /\ UNCHANGED <<live, connmap, at, idx>>
          /\ tpc = "mark" /\ tpc' = "enqueue"
      BY <2>7 DEF Mark
    <3>2. /\ idx \in 1..Len(connmap[at]) /\ J = connmap[at][idx]
      BY <3>1, JLive DEF J
    <3>3. /\ conn'[cnew].key = conn[cnew].key
          /\ cnew # J => conn'[cnew].sent = conn[cnew].sent
      BY <1>0, <2>2, <2>7 DEF Mark, Marked, Connection
    <3>4. CASE cnew = J
      BY <2>1, <2>2, <3>1, <3>2, <3>4 DEF BehindSweep, Passed
    <3>5. CASE cnew # J
      BY <2>1, <2>2, <3>1, <3>3, <3>5 DEF BehindSweep, Passed
    <3> QED  BY <3>4, <3>5
  <2>8. CASE Flag
    <3>1. /\ UNCHANGED <<live, connmap, tpc, at, idx, nap>>
          /\ c' = c
      BY <2>8 DEF Flag, trackerVars, listenerVars
    <3>2. /\ conn'[cnew].key = conn[cnew].key
          /\ conn'[cnew].sent = conn[cnew].sent
      BY <1>0, <2>2, <2>8 DEF Flag, SetExported, Connection
    <3> QED  BY <2>1, <2>2, <3>1, <3>2 DEF BehindSweep, Passed
  <2>9. CASE ListenerWrite \/ Quiet \/ UNCHANGED vars
    <3>1. /\ UNCHANGED <<live, connmap>>
          /\ conn'[cnew].key = conn[cnew].key
          /\ conn'[cnew].sent = conn[cnew].sent
      BY <1>0, <2>2, <2>9, HeapKept, WriteKeeps, QuietKeeps DEF Kept
    <3>2. CASE SweepStart
      BY <2>1, <2>2, <2>4, <3>1, <3>2 DEF SweepStart
    <3>3. CASE SweepEnd
      <4>1. tpc' = "sleep" /\ nap' = SweepPeriod /\ c' = c
        BY <3>3 DEF SweepEnd, listenerVars
      <4> QED  BY <1>0, <2>1, <2>2, <2>3, <3>1, <4>1 DEF BehindSweep
    <3>4. CASE NextBucket
      <4>1. /\ tpc = "visit" /\ tpc' = "visit" /\ at' > at /\ at' \in Buckets
        BY <3>4 DEF NextBucket
      <4>2. ASSUME Passed(cnew) PROVE Bucket(conn[cnew].key) < at'
        <5>1. conn[cnew].key \in Key
          BY <1>0, <2>2 DEF Connection
        <5>2. /\ Bucket(conn[cnew].key) \in Nat /\ at \in Nat
              /\ at' \in Nat
          BY <1>0, <4>1, <5>1, KeyBucket, ConstantsAssumption
        <5>3. Bucket(conn[cnew].key) < at \/ Bucket(conn[cnew].key) = at
          BY <1>0, <4>2 DEF Passed, MapOK
        <5> QED  BY <4>1, <5>2, <5>3
      <4> QED  BY <2>1, <2>2, <3>1, <4>1, <4>2 DEF BehindSweep, Passed
    <3>5. CASE VisitSkip \/ VisitExpired \/ Enqueue
      <4>1. /\ at' = at /\ tpc # "sleep" /\ tpc' # "sleep"
            /\ \/ idx' = idx + 1
               \/ idx' = idx /\ tpc = "visit"
        BY <3>5 DEF VisitSkip, VisitExpired, Enqueue, Advance
      <4>2. Passed(cnew) => Passed(cnew)'
        BY <1>0, <2>1, <3>1, <4>1 DEF Passed
      <4> QED  BY <2>1, <2>2, <3>1, <4>1, <4>2 DEF BehindSweep
    <3>6. CASE ~(\/ SweepStart \/ SweepEnd \/ NextBucket
                 \/ VisitSkip \/ VisitExpired \/ Enqueue)
      <4>1. UNCHANGED <<tpc, at, idx, nap>>
        BY <2>9, <3>6 DEF ListenerWrite, MergeClose, MergeTs, CountBytes,
           SetData, Parse, Quiet, Capture, Lookup, StaleCall, ParseFails,
           ParseHangs, HungStale, PackRaces, Dequeue, Bind,
           Pack, Execute, QueryFails, vars, trackerVars
      <4>2. CASE c' = c
        BY <2>1, <2>2, <3>1, <4>1, <4>2 DEF BehindSweep, Passed
      <4>3. CASE Tick
        BY <2>5, <4>3
      <4> QED  BY <2>1, <4>2, <4>3, <2>5
    <3> QED  BY <3>2, <3>3, <3>4, <3>5, <3>6
  <2> QED  BY <1>3, <2>5, <2>6, <2>7, <2>8, <2>9, NextCases
<1> QED  BY <1>1, <1>2, <1>3

(* A pointer to a connection that was not sent when it was looked up is good
   for SweepPeriod seconds, with no lock held. *)
THEOREM FreshPointers == Spec => []FreshPointerSafe
<1>1. Init => FreshOK
  BY DEF Init, FreshOK, Using
<1>2. Spec => []FreshOK
  BY <1>1, StepFresh, Types, MapConsistent, PTL DEF Spec
<1> QED  BY <1>2, PTL DEF FreshOK, FreshPointerSafe

----------------------------------------------------------------------------
(* A sweep ends: the tracker visits no bucket twice and no place for ever.  *)

(* The places of the bucket that the sweep has not left behind, *)
Left == Len(connmap[at]) - (idx - 1)

(* and the steps to take before it leaves the one it is at. *)
Phase == CASE tpc = "mark" -> 1 [] tpc = "enqueue" -> 0 [] OTHER -> 2

(* While the tracker holds the mutex, each of its steps ends the sweep, goes on
   to a bucket behind, leaves a place behind it for good, or does one of the
   things it has to do there; nothing that the others do gives it more to do. *)
SweepGetsOn ==
  tpc # "sleep" =>
    \/ tpc' = "sleep"
    \/ at < at' /\ at' \in Buckets
    \/ at' = at /\ Left' \in 0..(Left - 1)
    \/ at' = at /\ Left' = Left /\ Phase' \in 0..(Phase - 1)
    \/ ~TrackerStep /\ UNCHANGED <<tpc, at, idx, connmap>>

LEMMA StepSweep ==
  ASSUME TypeInv, [Next]_vars
  PROVE  [SweepGetsOn]_vars
<1> SUFFICES ASSUME tpc # "sleep", vars' # vars PROVE SweepGetsOn
  BY DEF SweepGetsOn
<1>0. /\ at \in Buckets /\ idx \in Nat /\ idx > 0
      /\ connmap[at] \in Seq(Conns) /\ Len(connmap[at]) \in Nat
  BY DEF TypeInv, TypeOK
<1> DEFINE n == Len(connmap[at])
<1>1. CASE VisitErase
  <2>1. /\ UNCHANGED <<tpc, at, idx>> /\ tpc = "visit"
        /\ ~(idx > n)
        /\ connmap' = [connmap EXCEPT ![at] = RemoveAt(@, idx)]
    BY <1>1 DEF VisitErase, trackerVars, AtEnd
  <2>2. idx \in 1..n
    BY <1>0, <2>1
  <2>3. Len(RemoveAt(connmap[at], idx)) = n - 1
    BY <1>0, <2>2, RemoveAtFacts
  <2>4. connmap'[at] = RemoveAt(connmap[at], idx)
    BY <1>0, <2>1 DEF TypeInv, TypeOK
  <2>5. Left' = (n - 1) - (idx - 1)
    BY <2>1, <2>3, <2>4 DEF Left
  <2>6. Left' \in 0..(Left - 1)
    BY <1>0, <2>2, <2>5 DEF Left
  <2> QED  BY <2>1, <2>6 DEF SweepGetsOn
<1>2. CASE VisitSkip
  <2>1. /\ UNCHANGED <<tpc, at, connmap>> /\ ~(idx > n) /\ idx' = idx + 1
    BY <1>2 DEF VisitSkip, Advance, heapVars, AtEnd
  <2>2. Left' = n - ((idx + 1) - 1)
    BY <2>1 DEF Left
  <2>3. Left' \in 0..(Left - 1)
    BY <1>0, <2>1, <2>2 DEF Left
  <2> QED  BY <2>1, <2>3 DEF SweepGetsOn
<1>3. CASE VisitExpired
  <2>1. /\ tpc = "visit" /\ tpc' = "mark" /\ UNCHANGED <<at, idx, connmap>>
    BY <1>3 DEF VisitExpired, heapVars
  <2>2. Left' = Left /\ Phase = 2 /\ Phase' = 1
    BY <2>1 DEF Left, Phase
  <2> QED  BY <2>1, <2>2 DEF SweepGetsOn
<1>4. CASE Mark
  <2>1. /\ tpc = "mark" /\ tpc' = "enqueue" /\ UNCHANGED <<at, idx, connmap>>
    BY <1>4 DEF Mark
  <2>2. Left' = Left /\ Phase = 1 /\ Phase' = 0
    BY <2>1 DEF Left, Phase
  <2> QED  BY <2>1, <2>2 DEF SweepGetsOn
<1>5. CASE Enqueue
  <2>1. /\ UNCHANGED <<at, connmap>> /\ idx' = idx + 1 /\ idx \in 1..n
    BY <1>5 DEF Enqueue, Advance, heapVars, TypeInv, PositionOK
  <2>2. Left' = n - ((idx + 1) - 1)
    BY <2>1 DEF Left
  <2>3. Left' \in 0..(Left - 1)
    BY <1>0, <2>1, <2>2 DEF Left
  <2> QED  BY <2>1, <2>3 DEF SweepGetsOn
<1>6. CASE NextBucket
  BY <1>6 DEF NextBucket, SweepGetsOn
<1>7. CASE SweepEnd
  BY <1>7 DEF SweepEnd, SweepGetsOn
<1>8. CASE SweepStart
  BY <1>8 DEF SweepStart
<1>9. CASE ~TrackerStep
  <2>1. UNCHANGED <<tpc, at, idx, connmap>>
    <3>1. CASE \E p \in Packets : Capture(p)
      BY <3>1 DEF Capture, trackerVars, heapVars
    <3>2. CASE ListenerStep \/ HungStale
      BY <3>2 DEF ListenerStep, Lookup, Add, MutexFree, MergeClose, MergeTs,
         CountBytes, SetData, Parse, StaleCall, ParseFails, ParseHangs,
         HungStale, PackRaces, trackerVars, heapVars
    <3>3. CASE ExporterStep
      BY <3>3 DEF ExporterStep, Dequeue, Bind, Pack, Execute, QueryFails, Flag,
         trackerVars, heapVars
    <3>4. CASE Tick
      BY <3>4 DEF Tick
    <3> QED  BY <1>9, <3>1, <3>2, <3>3, <3>4 DEF Next
  <2> QED  BY <1>9, <2>1 DEF SweepGetsOn
<1> QED  BY <1>1, <1>2, <1>3, <1>4, <1>5, <1>6, <1>7, <1>8, <1>9
         DEF TrackerStep

(* The mutex is never held for ever because a sweep turns in circles, whatever
   packets arrive and whatever the exporter does: this is the measure by which
   SweepEnds holds. *)
THEOREM SweepsGetOn == Spec => [][SweepGetsOn]_vars
<1>1. TypeInv /\ [Next]_vars => [SweepGetsOn]_vars
  BY StepSweep
<1> QED  BY <1>1, Types, PTL DEF Spec
============================================================================
