----------------------------- MODULE ConnTrack -----------------------------
(***************************************************************************)
(* The life of a tracked connection in csharker, across its three threads: *)
(*                                                                         *)
(*   Listener  (Listener::start)              looks a packet up in the map *)
(*             of connections, adds or merges it, and counts it;           *)
(*   tracker   (ConnectionTracker::warehouse) every SweepPeriod seconds    *)
(*             hands closed connections to the export queue and erases the *)
(*             exported ones;                                              *)
(*   exporter  (Exporter::warehouse)          takes connections from the   *)
(*             queue, inserts a row for each and flags it as exported.     *)
(*                                                                         *)
(* The map is guarded by ConnectionTracker::_mutex.  The fields of a       *)
(* Connection are not: Listener and exporter write through the pointer     *)
(* they hold after the lock is released, so every such access is a step of *)
(* its own.  A critical section of the Listener is one step that needs the *)
(* mutex: what it reads (the lists, the keys, sent) is written only under  *)
(* the mutex.  The tracker's critical section is many steps, because the   *)
(* fields it reads change meanwhile.                                       *)
(*                                                                         *)
(* Time is relative: the code's  time(NULL) - ts  is the field age, which  *)
(* a Tick increments and which saturates at MaxAge.                        *)
(***************************************************************************)
EXTENDS Integers, SequencesExt

CONSTANTS
  Conns,       (* the addresses a list node (a Connection) may have        *)
  None,        (* the null pointer                                         *)
  Hosts,       (* IP addresses; 0 is what Connection::clear() stores       *)
  Ports,       (* port numbers, 0 included                                 *)
  Protos,      (* IP protocol numbers, 0 included                          *)
  Kinds,       (* the Protocol classes a packet may end in                 *)
  Packets,     (* what the Listener's loop can find in a packet            *)
  Xor(_, _),   (* the bit-wise exclusive or of two addresses               *)
  CloseDelay,  (* 3 in the code: seconds a closed connection lingers       *)
  SweepPeriod, (* 5 in the code: the tracker's sleep                       *)
  MaxAge,      (* bound: ages saturate here                                *)
  MaxPackets,  (* bound: packets captured in a behaviour                   *)
  IntLimit,    (* 2^31 in the code: the first number beyond an int         *)
  DbOutcomes   (* whether yieldConnection() gave the exporter a connection *)

Key == [proto: Protos, saddr: Hosts, daddr: Hosts,
        src_port: Ports, dst_port: Ports]

(* What the Listener's local Connection c and the innermost Protocol object
   hold after a packet's layers have been walked (c.ts apart). *)
Track == [key: Key, close_wait: BOOLEAN, kind: Kinds, len: Nat]

(* Mutant: the key depends on the direction. *)
BucketDirected(k) == k.saddr

(* std::map's keys: one list of connections per value of saddr ^ daddr. *)
Bucket(k) == Xor(k.saddr, k.daddr)
Buckets == {Xor(h, g) : h \in Hosts, g \in Hosts}

(* A packet's Protocol object, with the number of parse() calls it has had. *)
Data == [kind: Kinds, parsed: Nat]

(* Connection; start, which nothing reads but the exporter, is left out. *)
Connection == [key: Key, bytes: Nat, close_wait: BOOLEAN, exported: BOOLEAN,
               sent: BOOLEAN, age: 0..MaxAge, data: {None} \cup Data]

(* The Listener's c while it works on a packet. *)
Turn == [key: Key, close_wait: BOOLEAN, kind: Kinds, len: Nat, age: 0..MaxAge]

ASSUME ConstantsAssumption ==
  /\ None \notin Conns /\ None \notin Data /\ None \notin Turn
  /\ 0 \in Hosts /\ 0 \in Ports /\ 0 \in Protos
  /\ Packets \subseteq Track
  /\ Buckets \subseteq Nat
  /\ CloseDelay \in Nat /\ SweepPeriod \in Nat /\ MaxPackets \in Nat
  /\ MaxAge \in Nat /\ MaxAge > CloseDelay /\ MaxAge >= SweepPeriod
  /\ DbOutcomes \subseteq BOOLEAN
  /\ IntLimit \in Nat \ {0}

ASSUME XorSymmetric == \A h, g \in Hosts : Xor(h, g) = Xor(g, h)

VARIABLES
  (* the heap and the map *)
  live,        (* the addresses allocated to a list node                   *)
  conn,        (* the Connection at each address                           *)
  connmap,     (* ConnectionTracker::_connmap                              *)
  queue,       (* the export queue; see TSQueue for its memory accesses    *)
  (* Listener *)
  lpc,         (* where the Listener is in its loop                        *)
  c,           (* its local Connection and packet, None between packets    *)
  cnew,        (* its pointer into the map                                 *)
  captured,    (* packets captured so far                                  *)
  (* tracker *)
  tpc,         (* "sleep", or where it is in cleanup() with the mutex held *)
  at,          (* the bucket it is in                                      *)
  idx,         (* its position in that bucket's list                       *)
  nap,         (* seconds of sleep left                                    *)
  (* exporter *)
  xpc,         (* where the exporter is in its loop                        *)
  s,           (* the connection it took from the queue                    *)
  db,          (* is BillingInstance::_conn non-null?                      *)
  row,         (* the values bound to the Statement                        *)
  (* history *)
  outcome,     (* what became of the row of the connection at an address   *)
  due,         (* what that connection had counted when it was marked sent *)
  lateHit      (* had cnew been sent when the Listener looked it up?       *)

heapVars == <<live, conn, connmap>>
listenerVars == <<lpc, c, cnew, captured, lateHit>>
trackerVars == <<tpc, at, idx, nap>>
exporterVars == <<xpc, s, row, outcome>>
vars == <<heapVars, queue, listenerVars, trackerVars, exporterVars, db, due>>

ZeroKey == [proto |-> 0, saddr |-> 0, daddr |-> 0,
            src_port |-> 0, dst_port |-> 0]

(* Connection::clear(). *)
Cleared == [key |-> ZeroKey, bytes |-> 0, close_wait |-> FALSE,
            exported |-> FALSE, sent |-> FALSE, age |-> 0, data |-> None]

FirstBucket == CHOOSE l \in Buckets : \A m \in Buckets : l <= m

(* The Listener holds a pointer into the map without holding the mutex. *)
Using == lpc \in {"mergeClose", "mergeTs", "bytes", "data", "parse"}

TypeOK ==
  /\ live \subseteq Conns
  /\ conn \in [Conns -> Connection]
  /\ connmap \in [Buckets -> Seq(Conns)]
  /\ queue \in Seq(Conns)
  /\ lpc \in {"capture", "lookup", "add", "mergeClose", "mergeTs", "bytes",
              "data", "parse", "hung", "crashed"}
  /\ c \in {None} \cup Turn
  /\ lpc \notin {"capture", "crashed"} => c # None
  /\ cnew \in Conns \cup {None}
  /\ Using => cnew # None
  /\ captured \in 0..MaxPackets
  /\ tpc \in {"sleep", "visit", "mark", "enqueue"}
  /\ at \in Buckets /\ idx \in Nat \ {0} /\ nap \in 0..SweepPeriod
  /\ xpc \in {"poll", "bind", "pack", "execute", "flag"}
  /\ s \in Conns \cup {None}
  /\ xpc # "poll" => s # None
  /\ db \in BOOLEAN
  /\ row \in [bytes: Int, parsed: Nat]
  /\ outcome \in [Conns -> {"none", "inserted", "failed"}]
  /\ due \in [Conns -> Nat] /\ lateHit \in BOOLEAN

Init ==
  /\ live = {} /\ conn = [a \in Conns |-> Cleared]
  /\ connmap = [l \in Buckets |-> <<>>] /\ queue = <<>>
  /\ lpc = "capture" /\ c = None /\ cnew = None /\ captured = 0
  /\ lateHit = FALSE
  /\ tpc = "sleep" /\ at = FirstBucket /\ idx = 1 /\ nap = SweepPeriod
  /\ xpc = "poll" /\ s = None /\ db \in DbOutcomes
  /\ row = [bytes |-> 0, parsed |-> 0]
  /\ outcome = [a \in Conns |-> "none"] /\ due = [a \in Conns |-> 0]

Running == lpc # "crashed"
MutexFree == tpc = "sleep"

----------------------------------------------------------------------------
(* Connection::operator==.  && binds tighter than ||, so the test of sent
   and proto guards the forward direction only. *)
SameFlow(k, m) ==
  /\ k.saddr = m.saddr /\ k.daddr = m.daddr
  /\ k.src_port = m.src_port /\ k.dst_port = m.dst_port

Reversed(k, m) ==
  /\ k.saddr = m.daddr /\ k.daddr = m.saddr
  /\ k.src_port = m.dst_port /\ k.dst_port = m.src_port

(* Mutant: a packet going back does not find its connection. *)
EqualForwardOnly(x, m) == ~x.sent /\ x.key.proto = m.proto /\ SameFlow(x.key, m)

(* x is the connection in the list, m the key of the Listener's c, whose sent
   is always false. *)
Equal(x, m) ==
  \/ ~x.sent /\ x.key.proto = m.proto /\ SameFlow(x.key, m)
  \/ Reversed(x.key, m)

----------------------------------------------------------------------------
(* Listener::start: one turn of its loop.                                  *)

(* c.clear(), c.ts = time(NULL), and the walk over the packet's layers.
   Bounds: MaxPackets, and an address must be left for a possible add(). *)
Capture(p) ==
  /\ lpc = "capture"
  /\ captured < MaxPackets /\ live # Conns
  /\ c' = [key |-> p.key, close_wait |-> p.close_wait, kind |-> p.kind,
           len |-> p.len, age |-> 0]
  /\ captured' = captured + 1
  /\ lpc' = "lookup"
  /\ UNCHANGED <<heapVars, queue, cnew, lateHit, trackerVars, exporterVars,
                 db, due>>

(* The positions of a bucket's list that compare equal to c. *)
Matches(l) == {i \in 1..Len(connmap[l]) : Equal(conn[connmap[l][i]], c.key)}

(* ConnectionTracker::lookup: std::find returns the first match.  The lock is
   released before the pointer is used. *)
Lookup ==
  /\ lpc = "lookup" /\ MutexFree
  /\ LET l == Bucket(c.key)
     IN  \/ /\ Matches(l) = {}
            /\ cnew' = None /\ lateHit' = FALSE
            /\ lpc' = "add"
         \/ \E i \in Matches(l) :
              /\ \A j \in Matches(l) : i <= j
              /\ cnew' = connmap[l][i]
              /\ lateHit' = conn[connmap[l][i]].sent
              /\ lpc' = "mergeClose"
  /\ UNCHANGED <<heapVars, queue, c, captured, trackerVars, exporterVars, db,
                 due>>

(* Mutant: a connection begins open, whatever its first packet says. *)
AddOpen(a) ==
  /\ lpc = "add" /\ MutexFree /\ a \notin live
  /\ live' = live \cup {a}
  /\ conn' = [conn EXCEPT ![a] = [Cleared EXCEPT !.key = c.key, !.age = c.age]]
  /\ connmap' = [connmap EXCEPT ![Bucket(c.key)] = Append(@, a)]
  /\ cnew' = a
  /\ outcome' = [outcome EXCEPT ![a] = "none"] /\ due' = [due EXCEPT ![a] = 0]
  /\ lpc' = "bytes"
  /\ UNCHANGED <<queue, c, captured, lateHit, trackerVars, xpc, s, row,
                 db>>

(* Mutant: the Listener does not take the pointer that add() returns. *)
AddDiscarded(a) ==
  /\ lpc = "add" /\ MutexFree /\ a \notin live
  /\ live' = live \cup {a}
  /\ conn' = [conn EXCEPT ![a] = [Cleared EXCEPT !.key = c.key]]
  /\ connmap' = [connmap EXCEPT ![Bucket(c.key)] = Append(@, a)]
  /\ lpc' = "bytes"
  /\ UNCHANGED <<queue, c, cnew, captured, lateHit, trackerVars, exporterVars,
                 db, due>>

(* ConnectionTracker::add: a copy of c goes to the back of its bucket. *)
Add(a) ==
  /\ lpc = "add" /\ MutexFree
  /\ a \notin live
  /\ live' = live \cup {a}
  /\ conn' = [conn EXCEPT ![a] =
                [Cleared EXCEPT !.key = c.key, !.close_wait = c.close_wait,
                                !.age = c.age]]
  /\ connmap' = [connmap EXCEPT ![Bucket(c.key)] = Append(@, a)]
  /\ cnew' = a
  /\ outcome' = [outcome EXCEPT ![a] = "none"]
  /\ due' = [due EXCEPT ![a] = 0]
  /\ lpc' = "bytes"
  /\ UNCHANGED <<queue, c, captured, lateHit, trackerVars, xpc, s, row,
                 db>>

(* A write through cnew.  After the tracker has erased the connection it goes
   to freed memory, where no live connection sees it. *)
Write(x) == conn' = IF cnew \in live THEN [conn EXCEPT ![cnew] = x] ELSE conn

(* Mutant: the last packet decides. *)
MergedCloseLast(old, new) == new

(* Connection::merge, first store. *)
MergedClose(old, new) == old \/ new

MergeClose ==
  /\ lpc = "mergeClose"
  /\ Write([conn[cnew] EXCEPT !.close_wait = MergedClose(@, c.close_wait)])
  /\ lpc' = "mergeTs"
  /\ UNCHANGED <<live, connmap, queue, c, cnew, captured, lateHit,
                 trackerVars, exporterVars, db, due>>

(* Connection::merge, second store: ts becomes the time of capture. *)
MergeTs ==
  /\ lpc = "mergeTs"
  /\ Write([conn[cnew] EXCEPT !.age = c.age])
  /\ lpc' = "bytes"
  /\ UNCHANGED <<live, connmap, queue, c, cnew, captured, lateHit,
                 trackerVars, exporterVars, db, due>>

CountBytes ==
  /\ lpc = "bytes"
  /\ Write([conn[cnew] EXCEPT !.bytes = @ + c.len])
  /\ lpc' = "data"
  /\ UNCHANGED <<live, connmap, queue, c, cnew, captured, lateHit,
                 trackerVars, exporterVars, db, due>>

(* The first packet's Protocol object stays with the connection; a later one
   only lends it its data and is deleted. *)
SetData ==
  /\ lpc = "data"
  /\ Write([conn[cnew] EXCEPT !.data =
              IF @ = None THEN [kind |-> c.kind, parsed |-> 0] ELSE @])
  /\ lpc' = "parse"
  /\ UNCHANGED <<live, connmap, queue, c, cnew, captured, lateHit,
                 trackerVars, exporterVars, db, due>>

(* conn_data->parse(), then the next packet.  parsed counts these calls. *)
Parse ==
  /\ lpc = "parse"
  /\ Write([conn[cnew] EXCEPT !.data.parsed = @ + 1])
  /\ lpc' = "capture" /\ c' = None /\ cnew' = None /\ lateHit' = FALSE
  /\ UNCHANGED <<live, connmap, queue, captured, trackerVars, exporterVars,
                 db, due>>

(* Both steps call a virtual function of conn_data.  If the connection has
   been erased, and conn_data with it, the call may end the process. *)
StaleCall ==
  /\ lpc \in {"data", "parse"} /\ cnew \notin live
  /\ lpc' = "crashed" /\ c' = None /\ cnew' = None /\ lateHit' = FALSE
  /\ UNCHANGED <<heapVars, queue, captured, trackerVars, exporterVars, db,
                 due>>

(* HTTP::parse() lets the out_of_range of a substr() escape, and nothing
   catches it; OSCAR::parse() may leave a text and read where nothing is: the
   process ends. *)
ParseFails ==
  /\ lpc = "parse" /\ cnew \in live
  /\ conn[cnew].data.kind \in {"HTTP", "OSCAR"}
  /\ lpc' = "crashed" /\ c' = None /\ cnew' = None /\ lateHit' = FALSE
  /\ UNCHANGED <<heapVars, queue, captured, trackerVars, exporterVars, db,
                 due>>

(* OSCAR::parse() may loop for ever; the other threads go on.  So may a parse()
   of a conn_data that has been freed. *)
ParseHangs ==
  /\ lpc = "parse"
  /\ cnew \in live => conn[cnew].data.kind = "OSCAR"
  /\ lpc' = "hung"
  /\ UNCHANGED <<heapVars, queue, c, cnew, captured, lateHit, trackerVars,
                 exporterVars, db, due>>

(* The loop has its cursor in conn_data.  When the tracker has freed that, it
   reads what is there by then: the process may end, or parse() return. *)
HungStale ==
  /\ lpc = "hung" /\ cnew \notin live
  /\ lpc' \in {"crashed", "capture"}
  /\ c' = None /\ cnew' = None /\ lateHit' = FALSE
  /\ UNCHANGED <<heapVars, queue, captured, trackerVars, exporterVars, db,
                 due>>

(* The exporter's pack() walks the list that parse() appends to, and nothing
   keeps the two apart: the process may end. *)
PackRaces ==
  /\ lpc = "parse" /\ cnew \in live
  /\ conn[cnew].data.kind \in {"HTTP", "FTP"}
  /\ xpc = "pack" /\ s = cnew
  /\ lpc' = "crashed" /\ c' = None /\ cnew' = None /\ lateHit' = FALSE
  /\ UNCHANGED <<heapVars, queue, captured, trackerVars, exporterVars, db,
                 due>>

ListenerStep ==
  \/ Lookup
  \/ \E a \in Conns : Add(a)
  \/ MergeClose \/ MergeTs \/ CountBytes \/ SetData \/ Parse \/ StaleCall
  \/ ParseFails \/ ParseHangs \/ PackRaces

----------------------------------------------------------------------------
(* ConnectionTracker::warehouse and cleanup.                               *)

(* sleep(5) is over and lock() succeeds. *)
SweepStart ==
  /\ Running /\ tpc = "sleep" /\ nap = 0
  /\ tpc' = "visit" /\ at' = FirstBucket /\ idx' = 1
  /\ UNCHANGED <<nap, heapVars, queue, listenerVars, exporterVars, db, due>>

AtEnd == idx > Len(connmap[at])
J == connmap[at][idx]

(* Mutant: erased as soon as it is sent. *)
ErasableSent(x) == x.sent

Erasable(x) == x.sent /\ x.exported

Expired(x) == x.close_wait /\ x.age > CloseDelay
(* Mutant: a connection that was sent may be sent again. *)
SendableAgain(x) == Expired(x) /\ ~x.exported
Sendable(x) == ~x.sent /\ Expired(x)

(* Mutant: j is not advanced, so a sweep never leaves a connection it keeps. *)
AdvanceForgotten == idx' = idx

(* j++. *)
Advance == idx' = idx + 1

(* erase(j++): the node, its Connection and conn_data are freed. *)
VisitErase ==
  /\ Running /\ tpc = "visit" /\ ~AtEnd
  /\ Erasable(conn[J])
  /\ connmap' = [connmap EXCEPT ![at] = RemoveAt(@, idx)]
  /\ live' = live \ {J}
  /\ conn' = [conn EXCEPT ![J] = Cleared]
  /\ UNCHANGED <<trackerVars, queue, listenerVars, exporterVars, db, due>>

VisitSkip ==
  /\ Running /\ tpc = "visit" /\ ~AtEnd
  /\ ~Erasable(conn[J]) /\ ~Sendable(conn[J])
  /\ Advance
  /\ UNCHANGED <<tpc, at, nap, heapVars, queue, listenerVars, exporterVars,
                 db, due>>

VisitExpired ==
  /\ Running /\ tpc = "visit" /\ ~AtEnd
  /\ Sendable(conn[J])
  /\ tpc' = "mark"
  /\ UNCHANGED <<at, idx, nap, heapVars, queue, listenerVars, exporterVars,
                 db, due>>

(* Mutants: the counter is reset; exported is set in place of cleared. *)
MarkedReset(x) == [x EXCEPT !.exported = FALSE, !.sent = TRUE, !.bytes = 0]
MarkedExported(x) == [x EXCEPT !.exported = TRUE, !.sent = TRUE]

(* exported = false, then sent = true. *)
Marked(x) == [x EXCEPT !.exported = FALSE, !.sent = TRUE]

Mark ==
  /\ Running /\ tpc = "mark"
  /\ conn' = [conn EXCEPT ![J] = Marked(@)]
  /\ due' = [due EXCEPT ![J] = conn[J].bytes]
  /\ tpc' = "enqueue"
  /\ UNCHANGED <<at, idx, nap, live, connmap, queue, listenerVars,
                 exporterVars, db>>

Enqueue ==
  /\ Running /\ tpc = "enqueue"
  /\ queue' = Append(queue, J)
  /\ tpc' = "visit" /\ Advance
  /\ UNCHANGED <<at, nap, heapVars, listenerVars, exporterVars, db, due>>

(* ++i on the map, whose keys are in increasing order. *)
NextBucket ==
  /\ Running /\ tpc = "visit" /\ AtEnd
  /\ \E l \in Buckets :
       /\ l > at /\ \A m \in Buckets : m > at => l <= m
       /\ at' = l
  /\ idx' = 1
  /\ UNCHANGED <<tpc, nap, heapVars, queue, listenerVars, exporterVars, db,
                 due>>

(* The map is done: unlock() and sleep again. *)
SweepEnd ==
  /\ Running /\ tpc = "visit" /\ AtEnd
  /\ \A m \in Buckets : m <= at
  /\ tpc' = "sleep" /\ at' = FirstBucket /\ idx' = 1 /\ nap' = SweepPeriod
  /\ UNCHANGED <<heapVars, queue, listenerVars, exporterVars, db, due>>

TrackerStep ==
  \/ SweepStart \/ VisitErase \/ VisitSkip \/ VisitExpired \/ Mark \/ Enqueue
  \/ NextBucket \/ SweepEnd

----------------------------------------------------------------------------
(* Exporter::warehouse.                                                    *)

(* Mutant: the exporter waits for a database connection. *)
DequeueWaits ==
  /\ Running /\ xpc = "poll" /\ db
  /\ queue # <<>>
  /\ queue' = Tail(queue) /\ s' = Head(queue) /\ xpc' = "bind"
  /\ UNCHANGED <<heapVars, listenerVars, trackerVars, row, outcome, db,
                 due>>

(* dequeue() returned a connection.  Without a database connection the loop
   goes on at once and the pointer is forgotten.  (A dequeue() that returns
   NULL leads to sleep(1) and changes nothing.) *)
Dequeue ==
  /\ Running /\ xpc = "poll"
  /\ queue # <<>>
  /\ queue' = Tail(queue)
  /\ IF db THEN s' = Head(queue) /\ xpc' = "bind"
           ELSE s' = None /\ xpc' = "poll"
  /\ UNCHANGED <<heapVars, listenerVars, trackerVars, row, outcome, db,
                 due>>

(* The conversion of an unsigned number to the int that setInt() takes. *)
ToInt(n) ==
  LET r == n % (2 * IntLimit) IN IF r < IntLimit THEN r ELSE r - 2 * IntLimit

(* createStatement() if there is none, then the setInt() calls. *)
Bind ==
  /\ Running /\ xpc = "bind"
  /\ row' = [bytes |-> ToInt(conn[s].bytes), parsed |-> 0]
  /\ xpc' = "pack"
  /\ UNCHANGED <<heapVars, queue, listenerVars, trackerVars, s, outcome, db,
                 due>>

(* conn_data->pack(), read while the Listener may be parsing. *)
Pack ==
  /\ Running /\ xpc = "pack"
  /\ row' = [row EXCEPT !.parsed =
               IF conn[s].data = None THEN 0 ELSE conn[s].data.parsed]
  /\ xpc' = "execute"
  /\ UNCHANGED <<heapVars, queue, listenerVars, trackerVars, s, outcome,
                 db, due>>

(* executeUpdate() with auto-commit. *)
Execute ==
  /\ Running /\ xpc = "execute"
  /\ outcome' = [outcome EXCEPT ![s] = "inserted"]
  /\ xpc' = "flag"
  /\ UNCHANGED <<heapVars, queue, listenerVars, trackerVars, s, row, db,
                 due>>

(* Mutant: the loop goes on after a failure, as it does without a database. *)
QueryFailsContinue ==
  /\ Running /\ xpc \in {"bind", "pack", "execute"}
  /\ outcome' = [outcome EXCEPT ![s] = "failed"]
  /\ xpc' = "poll" /\ s' = None
  /\ row' = [bytes |-> 0, parsed |-> 0]
  /\ UNCHANGED <<heapVars, queue, listenerVars, trackerVars, db, due>>

(* One of the calls throws: the Statement is deleted, the row is gone. *)
QueryFails ==
  /\ Running /\ xpc \in {"bind", "pack", "execute"}
  /\ outcome' = [outcome EXCEPT ![s] = "failed"]
  /\ xpc' = "flag"
  /\ UNCHANGED <<heapVars, queue, listenerVars, trackerVars, s, row, db, due>>

(* setExported(true), after success and failure alike. *)
SetExported(x) == [x EXCEPT !.exported = TRUE]

Flag ==
  /\ Running /\ xpc = "flag"
  /\ conn' = [conn EXCEPT ![s] = SetExported(@)]
  /\ xpc' = "poll" /\ s' = None
  /\ row' = [bytes |-> 0, parsed |-> 0]
  /\ UNCHANGED <<live, connmap, queue, listenerVars, trackerVars,
                 outcome, db, due>>

ExporterStep ==
  Dequeue \/ Bind \/ Pack \/ Execute \/ QueryFails \/ Flag

----------------------------------------------------------------------------
(* An age, which saturates at the bound MaxAge. *)
Older(n) == IF n < MaxAge THEN n + 1 ELSE n

(* A second passes, whatever the threads are doing. *)
Tick ==
  /\ conn' = [a \in Conns |-> IF a \in live
                              THEN [conn[a] EXCEPT !.age = Older(@)]
                              ELSE conn[a]]
  /\ c' = IF c = None THEN None ELSE [c EXCEPT !.age = Older(@)]
  /\ nap' = IF nap > 0 THEN nap - 1 ELSE 0
  /\ UNCHANGED <<live, connmap, queue, lpc, cnew, captured, lateHit, tpc, at,
                 idx, exporterVars, db, due>>

Next ==
  \/ \E p \in Packets : Capture(p)
  \/ ListenerStep \/ HungStale
  \/ TrackerStep
  \/ ExporterStep
  \/ Tick

Spec == Init /\ [][Next]_vars

(* Every thread keeps being scheduled, time passes, and the Listener finishes
   the packet it has, unless it hangs; nothing obliges a packet to arrive, nor a
   hung parse() to end.  The Listener gets the mutex when it is free again and
   again, for SweepPeriod seconds each time. *)
Fairness ==
  /\ WF_vars(Tick)
  /\ WF_vars(ListenerStep)
  /\ SF_vars(Lookup \/ \E a \in Conns : Add(a))
  /\ WF_vars(TrackerStep)
  /\ WF_vars(ExporterStep)

FairSpec == Spec /\ Fairness

----------------------------------------------------------------------------
Queued(a) == \E i \in 1..Len(queue) : queue[i] = a
Held(a) == xpc # "poll" /\ s = a
BeingSent(a) == tpc = "enqueue" /\ J = a

(* A connection that the tracker hands over is in one place at a time: about
   to be queued, in the queue once, or in the exporter's hands.  As long as it
   is there it is allocated, sent and not yet exported, so neither the
   exporter's reads nor its setExported() can meet an erased connection. *)
Custody ==
  /\ \A i, j \in 1..Len(queue) : queue[i] = queue[j] => i = j
  /\ \A a \in Conns :
       /\ Queued(a) \/ Held(a) \/ BeingSent(a) =>
            a \in live /\ conn[a].sent /\ ~conn[a].exported
       /\ ~(Queued(a) /\ Held(a))
       /\ BeingSent(a) => ~Queued(a) /\ ~Held(a)

(* With a database connection no sent connection is forgotten: until it is
   exported the queue, the tracker or the exporter has it. *)
NotForgotten ==
  db => \A a \in live : conn[a].sent /\ ~conn[a].exported =>
                            Queued(a) \/ Held(a) \/ BeingSent(a)

(* The tracker's map never holds two connections for the same traffic: no two
   connections of opposite direction, and at most one unsent connection of a
   direction and protocol.  lookup() and add() are two critical sections, with
   the tracker's sweeps between them. *)
UniqueFlow ==
  \A a, b \in live : a # b =>
    /\ ~Reversed(conn[a].key, conn[b].key)
    /\ ~(/\ ~conn[a].sent /\ ~conn[b].sent
         /\ conn[a].key.proto = conn[b].key.proto
         /\ SameFlow(conn[a].key, conn[b].key))

(* The row inserted for a connection counts at least every byte the Listener
   had counted when the tracker decided to send it, unless the counter has come
   to a number that an int does not hold. *)
RowCoversDue ==
  xpc \in {"pack", "execute"} /\ conn[s].bytes < IntLimit =>
    row.bytes >= due[s]

(* A pointer lookup() returned for a connection that was not yet sent stays
   good for a whole sweep period: the sweep that marks it cannot erase it, and
   the next one is a sleep(5) away.  (For a connection already sent there is no
   such promise.) *)
FreshPointerSafe ==
  Using /\ ~lateHit /\ c.age < SweepPeriod => cnew \in live

(* A connection is inserted in the log at most once in its life. *)
RowAtMostOnce == xpc \in {"bind", "pack", "execute"} => outcome[s] = "none"

(* Where the connection at an address is in its life, and that it passes from
   one stage to the next as LifeCycle says. *)
Stage ==
  [a \in Conns |->
    IF a \notin live THEN "free"
    ELSE IF ~conn[a].sent THEN "open"
    ELSE IF ~conn[a].exported THEN "sent" ELSE "settled"]

Cycle == INSTANCE LifeCycle WITH stage <- Stage

(* Three threads, of which two write to a connection without a lock, make each
   connection pass from being open over sent and settled to freed: it settles
   only when its row was inserted or refused, which happens once, and it never
   goes back. *)
Lives == Cycle!Spec

(* No connection is freed before its row was inserted or refused. *)
FreedAfterOutcome ==
  [][\A a \in live \ live' : outcome[a] # "none" /\ conn[a].exported]_vars

(* With a database connection every sent connection is freed in the end. *)
SentFreed ==
  \A a \in Conns :
    db /\ a \in live /\ conn[a].sent ~> a \notin live \/ ~Running

(* Once a FIN or RST has been merged, the connection is sent in the end (packets
   stop after MaxPackets: one every CloseDelay seconds would keep it open). *)
ClosedSent ==
  \A a \in Conns :
    a \in live /\ conn[a].close_wait ~>
      a \notin live \/ conn[a].sent \/ ~Running

(* A packet with FIN or RST is never lost on the way from the Listener, which
   finds or makes its connection, to the tracker, which reads close_wait at a
   time of its own: a connection of its flow is handed over in the end. *)
FinSent ==
  \A k \in {p.key : p \in Packets} :
    lpc = "lookup" /\ c.close_wait /\ c.key = k ~>
      \/ \E a \in live : /\ conn[a].sent
                         /\ SameFlow(conn[a].key, k) \/ Reversed(conn[a].key, k)
      \/ ~Running

(* What is queued is taken, also when there is no database and no use for it:
   the queue does not grow for ever. *)
Drained == \A a \in Conns : Queued(a) ~> ~Queued(a) \/ ~Running

(* Every sweep ends, and gives the mutex back. *)
SweepEnds == ~MutexFree ~> MutexFree \/ ~Running
============================================================================
