# Verification of csharker

csharker is a passive sniffer: it captures packets, groups them into
connections, and inserts one row per closed connection into an Oracle table.
This directory holds TLA+ models of it, the configurations that check them with
TLC, and proofs checked by TLAPS. Paths below are relative to `src/src/`.

## The system

Three threads run for the life of the process; `Listener::start()` creates the
other two and never returns.

| component | state | operations | thread |
|---|---|---|---|
| capture loop, `Listener.cpp` | local `c`, `cnew`, `cur` | per packet: clear `c`, walk the layers, `lookup`, `add` or `merge`, count bytes, `parse` | Listener (main) |
| connection tracking, `conntrack.*`, `connection.*` | `_connmap`: a list of `Connection` per `saddr ^ daddr`; `_mutex` | `add`, `lookup` (called by the Listener), `cleanup` every 5 s | Listener, tracker |
| export queue, `tsqueue.h` | a linked list with a dummy node, `fst`, `lst` | `enqueue` (tracker), `dequeue` (exporter); no lock | tracker, exporter |
| exporter, `exporter.*` | `s`, `sth`, `_conn` | dequeue, bind, `executeUpdate`, `setExported(true)` | exporter |
| protocol layers, `Packet` to `TCP` | a window of the captured bytes | `next`, `header_length`, `nextProto`, `make_track` | Listener |
| parsers, `HTTP`, `FTP`, `OSCAR` | collected lines | `parse` (Listener), `pack` (exporter) | Listener, exporter |
| billing, `externals/oracle/billing.*` | session pool, `__mutex`; per instance a session, a statement, a result set | `yieldConnection`, the query functions, `cancelRequest`, `terminateStatement`, `releaseConnection` | any; the exporter's instance is made at startup |
| checksums, `Listener.cpp:62-116` | `sum`, `temp`, `len` | `chksum`, `ip_chksum`, `tcp_chksum` | only `test()`, which is not called |
| `tlvfile`, `utils`, `sharker.cpp`, `protos/` | - | no operation the running program uses | - |

The threads share the map (under `_mutex`), the fields of the connections (under
no lock: the Listener writes `close_wait`, `ts`, `bytes` and `conn_data`
through the pointer it got, the tracker `sent` and `exported`, the exporter
`exported`) and the queue (no lock). What is hard: a pointer is used after the
lock is released; the tracker frees what the other threads may hold; a
connection's life is spread over several sweeps; the queue relies on the order
of its stores; a query may fail and the database may be missing; a parser may
throw or loop; a session must come back to the pool whichever call throws or is
cancelled. `PROJECT.json` lists these hazards line by line.

What makes each component correct:

- tracking: one connection per flow and direction-insensitive lookup; nothing
  freed before its row's fate is decided; a pointer just looked up stays good;
- hand-over: a sent connection is in exactly one place until it is exported, is
  inserted at most once, with every byte counted when it was sent, and is freed
  in the end;
- queue: an atomic first-in first-out queue without leaks or use after free;
- layers: the window never leaves the frame; both directions of a flow get
  mirrored keys; a FIN or RST is never lost;
- billing: a session is with one instance or in the pool; a query that returns 0
  delivered its whole result; no statement outlives its query;
- checksums: no carry is lost, and what is summed is what the standard sums;
- parsers: no length in a payload moves the cursor out of it, every turn of a loop
  gets on, and what is recorded is what the payload's lines say.

## Modules

| module | models |
|---|---|
| `ConnTrack` | the three threads and the life of a connection |
| `MCConnTrack` | instances of it; the idle-timeout property |
| `LifeCycle` | the abstract life of a connection, which `ConnTrack` implements |
| `MCConnTrackHTTP` | `ConnTrack` composed with the packets `Layers` makes of an HTTP exchange |
| `ConnTrackProofs` | its type invariant, safety properties and refinement, proved |
| `ExportFIFO` | the abstract queue |
| `TSQueue`, `MCTSQueue` | the lock-free list, store by store |
| `TSQueueProofs` | its invariant and that it implements `ExportFIFO` |
| `Layers` | operators: the accessors and one turn of the Listener's inner loop |
| `Dissect`, `MCDissect` | frame after frame through the layers |
| `DissectProofs` | its invariants, for frames of any length and content |
| `Oscar`, `MCOscar` | `OSCAR::parse()`, reader by reader |
| `Strings` | operators: what the text parsers use of `std::string` |
| `HTTP`, `MCHTTP` | `HTTP::parse()`, one turn of its loop a step |
| `HTTPProofs` | what it records, when it ends and that it does, for payloads of any length |
| `FTP`, `MCFTP` | `FTP::parse()`, likewise |
| `FTPProofs` | what it keeps and that its loop ends, for payloads of any length |
| `OscarProofs` | its invariants and its rank, for payloads of any size |
| `SessionPool` | the abstract pool of database sessions |
| `Billing`, `MCBilling` | instances that share the pool, query it and end |
| `BillingProofs` | its invariants and that it implements `SessionPool` |
| `Checksum`, `MCChecksum` | `chksum()` word by word, and what its callers hand over |
| `ChecksumProofs` | its invariants, for data of any length |

### ConnTrack

`conn` maps addresses to `Connection`s, `live` says which are allocated,
`connmap` is `_connmap`, `queue` the export queue in its abstract form (that
`TSQueue` implements it is proved). Each thread has a program counter:

- Listener, `lpc`: `Capture` (Listener.cpp:189-208), `Lookup` and `Add` (one
  step each: what they read is written only with the mutex held), then one step
  per unlocked access: `MergeClose`, `MergeTs`, `CountBytes`, `SetData`,
  `Parse`. `StaleCall` is a virtual call through a freed connection,
  `PackRaces` a `parse()` that meets the exporter's `pack()` in the same
  `std::list` (exporter.cpp:49) and may end the process, `ParseFails` the
  exception `HTTP::parse()` lets escape, or `OSCAR::parse()` beyond its text,
  `ParseHangs` the loop `OSCAR::parse()` may not leave. The tracker may free that
  `conn_data` meanwhile; from then on the loop reads freed memory, and `HungStale`
  lets it end the process or return, without obliging it to.
- tracker, `tpc`: `SweepStart`, then `VisitErase`, `VisitSkip` or `VisitExpired`
  with `Mark` and `Enqueue` for each connection, `NextBucket`, `SweepEnd`. The
  critical section is many steps, because the unlocked fields change meanwhile.
- exporter, `xpc`: `Dequeue`, `Bind`, `Pack`, `Execute` or `QueryFails`, `Flag`.
- `Tick`: a second passes.

`ToInt` is what `setInt()` makes of a counter: from `IntLimit` (2^31 in the code)
on the row holds a negative number, so `RowCoversDue` speaks of the connections
below it.

`LifeCycle` is what all this comes to: a connection is open, sent, settled (its row
inserted or refused) and freed, in this order, and its row is decided once.
`Stage` maps the fields to it; `Lives` says that every step of every thread is a
step of the cycle or none.

`MCConnTrackHTTP` gives `ConnTrack` the packets that `Layers!Result` makes of a
request and its answer on port 80. The second `make_track()` turns one exchange into
four pairs of ports and reads `close_wait` off the text; `FinSent` says what survives
that: whatever reads as FIN has a connection of its key handed over.

`Equal` is `Connection::operator==` with the precedence C++ gives it: `sent` and
`proto` guard the forward direction only.

Abstractions. `start` is left out. Ages replace time stamps, and saturate at
`MaxAge`. A write through a pointer to a freed connection reaches no live
connection (it may damage the heap; the model tracks only whether the pointer is
stale). Strings and parsed data are a count of `parse()` calls. What a packet's
layers yield is the constant `Packets`; how they yield it is `Dissect`. History
variables `outcome`, `due` and `lateHit` are read by no action.

### TSQueue

Every load and store of `enqueue()` and `dequeue()` is a step. Nodes come from a
finite pool and are used again, with whatever was left in them. Stores take
effect in source order: the model covers the processor (x86 keeps the order of
the producer's stores) and not a compiler that reorders them. The refinement
mapping: the queue is the `data` of every linked node but the dummy; `enqueue`
takes effect at `Link`, `dequeue` at `DeleteReturn`.

### Layers and Dissect

A `Protocol` object is a class and a window of the frame (`layer`, `off`, `len`);
a `Walk` adds what the Listener's `c` has so far. `Turn` is one turn of the loop
in Listener.cpp:198-208: `Tracked` (`make_track()`), `NextProto`, and `Skip`
(`next()`). `Capture` is the start of a packet, `Descend` a turn. Classes inherit
as in the code, which shows in what they do:

- `HTTP` and `FTP` inherit `is_trackable()` and `make_track()` from `TCP`, so
  they run on the payload and replace the ports by its first four bytes, and may
  set `close_wait`: packets of one port-80 flow get different keys.
- `IP::header_length()` masks with 0x15, not 15: right for headers of five words,
  wrong for most others. `HeaderBound` says on which side it errs: TCP is read
  from within the IP header or from its end, never from behind it.
- The accessors read without looking at the length, up to `Overread` bytes
  behind the frame; what is there is part of the frame's constant.

The properties about ports therefore speak of `Plain` packets: IPv4 without
options, complete, not on the ports of `HTTP` and `FTP`. The reference they are
compared with has the fields at the offsets of the standards. The filter of
Listener.cpp:43 normally lets only port 80 through; the model takes every frame,
as the classes do.

### Oscar

`cur` is `__data`: how many bytes lie before and behind the cursor. `Take` is
`u8()` to `u32l()`, `String` is `string()`; both leave the cursor alone when there
is too little. What a field says is chosen when it is read (`Got`: 0 when there is
too little), so a payload is a size and a sequence of choices, and reading the
same bytes again after `__data = sav1` may choose differently: more behaviours
than the code has, never fewer. Of texts it matters only whether they are empty.

| locations | code |
|---|---|
| `flap`, `snac` | `parseFLAP()`; `parseSNAC()` and `parseF4()` |
| `s6`, `s7`, `block` | `parseF4S6()`, `parseF4S7()`, `tlvBlock()` |
| `tlv1`, `fragment` | `parseF4S6C1()`: its two loops |
| `tlv2`, `sub` | `parseF4S6C2()`: its two loops |
| `capability`, `generic`, `text`, `utf8`, `endsub` | the body of the loop over sub-TLVs |

Each turn of a loop is a step. The build of `src/Makefile.am` defines `DEBUG` and
uses `-O0`: an unknown TLV is dumped byte by byte as far as there are bytes, where
`string(len)` would skip all or nothing; and `parse1()`, `parse3()` to `parse5()`
and `parseFLAP()`, which end without the `return` they owe, just return.

The parser does not always return. `Starved` names the places where it stays:
fragments that claim more than the packet has, a last byte among sub-TLVs, and
`spc_utf8_isvalid()`, which cannot pass an ASCII character, because `nb` is -1 when
it is added. For a first byte of 0xFE or 0xFF no branch sets `nb` (OSCAR.cpp:219-225):
by what it happens to hold, `utf8_valid()` returns either way, stays, or ends the
process (`crashed`). `Returns` says that these are all; what the process does then is
`ParseHangs` and `ParseFails` of `ConnTrack`.

### Strings, HTTP and FTP

A string is a sequence of single characters and of words that the parsers compare
as a whole (`GET`, `Host`, `HTTP/`). All offsets the code computes lie next to a
character, so positions in words are positions in characters. `npos` is -1: as a
start it is out of range and `substr()` throws, as a length it is the rest. `pos`
and `to` live for a turn; what outlives one is a variable: `lend` and the request in
`HTTP`, `last` in `FTP`.

`Start` and `Fields` are HTTP.cpp:25-84, `HeaderLine` is a turn of the loop, `Throw` an
exception, which nobody catches. The reference (`Expected`, `Malformed`) is written
without the parser's searches: the lines of a payload, a shape of the first, the
first line that begins with `Host:`. `Malformed` has the payloads that end the
process: a blank behind the URI and nothing after it, which the test of `to` at
HTTP.cpp:77 does not catch, and a `Host` with no name in it, which `chomp()` does not
expect. A name that follows the colon without a blank loses its first character,
in the code, in the model and in the reference.

`FTP` drops the character before a line end without looking at it; `TextKept`
therefore speaks of payloads whose lines end in CR LF. `LinesKept` speaks of all, but
only of how many entries a packet adds: of a line that is a bare line feed the
length is `npos`, and its entry has all that is left of the payload, which the
entries behind it repeat.

### SessionPool and Billing

A user is a thread that makes a `BillingInstance`, queries with it and destroys it.
`TryLock`, `Get`, `GetFails` and `Unlock` are `yieldConnection()`; `Lock`, `Put` and
`Release` the destructor's `releaseConnection()`. A query function is the list of
Oracle's calls in its `try` block (`Prepare`, `Rows`) and whether the
`terminateStatement()` behind it has a `try` block of its own; `Proceed` and `Fetch`
make a call, `Throw` is any of them failing, `Cancel` the failure that
`cancelRequest()` of another thread brings about, `Terminate` and `TerminateThrows`
the end. The two `SQL()` let an exception of `terminateStatement()` out: the
caller unwinds, and the instance is destroyed. An instance that got no session
answers every query with 0 and does nothing, which is no step. This program makes
one instance, when the Listener starts; that users meet in the pool is what the
library's interface, mutex and pool of 15 sessions are made for. A session that
the pool refuses to take back is lost.

`Implements` maps this to `SessionPool`: a session leaves the pool for one user and
comes back from that user, at `Get` and `Put`, whatever happens between.

### Checksum

`chksum()` a word a step: `AddWord`, `OddByte`, `Finish`. `ip_chksum` and `tcp_chksum`
are what its callers hand to it; a datagram is its bytes. An `unsigned long` has
`LongSize` bytes (4 on the i686 of `config.log`), with which the pseudo header has the
standard's size; with 8 it has padding of unknown content (`Junk`), which is
summed too, so `SumsMeant` speaks of 4. `Passed` is the conversion of the length to
`unsigned short`. The reference sums without folding (`total`), and knows the
standard's pseudo header (`Standard`).

## Runs

| run | question | bounds |
|---|---|---|
| `ConnTrackSafety` | types, pointers, rows and the life cycle for one flow in both directions, FIN from either side, with and without database | 2 connections, 3 packets, ages to 3, close delay 1, sweep period 2 |
| `ConnTrackFlows` | the hand-over, and one connection per flow, with two flows in one bucket | 3 connections, 3 packets |
| `ConnTrackLive` | closed connections are sent, sent ones freed, the queue drained, sweeps end | 2 connections, 2 packets, a parser that may hang |
| `ConnTrackHTTP` | what the packets of an HTTP exchange close is sent | 2 connections, 2 packets of 4, ages to 1, no close delay, sweep period 1 |
| `ConnTrackIdleIP` | does the five-minute timeout close anything? (no) | 1 datagram |
| `Dissect` | what the layers add to the key, where they read, that the walk ends | more than 400 frames, in any order |
| `Oscar` | bounds and progress of the message parser | payloads up to the sizes of `MCOscar`, 1 message |
| `HTTP` | what is recorded of a payload, and what ends the process | about 900 payloads of up to three lines, two one after another |
| `FTP` | one entry per line end and one behind the last; whole lines where they end in CR LF | all payloads of up to 5 characters of 3 kinds, until two lines are kept |
| `TSQueue` | memory safety, leaks, refinement of the FIFO; what is queued is taken | 4 nodes, 2 values |
| `Billing` | sessions, results and statements under failing calls; refinement of the pool; the mutex is given back, queries end | 2 users, 2 sessions, up to 2 rows, no parameters |
| `Checksum` | folding, odd lengths, options, the pseudo header | bytes 0, 1 and 255, up to 5 of them; packets with 5, 6 and 15 words of header and up to 2 bytes of payload |

Bounds. Three packets and two addresses let a connection be sent, hit by a late
packet of either direction, freed, and its address used again for the same flow;
the delays keep the code's order (a sweep period longer than the close delay,
ages that exceed both). Four nodes let the producer be two nodes ahead while the
consumer deletes one and the address is allocated again. `Capture` waits when
`MaxPackets` is reached or no address is free: a bound, not behaviour.

`IntLimit` is 2 or 3, so that counters pass it. `ConnTrackHTTP` keeps the state
space small with delays that are as short as the order of events allows; what it
checks does not depend on how the two delays compare. In `Billing` the pool is empty
when both sessions are in use or one was refused when it came back, and
`getConnection()` may fail at any time; the proofs have any number of users.

The frames of `MCDissect` have both ether types, headers of 5, 6 and 15 words, TCP
and UDP, each pair of ports that chooses a class, data offsets up to 15, FIN and
RST apart and absent, payloads that read as zeros, as port 21 or as flags, and
lengths that end in every header. Addresses stay below 128.0.0.0, which TLC's
integers hold. The proofs need none of these bounds.

`MCOscar` chooses payload sizes that end in every field of a message and let one
TLV of each kind, with a fragment or a sub-TLV in it, be complete; the lengths
include 0, odd and even ones that fit, 27 (the length of a generic message) and
65535, more than any payload has; a fragment longer than its TLV makes `len` wrap.
`MaxMessages` bounds `_data.size()`: `Receive` waits when it is reached, which is why
the run does not look for deadlocks.
`MaxLines` does the same for `HTTP` and `FTP`, and an exception ends `HTTP`.

Fairness. `FairSpec` assumes only that each thread keeps being scheduled and that
time passes (`WF` of each thread's step and of `Tick`); no packet has to arrive, and a
`parse()` that hangs has to do nothing.
The code's threads never wait for one another except for `_mutex`, and sleep for
bounded times. The Listener's two critical sections have strong fairness: between
two sweeps `_mutex` is free for `SweepPeriod` seconds (conntrack.cpp sleeps 5), so a
Listener that waits for it gets it in one of these pauses. `TSQueue!FairSpec` assumes
only that the exporter polls, and `Dissect!FairSpec`, `Oscar!FairSpec` and
`HTTP!FairSpec` that the Listener goes on with a packet it has.
`Billing!FairSpec` assumes that each thread goes on with what it has begun and that
the database answers or throws. It promises nothing to a `releaseConnection()`
that waits for the mutex while others keep taking it.
`SentFreed` and `NotForgotten` speak of a process with a database connection:
without one the exporter drops what it dequeues (exporter.cpp:34-36), and
nothing is promised. All liveness properties exempt a process that has ended.

`ConnTrackIdleIP` records a disagreement: IP.cpp:113 announces a timeout of five
minutes, but `closeConnection()` has no caller.

`NodeSymmetry` permutes addresses, which no action orders; the liveness runs do not
use it.

## Proofs

For all constants that satisfy `ConstantsAssumption` (and `XorSymmetric`, which
exclusive or does):

- `Types` proves `TypeOK` with two strengthenings: the tracker's
  position is inside its list while it hands a connection over, and `conn_data`
  is set when `parse()` is called.
- `MapConsistent`: the lists hold exactly the allocated connections, each once,
  in the bucket of its key. Everything below needs it: the connection a sweep is
  at is allocated, and `erase` shifts only what lies behind it.
- `CustodyHolds` strengthens `Custody` with `MarkUnsent` (the connection between
  the tracker's test and its mark is still unsent): only the tracker sets `sent`,
  so what it queues was in no other place.
- `NothingForgotten`, `OneRow`, `NoEarlyFree`, `RowCounts` follow from custody:
  each step moves a connection from one holder to the next; `OutcomeOK` and
  `DueOK` are the inductive forms that speak of all allocated connections.
- `OnePerFlow` rests on `StillMissing`: between `lookup()` and `add()` nobody
  else adds, and what did not compare equal does not come to do so (sweeps only
  erase or mark as sent), so the critical sections can be separate.
- `FreshPointers` rests on `FreshOK`: a connection sent after the lookup lies
  behind the sweep in progress, and after that sweep `SweepPeriod - nap` bounds
  the age of the Listener's turn from below.
- `ImplementsLifeCycle`: each step of a thread is a step of `LifeCycle` or a
  stutter. A connection settles with a decided outcome because `OutcomeOK` says
  what the exporter's position implies, and is sent from `open` because of
  `MarkUnsent`; the steps of the Listener stutter, but for `Add`.
- `TSQueueProofs`: `ListInv` describes the chain from `lst` to `fst`; from it
  memory safety, absence of leaks and, step by step, `Spec => Implements`.
- `DissectProofs`, from `FramesAssumption` alone: `WindowSafe` from `Inside`; then
  `Path`, which says for each layer what a walk knows there (nothing before IP,
  addresses after it, ports and flags after TCP, for HTTP and FTP only what
  survives their second `make_track()`). `TurnPath` shows that a turn keeps it,
  layer by layer; `PlainCorrect`, `AddressesCorrect` and `CloseCorrect` read it
  off a finished walk. `MirrorCorrect` also needs that five turns finish any walk
  (`ResultDone`) and that the reference of a mirrored frame is mirrored.
  `HeaderNotLonger` knows where each window begins (`Begins`) and that masking
  lowers the length (`MaskLowers`).
- `OscarProofs`, from `OscarAssumption` alone: every composition of readers leaves
  the cursor `Behind` where it was, in the same payload; hence `WindowKept`. `len` is
  counted modulo `Width`, so what a fragment takes keeps `FragmentsCounted`
  (`RestCounts`). `Rank` is 16 times the bytes ahead, plus the depth of the
  location, plus the turns `tlvBlock()` has left; in a sub-TLV the bytes ahead are
  those behind `sav1`, because the cursor will be set back. `ParseKept` shows,
  function by function, that a step lowers it or changes nothing (`EveryTurn`).
  `Room` is the only strengthening: the bound of `Receive` holds during a parse.
- `BillingProofs`, from `BillingAssumption` alone: `SessionsExclusive` needs that a
  held session is not in the pool except between `Put` and `Release`, when the
  mutex keeps everybody from taking it; `ResultsComplete` that while a query has
  not failed, the rows left are known once its statement is executed and zero behind the loop;
  `StatementsEnd` that an open statement is the one of the session's user.
  `ImplementsPool` follows from these step by step.
- `ChecksumProofs`, from `ChecksumAssumption` alone: `Folded` says that `sum` and `total`
  leave the same remainder modulo 65535; a folding takes away 65535 or nothing
  (`FoldFacts`), and the sum is below twice 65536 whenever one is due. `SumsRight`
  adds `Progress`: behind an even number of bytes (until the odd one) the rest of
  `meant` is ahead and `total` is what the prefix comes to. `BytesMeant` is why the
  callers hand over what they mean: `Long` adds nothing to four bytes, and a
  pseudo header with its segment is shorter than its datagram, so that
  `unsigned short len` holds its length.
- `HTTPProofs`, from `BodiesAssumption` alone (payloads are sequences of words and
  characters). `Recorded` compares `parse()` with a reference that is not written
  with its searches, so each search is first shown to find the first or last place
  (`FirstOf`, `FirstNotOf`, `LastNotOf`), `chomp()` to leave the text trimmed (`Chomped`)
  and the URI, its end and the version to be the only shape of the line
  (`OneShape`). The inductive invariant is `Inv`: within the loop the request is the one
  the first line makes (`Asked`), and every Host line begins at or behind `lend`
  (`Ahead`), so that a Host line is never passed over and the first one decides.
  `EndsRight` follows from the same steps: a throw finds the payload malformed, and a
  return finds it well formed.
- `FTPProofs`, from its `BodiesAssumption` alone: within the loop one line was added
  for each line end up to `last` (`OneMore`), and if the payload obeys the protocol,
  the lines added, each with its CR LF, are the payload up to `last` (`Whole`). A cut
  at a line end extends both (`WholeAppend`), and the rest completes them.
- The loops of the code get on. These theorems are the safety half of liveness
  properties: each step of a loop lowers a measure that cannot fall for ever. What
  is left to fairness is that the step is taken.
  - `LoopGetsOn`, of `HTTP` and of `FTP`: a turn moves `lend` or `last` forward, but
    not beyond the payload.
  - `EveryTurn`, of `Oscar`: by `Rank`, above.
  - `SweepsGetOn`: a step of a sweep ends it, comes to a later bucket, leaves a
    place of its list behind, or goes from visit to mark to enqueue. Nobody adds to
    the list meanwhile, because `add()` needs the mutex.
  - `WalksGetOn`: a class hands on to a later one only (`GoUp`), so at most five
    turns are ahead of a walk (`TurnsLeft`).
  - `QueriesGetOn`: a call of a query function is followed by the next one, and a row
    by one row less; `LoopInv` says that their number is known in the loop.
- `TypeCorrect` is the type invariant of each module but `HTTP` and `FTP`, whose types are
  in `Inv`; only `ConnTrack`'s is
  checked by a run as well. `OneRow` and `NoEarlyFree` restate parts of the life
  cycle for themselves.

Only model-checked: the liveness properties (`SentFreed`, `ClosedSent`, `FinSent`,
`Drained`, `SweepEnds`, `ImplementsFair`, `WalkEnds`, `MutexReturned`, `QueryReturns` and both
`Returns`), which are beyond the prover, and `IdleIPCloses`, which is violated.
Every safety property of a passing run is a theorem.

Sums and joined lines are recursive functions over sequences of any length. That
such a function exists, and what one element more adds, needs induction, and the
library's induction theorems cannot be instantiated; the proofs use instead
that a set of natural numbers has a least element (`Least`, from `WFMin` of
`WellFoundedInduction`): a first place where two functions differ, or up to
which there is none, is a contradiction. The modules that need it prove it each
for itself.

## Not modelled

`close()`, `internal_close()`, `operator()`, `TLVFile::append()`, the conversions of
`utils`, `IP::parse()`, `test()` and `terminateRequest()` have no caller in the program;
destructors of the long-lived objects cannot run, since `start()` does not
return, so `~Billing()` does not either. `protos/` is not built: its scanner and its
`http_driver.hh` are not in the repository. `pcap/test` prints lengths. Opening the
device, the raw socket and logging are input and output. Of data races the models have the outcomes: the fields
that two threads share are read and written one at a time, and the race inside
`std::list` is `PackRaces`.

## Plan

1. What `pack()` puts into a row, which the models count but do not spell.
2. How much a connection may keep: `FTP` keeps n*n/2 characters of n bare line ends,
   and `OSCAR` every message.
3. `ParseHangs` and `ParseFails` of `ConnTrack` only where `Oscar` starves or
   crashes.
