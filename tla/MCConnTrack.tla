---------------------------- MODULE MCConnTrack ----------------------------
(* Small instances of ConnTrack for TLC. *)
EXTENDS ConnTrack

CONSTANTS
  n1, n2, n3,
  FlowKind,   (* the class whose parse() the packets of a TCP flow end in *)
  IPTimeout   (* 300 in the code: seconds after which an IP track is idle *)

NodeSymmetry == Permutations(Conns)

(* The exclusive or of two addresses below 4. *)
XorBits(a, b) ==
  2 * (((a \div 2) + (b \div 2)) % 2) + ((a + b) % 2)

Flow(proto, from, to, sport, dport) ==
  [proto |-> proto, saddr |-> from, daddr |-> to,
   src_port |-> sport, dst_port |-> dport]

Packet(key, fin, kind) ==
  [key |-> key, close_wait |-> fin, kind |-> kind, len |-> 1]

(* One TCP flow seen in both directions, closed by either side. *)
OneFlow ==
  LET there == Flow(6, 1, 2, 5, 8)
      back == Flow(6, 2, 1, 8, 5)
  IN  {Packet(there, FALSE, FlowKind), Packet(back, FALSE, FlowKind),
       Packet(there, TRUE, FlowKind)}

(* Two flows that share the bucket 3 = 1 ^ 2 = 0 ^ 3. *)
TwoFlows ==
  LET there == Flow(6, 1, 2, 5, 8)
      back == Flow(6, 2, 1, 8, 5)
      other == Flow(6, 0, 3, 5, 8)
  IN  {Packet(there, TRUE, FlowKind), Packet(back, FALSE, FlowKind),
       Packet(other, TRUE, FlowKind)}

(* A UDP packet: the walk ends at the IP layer, which knows no ports. *)
Datagram == {Packet(Flow(7, 1, 2, 0, 0), FALSE, "IP")}

(* IP::closeConnection: the code's words are "5 minutes IP conntrack timeout".
   A connection that ends at the IP layer and sees no packet for that long is
   closed, that is, handed over or freed. *)
IdleIPCloses ==
  \A a \in Conns :
    /\ a \in live /\ conn[a].data # None
    /\ conn[a].data.kind = "IP" /\ conn[a].age > IPTimeout
    ~> a \notin live \/ conn[a].sent \/ ~Running
============================================================================
