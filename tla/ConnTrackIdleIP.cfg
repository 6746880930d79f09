SPECIFICATION FairSpec
CONSTANTS
  n1 = n1
  n2 = n2
  n3 = n3
  None = None
  Conns = {n1, n2}
  Hosts = {0, 1, 2}
  Ports = {0, 5, 8}
  Protos = {0, 7}
  FlowKind = "IP"
  Kinds = {"IP"}
  Packets <- Datagram
  Xor <- XorBits
  IPTimeout = 2
  CloseDelay = 1
  SweepPeriod = 2
  MaxAge = 3
  MaxPackets = 1
  IntLimit = 2
  DbOutcomes = {TRUE, FALSE}
PROPERTY IdleIPCloses
