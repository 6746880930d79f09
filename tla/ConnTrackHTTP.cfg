SPECIFICATION FairSpec
CONSTANTS
  n1 = n1
  n2 = n2
  n3 = n3
  None = None
  Conns = {n1, n2}
  Hosts = {0, 1, 2}
  Ports = {0, 18245, 21536, 18516, 21584, 20560}
  Protos = {0, 6}
  FlowKind = "HTTP"
  Kinds = {"HTTP"}
  Packets <- HTTPPackets
  Xor <- XorBits
  IPTimeout = 2
  CloseDelay = 0
  SweepPeriod = 1
  MaxAge = 1
  MaxPackets = 2
  IntLimit = 2
  DbOutcomes = {TRUE, FALSE}
PROPERTY FinSent
