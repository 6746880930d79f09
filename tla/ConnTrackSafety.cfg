SPECIFICATION Spec
CONSTANTS
  n1 = n1
  n2 = n2
  n3 = n3
  None = None
  Conns = {n1, n2}
  Hosts = {0, 1, 2}
  Ports = {0, 5, 8}
  Protos = {0, 6}
  FlowKind = "HTTP"
  Kinds = {"HTTP"}
  Packets <- OneFlow
  Xor <- XorBits
  IPTimeout = 2
  CloseDelay = 1
  SweepPeriod = 2
  MaxAge = 3
  MaxPackets = 3
  IntLimit = 3
  DbOutcomes = {TRUE, FALSE}
SYMMETRY NodeSymmetry
INVARIANTS
  TypeOK
  RowCoversDue
  FreshPointerSafe
PROPERTY Lives
