SPECIFICATION Spec
CONSTANTS
  Data <- ShortData
  Datagrams <- MCDatagrams
  LongSize = 4
  Junk = {0}
INVARIANTS
  Complements
  SumsMeant
