SPECIFICATION FairSpec
CONSTANTS
  u1 = u1
  u2 = u2
  s1 = s1
  s2 = s2
  None = None
  Users = {u1, u2}
  Sessions = {s1, s2}
  MaxRows = 2
  MaxParams = 0
INVARIANTS
  Exclusive
  Complete
  StatementsTerminated
PROPERTIES
  Implements
  MutexReturned
  QueryReturns
