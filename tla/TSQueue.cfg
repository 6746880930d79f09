SPECIFICATION FairSpec
CONSTANTS
  m1 = m1
  m2 = m2
  m3 = m3
  m4 = m4
  v1 = v1
  v2 = v2
  None = None
  Nodes = {m1, m2, m3, m4}
  Values = {v1, v2}
INVARIANTS
  NoUseAfterFree
  NoLeak
PROPERTIES
  Implements
  ImplementsFair
