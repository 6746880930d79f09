SPECIFICATION FairSpec
CONSTANTS
  Sizes <- MCSizes
  Lengths <- MCLengths
  Counts <- MCCounts
  MaxMessages = 1
INVARIANTS
  WindowKept
  FragmentsCounted
PROPERTIES
  GetsOn
  Returns
CHECK_DEADLOCK FALSE
