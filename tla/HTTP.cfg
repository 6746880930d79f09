SPECIFICATION FairSpec
CONSTANTS
  Bodies <- MCBodies
  MaxLines = 2
INVARIANT EndsOnlyMalformed
PROPERTIES
  Recorded
  Returns
CHECK_DEADLOCK FALSE
