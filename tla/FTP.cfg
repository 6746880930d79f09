SPECIFICATION Spec
CONSTANTS
  Bodies <- MCBodies
  MaxLines = 2
PROPERTIES
  LinesKept
  TextKept
CHECK_DEADLOCK FALSE
