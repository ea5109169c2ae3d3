CONSTANTS
  Lines <- MCLines
  Finals <- MCFinals
  Cap = 1
  PipeCap = 1
  ErrCap = 1
  MaxWrites = 3
SPECIFICATION Spec
INVARIANTS
  ReturnsWithoutChild
  FirstTerminalWins
  ChargedOnce
PROPERTIES
  Ends
CHECK_DEADLOCK FALSE
