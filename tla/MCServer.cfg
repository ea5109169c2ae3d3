CONSTANTS
  Runs = {s1, s2}
  NoSocket = NoSocket
  MaxSubtasks = 1
  MaxNotes = 0
  MaxToggles = 1
SPECIFICATION Spec
INVARIANTS
  OneRunAtATime
  TerminalIsLast
PROPERTIES
  LeavingFrees
  PermitReturns
CHECK_DEADLOCK FALSE
