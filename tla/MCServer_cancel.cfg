CONSTANTS
  Runs = {s1}
  NoSocket = NoSocket
  MaxSubtasks = 1
  MaxNotes = 0
  MaxToggles = 0
SPECIFICATION Spec
INVARIANTS
  KilledBeforeCancelled
CHECK_DEADLOCK FALSE
