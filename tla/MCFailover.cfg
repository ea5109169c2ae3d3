CONSTANTS
  a = a
  b = b
  r = r
  Callers = {1, 2}
  Models <- MCModels
  Reliable <- MCReliable
  Ladders <- MCLadders
  MaxRetries = 2
  ColdAfter = 2
SPECIFICATION Spec
INVARIANTS
  ReliableSaves
  PulledModelLeft
  BreakerHolds
  HungRungDemotes
PROPERTIES
  CallsReturn
CHECK_DEADLOCK FALSE
