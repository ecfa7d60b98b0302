SPECIFICATION Spec
CONSTANTS
  Workers = {w1, w2}
  Capacity = 1
  Delays <- MCDelays
  MaxTimers = 2
  MaxTime = 1
  MaxFaults = 1
INVARIANTS
  OnceEach
  NoLostWakeup
  SlotsReturn
PROPERTIES
  Fires
  ShutDownReturns
CHECK_DEADLOCK FALSE
