SPECIFICATION Spec
CONSTANTS
  u1 = u1
  u2 = u2
  Users = {u1, u2}
  HardResetThreshold = 2
  ChunkedFrom = 2
  Callers = {"bulk", "full"}
  MaxVersion = 1
  MaxFailures = 2
CHECK_DEADLOCK FALSE
INVARIANTS
  StopSilences
PROPERTIES
  InvalidIsFinal
