SPECIFICATION FairSpec
CONSTANTS
  u1 = u1
  u2 = u2
  Users = {u1, u2}
  HardResetThreshold = 2
  ChunkedFrom = 2
  Callers = {}
  MaxVersion = 2
  MaxFailures = 3
CHECK_DEADLOCK FALSE
INVARIANTS
  TypeOK
  WorkIffPending
  PendingIsLatest
  
  HardResetAfterFailures
PROPERTIES
  
  FailureEscalates
