SPECIFICATION FairSpec
CONSTANTS
  Operations = {"restart"}
  BadSettings <- NoBadSettings
  MaxEdits = 0
  MaxGens = 4
  MaxFaults = 2
CHECK_DEADLOCK FALSE
INVARIANTS
  
  HealthyRuns
PROPERTIES
  EventuallyConnected
