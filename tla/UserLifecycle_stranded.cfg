SPECIFICATION FairSpec
CONSTANTS
  Edits <- NoEdits
  Operations = {}
  Overlap = TRUE
  MaxEdits = 0
  MaxFaults = 1
CHECK_DEADLOCK FALSE
PROPERTIES
  OverdueLosesAccess
