SPECIFICATION FairSpec
CONSTANTS
  Edits <- Renewal
  Operations = {"toggle", "cleanup", "resetAll"}
  Overlap = TRUE
  MaxEdits = 1
  MaxFaults = 1
CHECK_DEADLOCK FALSE
PROPERTIES
  OverdueIsDemoted
  RenewedReturns
  HoldStarts
