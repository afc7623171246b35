SPECIFICATION Spec
CONSTANTS
  Operations = {"limit", "bulk"}
  BadSettings <- NoBadSettings
  MaxEdits = 0
  MaxGens = 2
  MaxFaults = 0
CHECK_DEADLOCK FALSE
INVARIANTS
  RegisteredIsValid
