SPECIFICATION Spec
CONSTANTS
  Operations = {"modify", "disable", "remove", "restart"}
  BadSettings <- OneBadSettings
  MaxEdits = 2
  MaxGens = 3
  MaxFaults = 0
CHECK_DEADLOCK FALSE
INVARIANTS
  TypeOK
PROPERTIES
  ReplacedStaysDown
