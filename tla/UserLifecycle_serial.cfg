SPECIFICATION Spec
CONSTANTS
  Edits <- EveryEdit
  Operations = {"toggle", "reset", "next", "remove", "periodic", "autodelete"}
  Overlap = FALSE
  MaxEdits = 2
  MaxFaults = 0
CHECK_DEADLOCK FALSE
INVARIANTS
  TypeOK
  NodesAgree
