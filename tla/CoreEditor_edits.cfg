\* One admin, two cores, another admin at work, lost answers.
SPECIFICATION Spec
CONSTANTS
  c1 = c1
  c2 = c2
  NoRow = NoRow
  NoCfg = NoCfg
  Idle = Idle
  Sent = Sent
  Lost = Lost
  Cores = {c1, c2}
  Sections = {"in", "out"}
  Values = {0, 1}
  Names = {"n1"}
  InitRows <- StoredRows
  OtherRows <- TheirRows
  MaxEdits = 2
  MaxSaves = 1
  MaxMoves = 2
  MaxOthers = 1
  MaxFaults = 1
INVARIANTS
  TypeOK
  
  CleanAgrees
CHECK_DEADLOCK FALSE
SYMMETRY CoreSymmetry
