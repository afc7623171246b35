SPECIFICATION FairSpec
CONSTANTS
  u1 = u1
  u2 = u2
  a1 = a1
  n1 = n1
  n2 = n2
  NoAdmin = NoAdmin
  Users = {u1}
  Admins = {a1}
  Nodes = {n1, n2}
  Owner <- MCOwner
  Coefficients <- MCHalf
  CoeffUnit <- MCUnit
  AdminLimit <- MCLimit
  BatchSize = 1
  RecordChart = TRUE
  MaxRetries = 2
  Faults = {"deadlock", "extra"}
  MaxTraffic = 3
  MaxFaults = 2
INVARIANTS
  LossBecomesDelay
  AdminLimitEnforced
PROPERTIES
  UsageEventuallyBilled
