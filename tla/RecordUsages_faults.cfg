SPECIFICATION Spec
CONSTANTS
  u1 = u1
  u2 = u2
  a1 = a1
  n1 = n1
  n2 = n2
  NoAdmin = NoAdmin
  Users = {u1, u2}
  Admins = {a1}
  Nodes = {n1}
  Owner <- MCSplitOwner
  Coefficients <- MCDouble
  CoeffUnit <- MCUnit
  AdminLimit <- MCLimit
  BatchSize = 0
  RecordChart = TRUE
  MaxRetries = 2
  Faults = {"deadlock", "ambiguous", "crash", "answer", "extra", "enforce"}
  MaxTraffic = 2
  MaxFaults = 4
INVARIANTS
  TypeOK
  AdminNeverAheadOfUsers
  ChartNeverOvercounts
PROPERTIES
  UsersBilledOnceOrLost
  AdminsBilledOnceOrLost
