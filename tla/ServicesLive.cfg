SPECIFICATION Spec
CONSTANTS
  Parts = {"sweep", "results", "backup", "token", "connections"}
  SweptRow = {1, 2}
  Key = {k1, k2}
  Legacy = {0, 2}
  SweepLimit = 2
  ChunkSize = 1
  SiiRow = {r1}
  Body <- FewBodies
  MaxAttempts = 2
  SiiFaults = 1
  MaxSends = 1
  NoError = NoError
  DRow = {1, 2, 3}
  DGroup <- Groups
  Deleter = {d1, d2}
  Resetter = {x1}
  DChanges = 1
  DFaults = 1
  BRun = {1, 2}
  OnDemand = {1}
  Restore = {91}
  Keep = 2
  MaxSecond = 1
  BFaults = 1
  MaxToken = 2
  GraceTime = 2
  MaxTime = 3
  PFaults = 2
  Idx = {u, f}
  UniqueIdx = {u}
  Request = {q1, q2}
  MaxCalls = 3
  TFaults = 1
  Conn = {c1}
  Admin = {a1, a2}
  Delivery = {v1}
  MaxSecret = 1
  MaxCadence = 1
  MaxAsks = 2
  CFaults = 1
  QRow = {1, 2, 3}
  CellUsed = {"1", "jan", "feb31", "null"}
  Asks = {"1", "jan", "text"}
  PageSize = 2
  CountCap = 2
  AggCap = 1
  MaxMoves = 2
  PRow = {1, 2}
  Texts <- TextsUsed
  Linked = {"c"}
PROPERTIES  WorkGoesOn
CHECK_DEADLOCK FALSE
