SPECIFICATION Spec
CONSTANTS
  Row = {r1}
  Group <- OneGroup
  Cron = {c1}
  Manual = {m}
  Batch = {b1, b2, b3}
  MaxBatchSize = 1
  Concurrency = 1
  Collapse = FALSE
  MaxVersion = 1
  MaxFaults = 2
  NoBatch = NoBatch
  lone = r3
INVARIANTS OutcomeHasEvent PendingIsPresented
PROPERTIES AcceptedLeavesByRaceOnly
CHECK_DEADLOCK FALSE
