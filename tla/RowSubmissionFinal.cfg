SPECIFICATION Spec
CONSTANTS
  Row = {r1, r2}
  Group <- OneGroup
  Cron = {c1}
  Manual = {}
  Batch = {b1, b2}
  MaxBatchSize = 2
  Concurrency = 1
  Collapse = FALSE
  MaxVersion = 0
  MaxFaults = 0
  NoBatch = NoBatch
  lone = r3
PROPERTIES CorrectoIsFinal
CHECK_DEADLOCK FALSE
