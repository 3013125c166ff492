SPECIFICATION FairSpec
CONSTANTS
  Row = {r1, r2, r3}
  Group <- PairAndOne
  Cron = {c1, c2}
  Manual = {}
  Batch = {b1, b2, b3, b4}
  MaxBatchSize = 2
  Concurrency = 2
  Collapse = TRUE
  MaxVersion = 0
  MaxFaults = 1
  NoBatch = NoBatch
  lone = r3
INVARIANTS TypeOK ResultIsTheVendors 
PROPERTIES ReadyRowsGo CronNeverResendsAcked
CHECK_DEADLOCK FALSE
