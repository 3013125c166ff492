SPECIFICATION Spec
CONSTANTS
  A = A
  B = B
  NoLoad = NoLoad
  NoWorker = NoWorker
  NoJob = NoJob
  Worker = {w1, w2}
  Row = {1, 2}
  Load = {A}
  DataJob <- SingleJobs
  Content <- SingleContent
  Recency <- SingleRecency
  TotalBatches <- Totals
  Editable = TRUE
  MaxFaults = 0
INVARIANTS NoEarlyRelease
CHECK_DEADLOCK FALSE
