SPECIFICATION Spec
CONSTANTS
  A = A
  B = B
  NoLoad = NoLoad
  NoWorker = NoWorker
  NoJob = NoJob
  Worker = {w1, w2}
  Row = {1, 2}
  Load = {A}
  DataJob <- EmptyJobs
  Content <- EmptyContent
  Recency <- SingleRecency
  TotalBatches <- Totals
  Editable = FALSE
  MaxFaults = 0
INVARIANTS NothingLeftStaged
CHECK_DEADLOCK FALSE
