SPECIFICATION Spec
CONSTANTS
  A = A
  B = B
  NoLoad = NoLoad
  NoWorker = NoWorker
  NoJob = NoJob
  Worker = {w1, w2}
  Row = {1, 2}
  Load = {A}
  DataJob <- SharedJobs
  Content <- SharedContent
  Recency <- SharedRecency
  TotalBatches <- Totals
  Editable = TRUE
  MaxFaults = 1
SYMMETRY Workers
INVARIANTS TypeOK StagedLoadOpen SealedComplete NothingLeftStaged
  
CHECK_DEADLOCK FALSE
