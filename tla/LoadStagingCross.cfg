SPECIFICATION FairSpec
CONSTANTS
  A = A
  B = B
  NoLoad = NoLoad
  NoWorker = NoWorker
  NoJob = NoJob
  Worker = {w1, w2}
  Row = {1, 2}
  Load = {A, B}
  DataJob <- CrossJobs
  Content <- CrossContent
  Recency <- CrossRecency
  TotalBatches <- Totals
  Editable = FALSE
  MaxFaults = 0
PROPERTIES HeldUntilSealed ImplementsGate HungLoadsFlagged
CHECK_DEADLOCK FALSE
