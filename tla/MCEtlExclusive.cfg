\* An exclusive watermark; no batch is as old as a row already there.
CONSTANTS
  Keys = {k1, k2}
  None = None
  MaxTime = 1
  MaxBatches = 2
  LoadMode = "incremental"
  Inclusive = FALSE
  PrimaryKey = TRUE
  SortBy = FALSE
  KeepFirst = FALSE
  DatasetCount = 2
  LateRows = FALSE
  MaxProcessed = 4
SPECIFICATION FairSpec
INVARIANTS TypeOK NothingLost AuditAccountsForRun
PROPERTIES SinkForward CatchesUp
CHECK_DEADLOCK FALSE
