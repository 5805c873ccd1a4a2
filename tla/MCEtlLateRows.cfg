\* Rows arrive in any order and the transformation keeps the first row of a key.
CONSTANTS
  Keys = {k1, k2}
  None = None
  MaxTime = 2
  MaxBatches = 3
  LoadMode = "incremental"
  Inclusive = FALSE
  PrimaryKey = TRUE
  SortBy = FALSE
  KeepFirst = TRUE
  DatasetCount = 1
  LateRows = TRUE
  MaxProcessed = 4
SPECIFICATION Spec

INVARIANTS CountedOnce
PROPERTIES WatermarkForward
CHECK_DEADLOCK FALSE
