SPECIFICATION HistorySpec
CONSTANTS
  Repositories = {a, b}
  MaxSteps = 2
  MaxSnapshotBytes = 2
  MaxOperations = 3
PROPERTY OthersStay
CHECK_DEADLOCK FALSE
