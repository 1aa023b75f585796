\* Commands that overlap.
CONSTANTS
  Operators = {cli1, cli2}
  ResetWorker = reset_worker
  StopWorker = stop_worker
  Overlapping = TRUE
  MaxInvocations = 2
  MaxFaults = 1
  MaxStage = 4
SPECIFICATION Spec
INVARIANTS CurrentIsLogged HistoryIsDerived BroughtUpOnlyWhenRendered
CHECK_DEADLOCK FALSE
SYMMETRY OperatorSymmetry
CONSTRAINT BringUpBound
