\* A stage fails, and then reading the container logs fails too.
CONSTANTS
  Operators = {cli}
  ResetWorker = reset_worker
  StopWorker = stop_worker
  Overlapping = FALSE
  MaxInvocations = 2
  MaxFaults = 1
SPECIFICATION Spec
INVARIANT FailedStageIsRecorded
CHECK_DEADLOCK FALSE
