\* One command at a time, killed at any step, on a host that may restart and
\* whose logs may be unreadable.
CONSTANTS
  Operators = {cli}
  ResetWorker = reset_worker
  StopWorker = stop_worker
  Overlapping = FALSE
  MaxInvocations = 3
  MaxFaults = 2
SPECIFICATION FairSpec
INVARIANTS TypeOK RunningIsRecordedOnlyWhenUp StoppedMeansDown FailureIsRecordedIfLogsAre HistoryIsAChain ResetIsNotUndone
PROPERTIES ImplementsRunPhases BringUpSettles
CHECK_DEADLOCK FALSE
