SPECIFICATION Spec
CONSTANTS
  Runs = {1, 2}
  Tasks = {"task"}
  TaskOf <- MCSameTask
  BoundedRuns = {1}
  QuickRuns = {2}
  BindableRuns = {1}
  MaxAttempts = 1
  Delay <- MCDelay
  Window = 2
  Budget = 1
  Limit = 1
  MaxClock = 0
  MaxIncarnations = 2
  MaxReplies = 1
  MaxFaults = 1
INVARIANTS OneUnfinishedRunPerTask OneWriterPerTask ArchivedStaysFinished
PROPERTIES StopIsFinal EndsAfterExit
CHECK_DEADLOCK FALSE
