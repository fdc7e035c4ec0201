SPECIFICATION TakeoverSpec
CONSTANTS
  Runs = {1}
  Tasks = {"task"}
  TaskOf <- MCSameTask
  BoundedRuns = {1}
  QuickRuns = {}
  BindableRuns = {1}
  MaxAttempts = 1
  Delay <- MCDelay
  Window = 2
  Budget = 2
  Limit = 1
  MaxClock = 0
  MaxIncarnations = 2
  MaxReplies = 1
  MaxFaults = 0
  MaxSessions = 2
INVARIANT OneExecutorPerThread
CHECK_DEADLOCK FALSE
