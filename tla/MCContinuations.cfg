SPECIFICATION Spec
CONSTANTS
  Runs = {1}
  Tasks = {"task"}
  TaskOf <- MCSameTask
  BoundedRuns = {1}
  QuickRuns = {}
  BindableRuns = {}
  MaxAttempts = 2
  Delay <- MCDelay
  Window = 2
  Budget = 2
  Limit = 1
  MaxClock = 4
  MaxIncarnations = 3
  MaxReplies = 1
  MaxFaults = 1
INVARIANTS IInv NoReplay
PROPERTIES ResultVersioned ContinuesInTime
CHECK_DEADLOCK FALSE
