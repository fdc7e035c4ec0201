SPECIFICATION FairSpec
CONSTANTS
  Runs = {1, 2}
  Tasks = {1, 2}
  TaskOf <- MCOwnTask
  BoundedRuns = {1}
  QuickRuns = {}
  BindableRuns = {}
  MaxAttempts = 1
  Delay <- MCDelay
  Window = 1
  Budget = 2
  Limit = 1
  MaxClock = 0
  MaxIncarnations = 2
  MaxReplies = 0
  MaxFaults = 0
PROPERTIES QueuedRunStarts StopEnds
CHECK_DEADLOCK FALSE
