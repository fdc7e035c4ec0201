SPECIFICATION Spec
CONSTANTS
  Owners = {"o1", "o2"}
  Runs = {"r1", "r2"}
  Limit = 2
  LeaseTime = 2
  MaxClock = 4
  MaxLeases = 3
INVARIANTS IInv NothingStartsUnderLease OnePromise
CHECK_DEADLOCK FALSE
