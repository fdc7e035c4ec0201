SPECIFICATION Spec
CONSTANTS
  MaxEvents = 2
  MaxTroubles = 2
  Conns = {c1}
  Limit = 2
INVARIANTS
  IdsNeverReused
CHECK_DEADLOCK FALSE
