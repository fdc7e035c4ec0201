SPECIFICATION FairSpec
CONSTANTS
  MaxEvents = 3
  MaxTroubles = 2
  Conns = {c1, c2}
  Limit = 1
INVARIANTS
  IInv
  NoSilentLoss
PROPERTIES
  ImplementsDelivery
  EventuallyHandled
CHECK_DEADLOCK FALSE
