SPECIFICATION FairSpec
CONSTANTS
  Ids = {1, 2}
  MaxVersions = 2
  MaxSessions = 2
  MaxFaults = 2
INVARIANTS
  IInv
  SyncedIsTrue
  RevocationFollows
PROPERTIES
  OvertakenStaysOn
  NothingComesBack
  RegistrationEnds
CHECK_DEADLOCK FALSE
