SPECIFICATION FairSpec
CONSTANTS
  Tasks = {"task"}
  Editors = {1, 2}
  Schedules <- MCSchedules
  Wishes <- MCWishes
  LateWindow = 0
  MaxDelay = 1
  MaxClock = 3
  MaxRevision = 2
  MaxCrashes = 1
  Day = 3
  Week = 2
  SearchDays = 4
  Zones <- MCZones
  Rules <- MCRules
  Instants <- MCInstants
INVARIANTS IInv OneRunPerOccurrence OccurrencesAccounted
PROPERTY DueIsDispatched
CHECK_DEADLOCK FALSE
