SPECIFICATION FairSpec
CONSTANTS
  Users = {1, 2}
  Zones = {"east", "west"}
  WeeklyMoments <- EastAndWest
  QuietShift <- FirstSleepsLong
  Busy <- WeeksBusy
  Prefilter = 6
  BatchSize = 1
  MaxFaults = 1
  Start = 2
  MaxTime = 10
INVARIANTS NoSecondCopy
PROPERTIES MarksOnlyAdvance WeekDealtWith
CHECK_DEADLOCK FALSE
