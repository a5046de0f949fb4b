SPECIFICATION FairSpec
CONSTANTS
  Jobs = {"dispatcher", "monitor"}
  Ops = "monitor"
  Interval <- Periods
  ErrorBackoff = 1
  StaleFactor = 3
  StaleFloor = 6
  Admins = {1, 2}
  AlertLag = 5
  Lags = {5, 6}
  MaxRestarts = 1
INVARIANTS StaleMeansLongAttempt BelievesWhatWasTold
PROPERTIES HungIsReported LagIsReported
CHECK_DEADLOCK FALSE
