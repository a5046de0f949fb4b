SPECIFICATION Spec
CONSTANTS
  s1 = s1
  s2 = s2
  s3 = s3
  ann = ann
  bob = bob
  Schedules = {s1, s2, s3}
  MomentsOf <- MixedMoments
  LastMoment <- MixedLast
  FirstSchedule = s1
  StartsAt = 1
  EndsAt = 5
  MaxOccurrences = 3
  FireAt <- QuietSecond
  Owner = ann
  Users = {ann}
  Horizon = 2
  CycleLimit = 1
  PlannerDies = TRUE
  MaxTime = 4
INVARIANTS HorizonCovered QueueMatchesReminder BudgetKept ArchivedIsComplete
CHECK_DEADLOCK FALSE
