SPECIFICATION FairSpec
CONSTANTS
  s1 = s1
  s2 = s2
  s3 = s3
  ann = ann
  bob = bob
  Schedules = {s1}
  MomentsOf <- Few
  LastMoment <- Forever
  FirstSchedule = s1
  StartsAt = 0
  EndsAt <- NoTime
  MaxOccurrences <- NoTime
  FireAt <- QuietFirst
  Owner = ann
  Users = {ann, bob}
  Horizon = 1
  CycleLimit = 2
  PlannerDies = FALSE
  MaxTime = 2
INVARIANTS TypeOK RecipientsServed
PROPERTIES EveryMomentPlanned
CHECK_DEADLOCK FALSE
