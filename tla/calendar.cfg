SPECIFICATION Spec
CONSTANTS
  DayLength = 6
  DaysInWeek = 3
  DayOfMonth <- InMonth
  DaysInMonth <- MonthLength
  SafetyBuffer = 14
  MaxLocalDays = 17
  Settings <- Combinations
  Days <- AllDays
  Start = 30
  MaxTime = 60
  Lead = 14
  BatchLimit = 4
  DigestWeekday = 2
INVARIANTS ReadingsResolved PlannedIsWhatFires SilenceKept DigestWeeks StreaksCount
CHECK_DEADLOCK FALSE
