SPECIFICATION Spec
CONSTANTS
  Runs = {u1, u2}
  Own = {c1, c2}
  Titles = {home}
  Reminders = {m1}
  CanCrash = FALSE
INVARIANTS TitlesDiffer
CHECK_DEADLOCK FALSE
