SPECIFICATION Spec
CONSTANTS
  Runs = {u1}
  Own = {c1, c2}
  Titles = {home, work}
  Reminders = {m1, m2}
  CanCrash = TRUE
INVARIANTS TypeOK AnswersKept EditsWhatWasOpened NoOrphans
SYMMETRY DialogsSymmetry
