SPECIFICATION Spec
CONSTANTS
  o1 = o1
  u1 = u1
  u2 = u2
  Occs = {o1}
  Users = {u1, u2}
  Watchers = {u2}
  Deliveries <- TwoDeliveries
  Late = {}
  OccOf <- SharedOccOf
  UserOf <- SharedUserOf
  FireAt <- FiresAtOnce
  ExpiresAt <- ExpiresAfterTtl
  QuietShift <- NoQuiet
  Ttl = 2
  Dispatchers = {w1}
  Taps = {t1, t2}
  LockFor = 1
  BatchSize = 2
  Errors = {}
  Kinds = {"done"}
  Crashes = {}
  SnoozeFor = 1
  RepeatAfter <- NoTime
  MaxRepeats = 1
  MaxAttempts = 2
  RetryDelay <- Doubling
  FloodDelay = 1
  MaxTime = 2
INVARIANTS LastAnswerCloses
CHECK_DEADLOCK FALSE
