SPECIFICATION Spec
CONSTANTS
  o1 = o1
  u1 = u1
  u2 = u2
  Occs = {o1}
  Users = {u1, u2}
  Watchers = {u2}
  Deliveries <- TwoDeliveries
  Late = {2}
  OccOf <- SharedOccOf
  UserOf <- SharedUserOf
  FireAt <- FiresAtOnce
  ExpiresAt <- ExpiresAfterTtl
  QuietShift <- NoQuiet
  Ttl = 2
  Dispatchers = {w1}
  Taps = {t1, t2}
  LockFor = 1
  BatchSize = 2
  Errors = {"bad_request"}
  Kinds = {"done", "skip"}
  Crashes = {}
  SnoozeFor = 1
  RepeatAfter = 1
  MaxRepeats = 1
  MaxAttempts = 2
  RetryDelay <- Doubling
  FloodDelay = 1
  MaxTime = 3
INVARIANTS DoneMeansAnswered RepeatsWithinBudget
SYMMETRY TapSymmetry
CHECK_DEADLOCK FALSE
