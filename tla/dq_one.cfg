SPECIFICATION FairSpec
CONSTANTS
  o1 = o1
  u1 = u1
  u2 = u2
  Occs = {o1}
  Users = {u1}
  Watchers = {}
  Deliveries <- OneDelivery
  Late = {}
  OccOf <- OneOccOf
  UserOf <- OneUserOf
  FireAt <- FiresAtOnce
  ExpiresAt <- ExpiresAfterTtl
  QuietShift <- NoQuiet
  Ttl = 2
  Dispatchers = {w1}
  Taps = {t1}
  LockFor = 1
  BatchSize = 1
  Errors = {"retry_after", "forbidden", "bad_request", "transient"}
  Kinds = {"done", "snooze"}
  Crashes = {"dispatcher", "bot", "reaper"}
  SnoozeFor = 1
  RepeatAfter = 1
  MaxRepeats = 1
  MaxAttempts = 2
  RetryDelay <- Doubling
  FloodDelay = 1
  MaxTime = 4
INVARIANTS TypeOK AnsweredOnce
PROPERTIES AnsweredNotClaimed SnoozeKept ClosedStaysClosed QueueDrains OccurrencesClose
CHECK_DEADLOCK FALSE
