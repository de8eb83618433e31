CONSTANTS
  e1 = e1
  e2 = e2
  e3 = e3
  Events = {e1, e2, e3}
  MaxAttempts = 2
  Limit = 2
  MaxTries = 3
  Faults = {"mark", "crash"}
SPECIFICATION StableSpec
INVARIANTS
  TypeOK
  DeliveredAccepted
  BackoffMatchesAttempts
  DeliveredNotPosted
  RedeliverKept
PROPERTIES
  KeepsPromise
  EventuallySettled
CHECK_DEADLOCK FALSE
