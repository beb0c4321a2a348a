SPECIFICATION FairSpec
CONSTANTS
  Hooks = {h1, h2}
  Workers = {w1, w2}
  MaxAttempts = 3
  FanoutRuns = 2
  Failures = 1
INVARIANTS
  PostedOnce
  PendingHasJob
PROPERTIES
  DeliveriesSettle
CHECK_DEADLOCK FALSE
