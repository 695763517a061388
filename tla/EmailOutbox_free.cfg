SPECIFICATION FairSpec
CONSTANTS
  Nobody = Nobody
  e1 = e1
  e2 = e2
  Emails = {e1}
  Malformed = {}
  Workers = {w1, w2}
  Operators = {op}
  BatchSize = 1
  MaxAttempts = 2
  ClaimWindow = 1
  LockTTL = 1
  LinkLifetime = 1
  QuietDelays = {}
  Backoff <- MCBackoff
  RedisOutages = FALSE
  Horizon = 1
  MaxFaults = 1
  MaxRequeues = 1
CHECK_DEADLOCK FALSE
INVARIANT PendingHasAttemptsLeft
PROPERTY Settles
