SPECIFICATION TimelySpec
CONSTANTS
  Nobody = Nobody
  e1 = e1
  e2 = e2
  Emails = {e1, e2}
  Malformed = {e2}
  Workers = {w1, w2}
  Operators = {op}
  BatchSize = 2
  MaxAttempts = 2
  ClaimWindow = 2
  LockTTL = 1
  LinkLifetime = 1
  QuietDelays = {1}
  Backoff <- MCBackoff
  RedisOutages = TRUE
  Horizon = 1
  MaxFaults = 1
  MaxRequeues = 1
SYMMETRY Symm
CHECK_DEADLOCK FALSE
INVARIANTS TypeOK RowExclusive DeliveredOnce
PROPERTY KeepsPromise
