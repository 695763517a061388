SPECIFICATION Spec
CONSTANTS
  Alerts = {a1}
  Instances = {i1, i2}
  Threshold = 2
  LocksHold = FALSE
  SharedRegistry = TRUE
  RegistryErrors = TRUE
  RedisGuard = TRUE
  GuardErrors = FALSE
  Mailer = TRUE
  DbErrors = FALSE
  MaxFlaps = 1
  MaxCrashes = 0
  MaxBuckets = 1
INVARIANT OneMailPerBucket
SYMMETRY Symm
