SPECIFICATION Spec
CONSTANTS
  Alerts = {a1}
  Instances = {i1}
  Threshold = 3
  LocksHold = TRUE
  SharedRegistry = FALSE
  RegistryErrors = FALSE
  RedisGuard = FALSE
  GuardErrors = FALSE
  Mailer = TRUE
  DbErrors = FALSE
  MaxFlaps = 3
  MaxCrashes = 0
  MaxBuckets = 1
PROPERTY ConfirmedOnlyRecovers
