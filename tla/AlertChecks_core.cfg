SPECIFICATION FairSpec
CONSTANTS
  Alerts = {a1}
  Instances = {i1}
  Threshold = 3
  LocksHold = TRUE
  SharedRegistry = FALSE
  RegistryErrors = FALSE
  RedisGuard = FALSE
  GuardErrors = FALSE
  Mailer = TRUE
  DbErrors = FALSE
  MaxFlaps = 5
  MaxCrashes = 1
  MaxBuckets = 1
INVARIANTS TypeOK AnnouncementsMatchRow
PROPERTIES ConfirmedAfterStreak DownIsConfirmed UpIsCleared
