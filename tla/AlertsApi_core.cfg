SPECIFICATION MCSpec
CONSTANTS
  Nobody = Nobody
  home = home
  Users = {ann}
  Addresses = {home, work}
  Servers = {matrix}
  Requests = {r1, r2}
  MaxRows = 3
  MaxHooks = 3
  MaxWebhooks = 1
  MaxStarts = 3
  MaxAccountChanges = 1
  MaxFaults = 1
INVARIANTS
  TypeOK
  VerifiedWasConfirmed
  HooksBounded
PROPERTIES
  VerifiedStays
  UnconfirmedIsSwept
CHECK_DEADLOCK FALSE
