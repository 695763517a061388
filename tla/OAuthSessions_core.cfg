SPECIFICATION Spec
CONSTANTS
  Users = {alice}
  Clients = {web}
  Requests = {r1, r2}
  MaxCodes = 1
  MaxTokens = 3
  MaxFaults = 1
SYMMETRY AnyHandler
INVARIANTS
  TypeOK
  GrantsAreSingleUse
  DeletionSweeps
PROPERTIES
  ClosedAccountIsClosed
CHECK_DEADLOCK FALSE
