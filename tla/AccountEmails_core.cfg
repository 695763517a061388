SPECIFICATION MCSpec
CONSTANTS
  Addresses = {home, work, club}
  MaxUsers = 2
  MaxRows = 3
  MaxTokens = 3
  MaxStarts = 3
  Requests = {r1, r2}
  MaxFaults = 1
SYMMETRY Anything
INVARIANTS
  TypeOK
  VerifiedWasFollowed
  ResetsAreSingleUse
PROPERTIES
  PromotionKeepsAddresses
  RemovalKeepsVerified
CHECK_DEADLOCK FALSE
