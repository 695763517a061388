SPECIFICATION FairSpec
CONSTANTS
  hook = hook
  Hooks = {hook}
  Reliable <- SecondEvent
  Workers = {w1, w2}
  MaxEvents = 2
  BatchSize = 2
  MaxAttempts = 3
  Timely = TRUE
  MaxFaults = 2
  MaxDeletions = 1
CHECK_DEADLOCK FALSE
INVARIANTS TypeOK DeliveredOnce NoSilentOvertaking
PROPERTY ReliableIsServed
