SPECIFICATION FairSpec
CONSTANTS
  Instances = {i1, i2, i3}
  Nobody = Nobody
  TTL = 3
  Poll = 2
  MaxWork = 4
  MaxDue = 2
  MaxCrashes = 1
  MaxOutages = 1
INVARIANTS TypeOK OneIterationAtATime HolderKeepsKey TakeoverInTime
PROPERTIES SettlesOnOneHolder LoopNeverStops
