SPECIFICATION FairSpec
CONSTANTS
  NPages = 2
  Lease = 1
  Retention = 2
  MaxBuild = 2
  MaxCrashes = 1
  MaxFaults = 1
  SlowSweep = FALSE
INVARIANTS OneNotice OneBuilding PublishedIsServed
PROPERTIES EventuallyTold
CHECK_DEADLOCK FALSE
