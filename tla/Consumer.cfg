SPECIFICATION FairSpec
CONSTANTS
  NMsgs = 3
  Keys = {k1, k2}
  NoKey = NoKey
  BatchSize = 2
  MaxConcurrentKeys = 1
  DefaultBackoff = 1
  MaxBackoff = 2
  MaxFailures = 1
  MaxFaults = 1
  Poison = {2}
  Unstable = {1}
INVARIANT InOrder
PROPERTIES ImplementsConsumption EventuallyHandled
CHECK_DEADLOCK FALSE
