SPECIFICATION FairSpec
CONSTANTS
  NMsgs = 2
  NParts = 2
  MaxClears = 0
  MaxCrashes = 1
  MaxFaults = 2
  MaxAttempts = 5
  Short = {1}
INVARIANT OneReply
PROPERTY EventuallyAnswered
CHECK_DEADLOCK FALSE
