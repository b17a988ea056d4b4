SPECIFICATION Spec
CONSTANTS
  NMsgs = 1
  NParts = 1
  MaxClears = 0
  MaxCrashes = 1
  MaxFaults = 0
  MaxAttempts = 2
  Short = {}
INVARIANT DoneIsAnswered
CHECK_DEADLOCK FALSE
