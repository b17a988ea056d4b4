SPECIFICATION Spec
CONSTANTS
  NMsgs = 1
  NParts = 2
  MaxClears = 1
  MaxCrashes = 1
  MaxFaults = 1
  MaxAttempts = 4
  Short = {1}
INVARIANT WholeReply
 
CHECK_DEADLOCK FALSE
