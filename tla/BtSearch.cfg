SPECIFICATION FairSpec
CONSTANTS
  Requests = {1, 2, 3}
  MaxWaiting = 1
  MaxAborts = 1
  MaxErrors = 2
INVARIANT OneSearch
INVARIANT QuietAfterStop
INVARIANT OneAnswer
PROPERTY EveryRequestEnds
CHECK_DEADLOCK FALSE
