SPECIFICATION FairRecallSpec
CONSTANTS
  Cards = {c1, c2}
  After = 2
  RetryAt = 4
  Deadline = 5
  ActionTimeout = 2
  StaleAfter = 6
  MaxAttempts = 2
  MaxCrashes = 1
  MaxFaults = 1
INVARIANTS OneDeletion NoneForgotten
PROPERTIES DispatchInTime EventuallyTerminal
