SPECIFICATION FairSpec
CONSTANTS
  NRows = 2
  Runs = {r1, r2}
  Kinds = {"text", "forward", "generated_image"}
  BatchSize = 2
  MaxAttempts = 2
  StaleAfter = 2
  RetryAfter = 1
  SendTimeout = 1
INVARIANTS HeldRowsClosed AtMostOneCopy
PROPERTIES CancelledIsFinal ImplementsDelivery EventuallySettled
CHECK_DEADLOCK FALSE
