SPECIFICATION Spec
CONSTANTS
  Calls <- Requests
  Asks <- SmallAsks
  MaxFailures = 1
INVARIANTS
  PatternsAreReviewed
  AcknowledgedIsDone
CHECK_DEADLOCK FALSE
