SPECIFICATION Spec
CONSTANTS
  Assignments <- BuyerAssignments
  DependsOn <- BuyerDependsOn
  Reports <- BuyerReports
  NeedsAccepted = TRUE
  MaxTaskRetries = 2
  AttemptBound = 3
  FailureBound = 1
INVARIANTS
  AcceptedHasEvidence
  
  ReviewsAreBinding
PROPERTIES
  PackageStable
  ImplementsContract
CHECK_DEADLOCK FALSE
