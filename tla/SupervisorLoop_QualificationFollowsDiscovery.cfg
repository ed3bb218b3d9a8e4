SPECIFICATION Spec
CONSTANTS
  Parallel <- FirstBatch
  Sequential <- Afterwards
  TasksOf <- Catalogue
  NeedsAccepted <- Policies
  RunCondition <- Conditions
  QuestionsOf <- Coverage
  Questions <- Registry
INVARIANT
  QualificationFollowsDiscovery
CHECK_DEADLOCK FALSE
