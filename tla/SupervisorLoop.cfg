SPECIFICATION FairSpec
CONSTANTS
  Parallel <- FirstBatch
  Sequential <- Afterwards
  TasksOf <- Catalogue
  NeedsAccepted <- Policies
  RunCondition <- Conditions
  QuestionsOf <- Coverage
  Questions <- Registry
INVARIANTS
  
  CreditIsEarned
  ContactsNeedBuyers
PROPERTIES
  VerdictsStand
  LoopEnds
CHECK_DEADLOCK FALSE
