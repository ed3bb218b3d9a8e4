SPECIFICATION FairSpec
CONSTANTS
  Runs = {"first", "second"}
  Departments <- SmallDepartments
  Tasks <- SmallTasks
  Outcomes <- SmallOutcomes
  Seed <- SmallSeed
  Retrievable <- SmallRetrievable
  Limit = 1
  MaxDeaths = 1
INVARIANTS
  KnowledgeIsEarned
  StoreIsSound
  RecallIsSound
PROPERTIES
  RunsEnd
CHECK_DEADLOCK FALSE
