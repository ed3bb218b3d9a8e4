SPECIFICATION StoreSpec
CONSTANTS
  Parallel <- Batch
  Sequential <- Afterwards
  TasksOf <- Catalogue
  FactsOf <- Facts
  AttemptsOf <- Attempts
  ReviewsOf <- Reviews
  Nothing = Nothing

  
PROPERTIES
  ExportsAreStable
CHECK_DEADLOCK FALSE
