SPECIFICATION FairSpec
CONSTANTS
  Questions <- NarrowRegistry
  SynthesisQuestions <- OfSynthesis
  Exempt <- OfSynthesis
  GapScopes <- Scopes
  GapBound = 2
  MaxQuestions = 1
  MinAnswered = 2
  Resumers <- TwoSessions
  Production = FALSE
INVARIANTS
  ReadyIsEarned
  
  RecordsAreBacked
PROPERTIES
  
  CallsEnd
CHECK_DEADLOCK FALSE
