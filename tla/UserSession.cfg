SPECIFICATION FairSpec
CONSTANTS
  Sessions = {"ann", "bob"}
  Runs <- SmallRuns
  MaxSeconds = 2
  MaxClicks = 4
  MaxBreaks = 2
  MaxMoves = 5
  Production = FALSE
INVARIANTS
  
  StartsAreSingle
  AnswersAreKept
PROPERTIES
  SessionsGoOn
CHECK_DEADLOCK FALSE
