SPECIFICATION FairSpec
CONSTANTS
  Words = {w1, w2}
  Questions = {q1, q2}
  MaxFaults = 2
  Arguments <- BothArguments
  Production = TRUE
INVARIANTS
  BriefIsHonest
  
PROPERTY
  StartsEnd
CHECK_DEADLOCK FALSE
