SPECIFICATION BusSpec
CONSTANTS
  Keys <- SmallKeys
  Threads <- Small
  Script <- Run
  ResumeScript <- Resumed
INVARIANTS
  TraceIsSound
PROPERTIES
  EmissionsEnd
CHECK_DEADLOCK FALSE
