SPECIFICATION WorkerSpec
CONSTANTS
  Tasks <- BothTasks
  BaseQueries <- Strategy
  RefinedQueries <- Refinement
  MaxQueries <- QueryLimit
  MaxResults <- ResultLimit
  Fields = {"peers", "buyers"}
  Own <- FieldsOf
  Briefed = {}
  Screened = {"buyers"}
  Urls = {"url1"}
  Invented = {"invented"}
  BriefSources <- FromBrief
  MaxSources = 2
  MaxPages = 1
  Shared = {"resale", "url1"}
  CallBound = 2
INVARIANTS
  
  BoundedTraffic
PROPERTIES
  SourcesStand
  ExecutionsEnd
CHECK_DEADLOCK FALSE
