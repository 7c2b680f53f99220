SPECIFICATION FairSpec
CONSTANTS
  c1 = c1
  c2 = c2
  c3 = c3
  Calls = {c1, c2}
  Jobs <- OneJob
  Ids = {1, 2, 3}
  Portals <- OnePortal
  Edited <- SomeEdits
  MaxEdits = 0
  RuleFiles <- OneRules
  Today = 35
  Owners <- People
  Fragments <- Parts
  Pipelines <- Stages
  MonthEnd <- Month3
  None = None
  MaxOps = 4
  PageSize = 2
  ResultCap = 4
  MaxPerWindow = 1
  Window = 2
  ReadAttempts = 3
  MaxRetryWait = 2
  RetryAfters = {None, 3}
  MaxFaults = 3
INVARIANTS
  WindowKept
PROPERTIES
  CallsEnd
CHECK_DEADLOCK FALSE
