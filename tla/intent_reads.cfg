SPECIFICATION Spec
CONSTANTS
  c1 = c1
  c2 = c2
  c3 = c3
  Calls = {c1}
  Jobs <- SomeJobs
  Ids = {1, 2, 3}
  Portals <- SomePortals
  Edited <- SomeEdits
  MaxEdits = 2
  RuleFiles <- SomeRules
  Today = 35
  Owners <- People
  Fragments <- Parts
  Pipelines <- Stages
  MonthEnd <- Month3
  None = None
  MaxOps = 4
  PageSize = 1
  ResultCap = 2
  MaxPerWindow = 2
  Window = 1
  ReadAttempts = 2
  MaxRetryWait = 1
  RetryAfters = {None}
  MaxFaults = 1
INVARIANTS
  CountedOnce
  MovesAreSound
PROPERTIES
  QuietIsExact
CHECK_DEADLOCK FALSE
