SPECIFICATION FairSpec
CONSTANTS
  Updates = {"u1"}
  Creates = {"c1", "c2"}
  Links = {"l1"}
  Nested = {"n1"}
  Labelled = {"l1"}
  None = None
  Workers = {w1}
  CreateConcurrency = 1
  CreateCheckpoint = 1
  Outcomes = {"ok", "failed", "lost", "timeout"}
  Faults = {}
  CanExpire = TRUE
  MaxRequests = 4
  MaxFaults = 2
  MaxEdits = 1
  Process <- OneProcess
  Owner <- OwnerOf
  Refs <- RefsOf
  DependsOn <- Depends
INVARIANTS
  UndoneLeavesNothing
PROPERTIES
  OldLinksStay
  UndoneIsFinal
  ApplyEnds
CHECK_DEADLOCK FALSE
