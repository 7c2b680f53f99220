SPECIFICATION Spec
CONSTANTS
  Updates = {"u1"}
  Creates = {"c1", "c2"}
  Links = {"l1"}
  Nested = {"n1"}
  Labelled = {}
  None = None
  Workers = {w1}
  CreateConcurrency = 2
  CreateCheckpoint = 2
  Outcomes = {"ok"}
  Faults = {"cancel"}
  CanExpire = TRUE
  MaxRequests = 2
  MaxFaults = 2
  MaxEdits = 0
  Process <- OneProcess
  Owner <- OwnerOf
  Refs <- RefsOf
  DependsOn <- Depends
INVARIANTS
  NotStranded
CHECK_DEADLOCK FALSE
