SPECIFICATION Spec
CONSTANTS
  Updates = {"u1"}
  Creates = {"c1", "c2"}
  Links = {"l1"}
  Nested = {"n1"}
  Labelled = {}
  None = None
  Workers = {w1, w2}
  CreateConcurrency = 2
  CreateCheckpoint = 2
  Outcomes = {"ok", "failed", "lost", "timeout", "partial"}
  Faults = {"store", "cancel", "kill"}
  CanExpire = FALSE
  MaxRequests = 3
  MaxFaults = 2
  MaxEdits = 1
  Process <- OneProcess
  Owner <- OwnerOf
  Refs <- RefsOf
  DependsOn <- Depends
INVARIANTS
  TypeOK
  ReportIsHonest
  AppliedOnce
  SnapshotFirst
  AppliedIsRevertible
  DependentsFollow
PROPERTIES
  StateMachine
CHECK_DEADLOCK FALSE
