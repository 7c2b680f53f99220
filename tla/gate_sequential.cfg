SPECIFICATION Spec
CONSTANTS
  Actions = {a1, a2}
  Workers = {w1}
  Records = {r1}
  None = None
  InvokeOutcomes = {"ok", "rejected"}
  Swallowed = {"audit"}
  MaxRequests = 6
  MaxAborts = 0
  MaxEdits = 1
  CanExpire = FALSE
INVARIANTS
  AtMostOnce
  ReportedKeepsUndo
  AppliedUpdateHasSnapshot
  UndoneLeavesNoTrace
CHECK_DEADLOCK FALSE
