SPECIFICATION Spec
CONSTANTS
  Count = 2
  Thresholds = {1, 2}
  Workers = {w1, w2}
  None = None
  WriteOutcomes = {"ok", "rejected", "lost"}
  MaxRequests = 3
  MaxAborts = 1
  MaxEdits = 1
SYMMETRY Symmetry
INVARIANTS
  ReportedIsRevertible
PROPERTIES
  DriftIsKept
CHECK_DEADLOCK FALSE
