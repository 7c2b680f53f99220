SPECIFICATION Spec
CONSTANTS
  Actions = {a1}
  Workers = {w1}
  Records = {r1}
  None = None
  InvokeOutcomes = {"ok", "noid", "rejected", "lost"}
  Swallowed = {"record", "audit"}
  MaxRequests = 3
  MaxAborts = 0
  MaxEdits = 0
  CanExpire = FALSE
PROPERTIES
  DroppedSnapshotHadNothingToUndo
CHECK_DEADLOCK FALSE
