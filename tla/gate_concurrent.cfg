SPECIFICATION Spec
CONSTANTS
  Actions = {a1}
  Workers = {w1, w2}
  Records = {r1}
  None = None
  InvokeOutcomes = {"ok", "noid", "rejected", "lost"}
  Swallowed = {"record", "audit"}
  MaxRequests = 4
  MaxAborts = 1
  MaxEdits = 1
  CanExpire = TRUE
INVARIANTS
  TypeOK
  WritesAreGranted
  AuditIsTruthful
  SettledStaysSettled
PROPERTIES
  ImplementsContract
CHECK_DEADLOCK FALSE
