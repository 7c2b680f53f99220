SPECIFICATION Spec
CONSTANTS
  x1 = x1
  x2 = x2
  x3 = x3
  v1 = v1
  v2 = v2
  v3 = v3
  Ids = {x1, x2, x3}
  Vals = {v1, v2, v3}
  NoId = NoId
  NoVal = NoVal
  Absent = Absent
  KnownTypes = {v1}
  Returned <- SomeReturned
  SearchLimit = 3
  CompareLimit = 2
  Requested <- AskAll
  Given <- GiveSome
  MaxEdits = 1
INVARIANTS
  VerifiedDeleteIsGone
  VerifiedUpdateTook
PROPERTIES
  
  WorkflowEditsKept
CHECK_DEADLOCK FALSE
