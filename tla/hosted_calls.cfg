SPECIFICATION FairSpec
CONSTANTS
  Subjects = {s1, s2}
  None = None
  Rotates = {FALSE}
  MaxAges = 1
  MaxRevokes = 1
  MaxFaults = 1
  Browsers = {b1}
  Earlier <- Known
  Requests = {r1, r2}
  MaxPooled = 1
  ReadAttempts = 2
INVARIANTS
  OwnGrantOnly
  ReconnectOnlyIfGone
  NoClientLeak
  WriteSentOnce
PROPERTIES
  CallsEnd
CHECK_DEADLOCK FALSE
