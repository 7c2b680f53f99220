SPECIFICATION Spec
CONSTANTS
  None = None
  Ratio <- SomeRatio
  MatchFloor = 90
  MaxCompanyMatches = 1
  Portals <- SomePortals
  EditsOf <- SomeEdits
  MaxEdits = 2
  Jobs <- SomeJobs
  CandidateFetch = 2
  DealFetch = 2
  CompanyFetch = 2
  MaxNameMatches = 3
  MaxCompanyContacts = 2
  Home = "eur"
  DefaultOwner = "o2"
INVARIANTS
  NeverGuesses
  NothingTwice
PROPERTIES
  NoLostEdit
  NeverContactedIsTrue
CHECK_DEADLOCK FALSE
