SPECIFICATION FairSpec
CONSTANTS
  d1 = d1  d2 = d2
  Queue <- TwoDeps
  MaxVisits = 1
  MaxLag = 2
  Failures = {"network", "database"}
  Homes = {"server", "elsewhere"}
  None = None
INVARIANTS PrOnItsCard SettledPageIsComplete
PROPERTIES EarlyPageSettles
CHECK_DEADLOCK FALSE
