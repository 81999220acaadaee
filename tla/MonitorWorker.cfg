SPECIFICATION FairSpec
CONSTANTS
  r1 = r1  r2 = r2  f1 = f1  f2 = f2  f3 = f3
  Repos = {r1}
  Fires = {f1, f2}
  MaxConcurrent = 1
  MinGap = 2
  MaxTime = 2
  Disturbances = {"db", "key", "delete", "stop"}
  None = None
INVARIANTS ConcurrencyCap SlotsHeld EveryDecisionLogged NoUnloggedScan GapAfterSuccess
PROPERTIES EveryFireEnds
CHECK_DEADLOCK FALSE
