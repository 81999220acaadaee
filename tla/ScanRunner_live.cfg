SPECIFICATION FairSpec
CONSTANTS
  s1 = s1  s2 = s2  d1 = d1  d2 = d2  d3 = d3  c1 = c1  c2 = c2
  Scans = {s1, s2}
  Deps = {d1}
  MaxDeps = 1
  Clients = {c1}
  SlugPrefix <- OwnSlugs1
  Faults = {"reset"}
  None = None
INVARIANTS NoOrphanPR
PROPERTIES EveryScanSettles EarlyStreamsEnd EmittersReleased
CHECK_DEADLOCK FALSE
