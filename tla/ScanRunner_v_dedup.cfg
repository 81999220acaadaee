SPECIFICATION Spec
CONSTANTS
  s1 = s1  s2 = s2  d1 = d1  d2 = d2  d3 = d3  c1 = c1  c2 = c2
  Scans = {s1, s2}
  Deps = {d1}
  MaxDeps = 1
  Clients = {}
  SlugPrefix <- OwnSlugs1
  Faults = {}
  None = None
INVARIANTS OnePRPerDep
CHECK_DEADLOCK FALSE
