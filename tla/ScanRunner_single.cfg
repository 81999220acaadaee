SPECIFICATION Spec
CONSTANTS
  s1 = s1  s2 = s2  d1 = d1  d2 = d2  d3 = d3  c1 = c1  c2 = c2
  Scans = {s1}
  Deps = {d1, d2, d3}
  MaxDeps = 2
  Clients = {c1}
  SlugPrefix <- NestedSlugs3
  Faults = {"crash", "db", "lost"}
  None = None
INVARIANTS TerminalAgreement CleanPRs LinksMatchTheSlug
PROPERTIES PendingCancelStopsQueue LifecycleSpec
CHECK_DEADLOCK FALSE
