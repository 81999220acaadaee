SPECIFICATION FairSpec
CONSTANTS
  g1 = g1  d1 = d1  s1 = s1  s2 = s2  cron = cron  route = route  ui = ui
  PRs = {g1}
  Rows = {1, 2}
  RowPR <- TwoRowsPR
  RowScan <- TwoRowsScan
  RowDep <- TwoRowsDep
  RowToken <- TwoRowsToken
  Crons = {cron}
  Routes = {route}
  Clients = {ui}
  Kinds = {}
  MaxReopens = 1
  Faults = {"github", "database", "crash"}
  None = None
INVARIANTS ResolutionsAreTrue NoLessonLost DuplicatesNeedOverlap
PROPERTIES EveryCloseIsLearned
CHECK_DEADLOCK FALSE
