SPECIFICATION Spec
CONSTANTS
  j1 = j1  j2 = j2  j3 = j3
  Jobs = {j1}
  Keys = {1, 2, 3}
  Size <- Sizes
  Cap = 3
  Failures = {}
  None = None
INVARIANTS TestsSeeTheInstall
CHECK_DEADLOCK FALSE
