SPECIFICATION Spec
CONSTANTS
  j1 = j1  j2 = j2  j3 = j3
  Jobs = {j1, j2}
  Keys = {1, 2, 3}
  Size <- Sizes
  Cap = 3
  Failures = {"install", "docker"}
  None = None
SYMMETRY Symmetry
INVARIANTS CapAtRest
PROPERTIES FrugalEviction
CHECK_DEADLOCK FALSE
