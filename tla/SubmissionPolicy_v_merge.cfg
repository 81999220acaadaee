SPECIFICATION Spec
CONSTANTS
  s1 = s1  s2 = s2
  Symbols = {s1}
  Coverages = {80}
  Thresholds = {70}
  Ceilings = {"high"}
  BumpKinds = {"patch"}
  BreakTypes = {"removed"}
  Floors = {90}
  Disturbances = {}
SYMMETRY Symmetry
INVARIANTS SafeUpgradesMerge
