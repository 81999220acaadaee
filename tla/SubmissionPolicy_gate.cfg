SPECIFICATION Spec
CONSTANTS
  s1 = s1  s2 = s2
  Symbols = {s1, s2}
  Coverages = {79, 80}
  Thresholds = {40, 70}
  Ceilings = {"high", "medium"}
  BumpKinds = {"patch", "major"}
  BreakTypes = {"removed"}
  Floors = {90}
  Disturbances = {"db"}
SYMMETRY Symmetry
INVARIANTS BucketMatchesScore FailedEvidenceIsLow AgreementNeverHurts ForeignPRsWelcome VerdictIsAudited
