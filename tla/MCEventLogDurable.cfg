CONSTANTS
  k1 = k1
  k2 = k2
  Keys = {k1, k2}
  Sizes <- MCSizes
  MaxRecords = 3
  Failures = {"write", "short"}
SPECIFICATION Spec
INVARIANTS
  AllAcknowledgedSurvive
