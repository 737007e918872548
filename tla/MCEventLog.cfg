CONSTANTS
  k1 = k1
  k2 = k2
  Keys = {k1, k2}
  Sizes <- MCSizes
  MaxRecords = 3
  Failures = {"write", "short", "sync", "directory"}
SPECIFICATION Spec
INVARIANTS
  TypeOK
  AcknowledgedSurvive
  OnlyTailTorn
  IdsInOrder
PROPERTIES
  CompactionKeepsState
