CONSTANTS
  g1 = g1
  g2 = g2
  c1 = c1
  r1 = r1
  r2 = r2
  e1 = e1
  e2 = e2
  m1 = m1
  Games = {g1, g2}
  Corpus = {c1}
  Resources = {r1, r2}
  Entries = {e1, e2}
  Months = {m1}
  Scopes <- MCScopes
  Failures = {"write", "sync"}
  SnapshotEvery = 1
  Bounds <- MCBounds
  MaxSnapshots = 2
  MaxMishaps = 2
SPECIFICATION Spec
INVARIANTS
  TypeOK
  RestartIsInvisible
  ShownIsKept
  DependentsComplete
  IndexCurrent
PROPERTIES
  CompactionKeepsView
CHECK_DEADLOCK FALSE
SYMMETRY Symmetry
