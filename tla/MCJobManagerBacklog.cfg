CONSTANTS
  Games = {g1, g2, g3}
  Clients = {c1, c2}
  Workers = {w1}
  MaxQueued = 1
  RetryLimit = 1
  MaxJobs = 3
  Asked = {0}
  Ops = {"start"}
  Faults = {"engine", "exception", "save"}
  Restarts = FALSE
SPECIFICATION Spec
SYMMETRY Symmetric
INVARIANTS
  BacklogBounded
  OneLiveJobPerGame
CHECK_DEADLOCK FALSE
