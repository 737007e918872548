CONSTANTS
  Workers = {w1, w2}
  Callers = {c1, c2}
  MaxPending = 2
  RetryLimit = 1
  Nobody = Nobody
SPECIFICATION FairSpec
PROPERTIES
  AnsweredUnlessOutranked
  ShutdownCompletes
CHECK_DEADLOCK FALSE
