CONSTANTS
  u1 = u1
  u2 = u2
  g1 = g1
  g2 = g2
  g3 = g3
  g4 = g4
  Nobody = Nobody
  Users = {u1, u2}
  Games = {g1, g2, g3, g4}
  Played <- MCPlayed
  MonthLength = 2
  Days = {7, 30}
  Span <- MCSpan
  MaxPending = 1
  MaxHistory = 1
  Scopes <- MCScopes
  MaxNow = 3
SPECIFICATION Spec
INVARIANTS
  TypeOK
  NothingForgotten
  CheckpointedIsStored
  WindowStored
PROPERTIES
  CancelledIsFinal
CHECK_DEADLOCK FALSE
