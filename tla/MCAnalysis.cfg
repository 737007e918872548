CONSTANTS
  Evaluations <- MCEvaluations
  Points <- MCPoints
  Threshold = 80
  MaxDeep = 2
  TopMistakes = 1
  Scopes <- MCScopes
SPECIFICATION Spec
INVARIANTS
  BoardSound
  NamesAreUnique
  AnswersMatch
  ReviewConsistent
CHECK_DEADLOCK FALSE
