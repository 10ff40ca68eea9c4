SPECIFICATION Spec
CONSTANTS
  Sentences = 2
  MaxConnects = 1
  MaxQueries = 2
  MaxPings = 1
CHECK_DEADLOCK FALSE
INVARIANTS
  AnswersMatch
