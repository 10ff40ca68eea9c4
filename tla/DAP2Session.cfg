SPECIFICATION FairSpec
CONSTANTS
  Sentences = 2
  MaxConnects = 2
  MaxQueries = 2
  MaxPings = 2
CHECK_DEADLOCK FALSE
INVARIANTS
  TypeOK
  OwnAnswer
  PongsMatch
PROPERTIES
  CallsReturn
