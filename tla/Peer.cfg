SPECIFICATION FairSpec
CONSTANTS
  n1 = n1
  n2 = n2
  n3 = n3
  NoTimer = NoTimer
  App = App
  Timers <- ThreeTimers
  HasCapabilities = TRUE
  LwtSet = TRUE
  MaxCalls = 3
  MaxDrops = 1
  MaxOutbox = 2
  MayCrash = TRUE
CHECK_DEADLOCK FALSE
INVARIANTS
  TypeOK
  FarewellIsLast
  
  LostShowsOffline
PROPERTIES
  RunningShowsOnline
