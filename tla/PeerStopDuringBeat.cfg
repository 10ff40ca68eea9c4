SPECIFICATION Spec
CONSTANTS
  n1 = n1
  n2 = n2
  n3 = n3
  NoTimer = NoTimer
  App = App
  Timers <- TwoTimers
  HasCapabilities = TRUE
  LwtSet = TRUE
  MaxCalls = 2
  MaxDrops = 0
  MaxOutbox = 3
  MayCrash = FALSE
CHECK_DEADLOCK FALSE
INVARIANTS
  StoppedShowsOffline
