SPECIFICATION Spec
CONSTANTS
  proc1 = proc1
  proc2 = proc2
  camera = camera
  imu = imu
  monitor = monitor
  late = late
  web = web
  Untracked = Untracked
  Unknown = Unknown
  PahoClients <- MCClients
  Unsteady = {proc1}
  MaxDrops = 1
  Interfaces <- MCInterfaces
  Owner <- MCOwner
  Subscribers <- MCSubscribers
  FromStart = {monitor, web}
  WebUI = web
  MaxChanges = 3
  component <- MCComponent
  capabilities <- MCCapabilities
  WithWill = {proc1}
  MaxStarts = 4
CHECK_DEADLOCK FALSE
INVARIANTS
  KnownModeTrue
  
  
PROPERTIES
  ComponentComesBack
