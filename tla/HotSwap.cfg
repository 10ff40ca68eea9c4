SPECIFICATION FairSpec
CONSTANTS
  t1 = t1
  t2 = t2
  t3 = t3
  camera = camera
  imu = imu
  mockCam = mockCam
  realCam = realCam
  log = log
  web = web
  NoThread = NoThread
  NoRecord = NoRecord
  NoArgs = NoArgs
  Unknown = Unknown
  Threads <- TwoThreads
  Interfaces <- TwoInterfaces
  Watched = {camera}
  Implementations <- MCImplementations
  Initial <- MCInitial
  ClassOf <- MCClassOf
  Override <- MCOverride
  MockNamed <- MCImplementations
  Listeners <- MCListeners
  FirstListeners <- BothListen
  Publishing = {}
  Editing = {}
  Faulty = {log}
  BoundMethods = {}
  SerializedRegistration = TRUE
  Probing = {}
  MaxCalls = 3
INVARIANTS
  TypeOK
  RegistryAgrees
  LiveMeansLive
  ViewsSettle
PROPERTIES
  
  ImplementsBoard
  CallsReturn
