SPECIFICATION Spec
CONSTANTS
  t1 = t1
  t2 = t2
  t3 = t3
  camera = camera
  imu = imu
  mockCam = mockCam
  realCam = realCam
  log = log
  web = web
  NoThread = NoThread
  NoRecord = NoRecord
  NoArgs = NoArgs
  Unknown = Unknown
  Threads <- TwoThreads
  Interfaces <- OneInterface
  Watched = {camera}
  Implementations <- MCImplementations
  Initial <- MCInitial
  ClassOf <- MCClassOf
  Override <- MCOverride
  MockNamed <- MCImplementations
  Listeners <- MCListeners
  FirstListeners <- BothListen
  Publishing = {}
  Editing = {}
  Faulty = {}
  BoundMethods = {}
  SerializedRegistration = FALSE
  Probing = {}
  MaxCalls = 3
INVARIANT RegistryAgrees
