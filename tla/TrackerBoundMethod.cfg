SPECIFICATION TrackerSpec
CONSTANTS
  t1 = t1
  t2 = t2
  camera = camera
  imu = imu
  mockCam = mockCam
  realCam = realCam
  log = log
  tts = tts
  web = web
  NoThread = NoThread
  NoRecord = NoRecord
  Unknown = Unknown
  Threads <- MCThreads
  Interfaces <- MCInterfaces
  Implementations <- MCImplementations
  ClassOf <- MCClassOf
  Override <- MCOverride
  MockNamed <- MCImplementations
  Listeners <- MCListeners
  FirstListeners <- MCFirstListeners
  Publishing = {}
  Editing = {}
  Faulty = {}
  BoundMethods = {web}
  MaxCalls = 2
INVARIANTS
  RemovedListenersAreGone
