SPECIFICATION Spec
CONSTANTS
  thread1 = thread1
  thread2 = thread2
  mpu = mpu
  led = led
  relay = relay
  cam1 = cam1
  cam2 = cam2
  cam3 = cam3
  imu = imu
  gps = gps
  Idle = Idle
  NoDevice = NoDevice
  NotSetUp = NotSetUp
  NoCallback = NoCallback
  NoMode = NoMode
  Threads <- MCThreads
  Addresses <- MCAddresses
  Registers = 4
  ByteValues = 4
  Transactions <- MCTransactions
  Pins <- MCPins
  Callbacks <- MCCallbacks
  Cameras <- MCCameras
  FirstCamera = cam1
  SensorNames <- MCSensorNames
  update_interval = 2
  MaxTime = 4
  MaxSlots = 3
  chunk_size = 2
  Lengths = {3}
  MaxCalls = 6
  I2CCalls = 3
  PinCalls = 6
  CameraCalls = 4
  SensorCalls = 4
  StreamCalls = 5
INVARIANTS
  RegistersHold
  
  HandedBackOnce
  FramesNumbered
  Paced
  
  StreamsWhole
PROPERTIES
  CallsEnd
