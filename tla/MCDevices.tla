----------------------------- MODULE MCDevices -----------------------------
(***************************************************************************)
(* The devices of layer0 for TLC.  They share no state: a behaviour is about   *)
(* one of them, which the threads of an application use.                     *)
(***************************************************************************)
EXTENDS I2CBus, PinBank, ManagedCamera, SensorArray, Streams

CONSTANTS thread1, thread2, mpu, led, relay, cam1, cam2, cam3, imu, gps,
          I2CCalls, PinCalls, CameraCalls, SensorCalls, StreamCalls

VARIABLE device

i2cState == <<devices, written, clashed>>
camState == <<active, made, cameraState>>
sensorState == <<clock, is_active, arrayState, readState, shared>>
vars == <<device, callerVars, i2cState, bankVars, camState, sensorState, streamState>>

others(d) ==
  /\ d # "i2c" => UNCHANGED i2cState
  /\ d # "gpio" => UNCHANGED bankVars
  /\ d # "camera" => UNCHANGED camState
  /\ d # "sensor" => UNCHANGED sensorState
  /\ d # "stream" => UNCHANGED streamState
  /\ UNCHANGED device

Init ==
  /\ device \in {"i2c", "gpio", "camera", "sensor", "stream"}
  /\ CallersInit
  /\ I2CInit /\ PinInit /\ CameraInit /\ SensorInit /\ StreamInit

Limit(d) ==
  CASE d = "i2c" -> I2CCalls [] d = "gpio" -> PinCalls [] d = "camera" -> CameraCalls
    [] d = "sensor" -> SensorCalls [] d = "stream" -> StreamCalls

Calls(t) ==
  /\ calls < Limit(device)
  /\ \/ device = "i2c" /\ I2CCall(t) /\ others("i2c")
     \/ device = "gpio" /\ PinCall(t) /\ others("gpio")
     \/ device = "camera" /\ CameraCall(t) /\ others("camera")
     \/ device = "sensor" /\ SensorCall(t) /\ others("sensor")
     \/ device = "stream" /\ StreamCall(t) /\ others("stream")

Steps(t) ==
  \/ device = "i2c" /\ I2CStep(t) /\ others("i2c")
  \/ device = "gpio" /\ PinStep(t) /\ others("gpio")
  \/ device = "camera" /\ CameraStep(t) /\ others("camera")
  \/ device = "sensor" /\ SensorStep(t) /\ others("sensor")
  \/ device = "stream" /\ StreamStep(t) /\ others("stream")

TimePasses == device = "sensor" /\ Tick /\ others("sensor")

AtRest ==
  /\ calls = Limit(device) /\ \A t \in Threads : call[t] = Idle
  /\ UNCHANGED vars

Next == TimePasses \/ AtRest \/ \E t \in Threads : Calls(t) \/ Steps(t)

\* A call that has begun goes on, and so does time; nobody has to make a call.
Spec ==
  /\ Init /\ [][Next]_vars
  /\ WF_vars(TimePasses)
  /\ \A t \in Threads : WF_vars(Steps(t))

---------------------------------------------------------------------------
MCThreads == {thread1, thread2}
MCAddresses == {mpu}

Bytes(register, data, block, writes) ==
  [address |-> mpu, register |-> register, data |-> data, block |-> block, writes |-> writes]

\* Four registers and two values of a byte stand for 256 each: a block that wraps,
\* a value of more than eight bits, a register counted from the end, one out of
\* range; the single calls about register 0 are write_byte and read_byte.
MCTransactions ==
  {Bytes(0, <<1>>, FALSE, TRUE), Bytes(-1, <<5>>, FALSE, TRUE), Bytes(4, <<1>>, FALSE, TRUE),
   Bytes(3, <<1, 2>>, TRUE, TRUE), Bytes(2, <<0, 0, 0>>, TRUE, FALSE),
   Bytes(3, <<0>>, FALSE, FALSE)}

MCPins == {led, relay}
MCCallbacks ==
  {[does |-> "mirror", pin |-> relay], [does |-> "clear", pin |-> led],
   [does |-> "cleanup", pin |-> led]}

MCCameras == {cam1, cam2, cam3}
MCSensorNames == {imu, gps}
=============================================================================
