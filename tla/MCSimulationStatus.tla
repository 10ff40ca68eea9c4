------------------------ MODULE MCSimulationStatus ------------------------
(* Small instances of SimulationStatus for TLC. *)
EXTENDS SimulationStatus, TLC

CONSTANTS t1, t2, camera, imu, mockCam, realCam, log, tts, web

\* Two classes; the second implementation says of itself that it is real
\* although its module lies under simulation.layer0.
MCClassOf == (mockCam :> "MockCamera") @@ (realCam :> "V4L2Camera")
MCOverride == realCam :> FALSE

MCThreads == {t1, t2}
MCInterfaces == {camera, imu}
MCImplementations == {mockCam, realCam}
MCListeners == {log, tts, web}
MCFirstListeners == <<log, tts, web>>
=============================================================================
