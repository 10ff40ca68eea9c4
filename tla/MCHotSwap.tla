----------------------------- MODULE MCHotSwap -----------------------------
(* Small instances of HotSwap for TLC. *)
EXTENDS HotSwap, TLC

CONSTANTS t1, t2, t3, camera, imu, mockCam, realCam, log, web

MCClassOf == (mockCam :> "MockCamera") @@ (realCam :> "V4L2Camera")
MCOverride == realCam :> FALSE
MCInitial == [i \in Interfaces |-> mockCam]

TwoThreads == {t1, t2}
ThreeThreads == {t1, t2, t3}
OneInterface == {camera}
TwoInterfaces == {camera, imu}
MCImplementations == {mockCam, realCam}
MCListeners == {log, web}
BothListen == <<log, web>>
LogListens == <<log>>
=============================================================================
