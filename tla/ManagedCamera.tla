--------------------------- MODULE ManagedCamera ---------------------------
(***************************************************************************)
(* A camera used through its Provider (simulation/hal/provider.py): calls go  *)
(* to the active MockCamera (simulation/layer0/camera.py), and whoever swaps  *)
(* it releases the camera that swap hands back.  The provider's lock makes a   *)
(* step of what it encloses; the camera itself has none.                     *)
(***************************************************************************)
EXTENDS Callers

CONSTANTS
  Cameras,       \* camera objects
  FirstCamera    \* the one the provider is built with

\* The calls a thread may be in: a swap, a release, a capture with what it has
\* read so far.
CameraRecords ==
  [step : {"swap"}, camera : Cameras, old : Cameras]
    \cup [step : {"release", "capture", "load"}, camera : Cameras]
    \cup [step : {"store", "number"}, camera : Cameras, count : Nat]

ASSUME CameraConstants ==
  /\ FirstCamera \in Cameras
  /\ Idle \notin CameraRecords

VARIABLES
  active,        \* _impl of the provider
  made,          \* the cameras that have been made
  is_open, frame_count,   \* of each camera
  numbered,      \* history: the frame numbers each camera has given out, in order
  jostled        \* history: cameras of which two captures overlapped

cameraVars == <<callerVars, active, made, is_open, frame_count, numbered, jostled>>
cameraState == <<is_open, frame_count, numbered, jostled>>

Capturing(t, k) ==
  Has(t, "camera") /\ call[t].step \in {"capture", "load", "store", "number"} /\ call[t].camera = k

---------------------------------------------------------------------------
\* provider.swap(MockCamera(...)) is called.
MakeAndSwap(t, k) ==
  /\ k \notin made
  /\ Begin(t, [step |-> "swap", camera |-> k, old |-> active])
  /\ made' = made \cup {k}
  /\ UNCHANGED <<active, cameraState>>

\* Variant with a bug: the old implementation is read before the lock is taken.
SwapReadsFirst(t) ==
  /\ At(t, "swap")
  /\ active' = call[t].camera
  /\ Continue(t, [step |-> "release", camera |-> call[t].old])
  /\ UNCHANGED <<made, cameraState>>

\* with self._lock: old = self._impl; self._impl = new_impl; return old.
Swap(t) ==
  /\ At(t, "swap")
  /\ active' = call[t].camera
  /\ Continue(t, [step |-> "release", camera |-> active])
  /\ UNCHANGED <<made, cameraState>>

Release(t) ==
  /\ At(t, "release")
  /\ is_open' = [is_open EXCEPT ![call[t].camera] = FALSE]
  /\ Return(t)
  /\ UNCHANGED <<active, made, frame_count, numbered, jostled>>

\* provider.capture(): the method is taken under the lock, and called after it.
TakeMethod(t) ==
  /\ Begin(t, [step |-> "capture", camera |-> active])
  /\ jostled' = IF \E u \in Threads : Capturing(u, active)
                THEN jostled \cup {active} ELSE jostled
  /\ UNCHANGED <<active, made, is_open, frame_count, numbered>>

CheckOpen(t) ==
  /\ At(t, "capture")
  /\ IF is_open[call[t].camera] THEN Goto(t, "load") ELSE Return(t)
  /\ UNCHANGED <<active, made, cameraState>>

\* self.frame_count += 1 is a read and a write.
LoadCount(t) ==
  LET k == call[t].camera IN
  /\ At(t, "load")
  /\ Continue(t, [step |-> "store", camera |-> k, count |-> frame_count[k]])
  /\ UNCHANGED <<active, made, cameraState>>

StoreCount(t) ==
  /\ At(t, "store")
  /\ frame_count' = [frame_count EXCEPT ![call[t].camera] = call[t].count + 1]
  /\ Goto(t, "number")
  /\ UNCHANGED <<active, made, is_open, numbered, jostled>>

\* Variant with a bug: the frame takes the number the count had before.
NumberFrameBefore(t) ==
  LET k == call[t].camera IN
  /\ At(t, "number")
  /\ numbered' = [numbered EXCEPT ![k] = Append(@, frame_count[k] - 1)]
  /\ Return(t)
  /\ UNCHANGED <<active, made, is_open, frame_count, jostled>>

\* "frame_number": self.frame_count, read again.
NumberFrame(t) ==
  LET k == call[t].camera IN
  /\ At(t, "number")
  /\ numbered' = [numbered EXCEPT ![k] = Append(@, frame_count[k])]
  /\ Return(t)
  /\ UNCHANGED <<active, made, is_open, frame_count, jostled>>

---------------------------------------------------------------------------
CameraInit ==
  /\ active = FirstCamera /\ made = {FirstCamera}
  /\ is_open = [k \in Cameras |-> TRUE]
  /\ frame_count = [k \in Cameras |-> 0]
  /\ numbered = [k \in Cameras |-> << >>]
  /\ jostled = {}

CameraCall(t) == TakeMethod(t) \/ \E k \in Cameras : MakeAndSwap(t, k)

CameraStep(t) ==
  \/ Swap(t) \/ Release(t) \/ CheckOpen(t)
  \/ LoadCount(t) \/ StoreCount(t) \/ NumberFrame(t)

\* The application that uses this camera and nothing else.
CameraSpec ==
  /\ CallersInit /\ CameraInit
  /\ [][\E t \in Threads : CameraCall(t) \/ CameraStep(t)]_cameraVars

---------------------------------------------------------------------------
\* "Returns the old implementation" (swap): each camera that was active is handed
\* back to exactly one swap, so the active one is open, every other one is
\* released once and no device is left open, in whatever order threads swap.
\* A capture therefore fails only if its method was taken before a swap.
Replaced == {call[t].camera : t \in {u \in Threads : At(u, "release")}}
Coming == {call[t].camera : t \in {u \in Threads : At(u, "swap")}}

HandedBackOnce ==
  /\ is_open[active]
  /\ \A t, u \in Threads :
       At(t, "release") /\ At(u, "release") /\ t # u => call[t].camera # call[u].camera
  /\ {k \in made : is_open[k]} = {active} \cup Replaced \cup Coming
  /\ active \notin Replaced

\* frame_number counts the frames of a camera: captures of one camera that never
\* overlapped number them 1, 2, 3..., also when the camera is swapped, swapped
\* out under a capture or released; overlapping ones may repeat a number, but
\* never invent one.
FramesNumbered ==
  \A k \in Cameras :
    /\ k \notin jostled => \A n \in DOMAIN numbered[k] : numbered[k][n] = n
    /\ \A n \in DOMAIN numbered[k] : numbered[k][n] \in 1..(Len(numbered[k])
         + Cardinality({t \in Threads : Capturing(t, k)}))
=============================================================================
