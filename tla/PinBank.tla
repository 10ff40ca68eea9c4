------------------------------ MODULE PinBank ------------------------------
(***************************************************************************)
(* simulation/layer0/gpio.py: pins shared by the whole process, with          *)
(* callbacks that output() runs when the value of a pin changes.  The         *)
(* callback is the last thing output does, so a callback that calls output    *)
(* again goes on as that call.  Methods that test and then change one pin     *)
(* have the effect they would have at the moment of the change.              *)
(***************************************************************************)
EXTENDS Callers

CONSTANTS
  Pins,
  Callbacks,    \* what callbacks do: [does, pin]
  NotSetUp, NoCallback, NoMode

LOW == 0
HIGH == 1

\* The calls of output a thread may be in.
PinRecords ==
  [step : {"check", "read"}, pin : Pins, value : {LOW, HIGH}]
    \cup [step : {"write", "edge"}, pin : Pins, value : {LOW, HIGH}, old : {LOW, HIGH}]
    \cup [step : {"callback"}, pin : Pins, callback : Callbacks]

\* mirror: output(pin, input(the pin that changed)); clear: output(the same pin,
\* LOW); cleanup: cleanup(the same pin).
ASSUME PinConstants ==
  /\ \A b \in Callbacks : b.does \in {"mirror", "clear", "cleanup"} /\ b.pin \in Pins
  /\ NoCallback \notin Callbacks /\ Idle \notin PinRecords

VARIABLES
  mode,    \* _mode
  pins,    \* _pins
  seen,    \* history: the value each callback has last seen its pin at
  raced    \* history: pins that overlapping calls of output, or of output and
           \* setup or add_event_detect, were about since they were set up

pinVars == <<callerVars, mode, pins, seen, raced>>
bankVars == <<mode, pins, seen, raced>>

Known(p) == pins[p] # NotSetUp
Writing(t, p) == Has(t, "pin") /\ call[t].pin = p
Writers(p) == {t \in Threads : Writing(t, p)}

\* A call about pin p meets others that are writing it.
Meets(p) == raced' = IF Writers(p) # {} THEN raced \cup {p} ELSE raced

---------------------------------------------------------------------------
setmode(t) ==
  /\ Quick(t) /\ \E m \in {"BCM", "BOARD"} : mode' = m
  /\ UNCHANGED <<pins, seen, raced>>

\* setup replaces the pin, and with it the callback.
setup(t, p, direction, initial) ==
  /\ Quick(t) /\ mode # NoMode
  /\ pins' = [pins EXCEPT ![p] =
                [mode |-> direction, value |-> initial, edge_callback |-> NoCallback]]
  /\ raced' = IF Writers(p) # {} THEN raced \cup {p} ELSE raced \ {p}
  /\ UNCHANGED <<mode, seen>>

\* The edge asked for is kept and never looked at: it is left out.  No pin mirrors
\* itself: two threads would then call each other's edges out without end.
add_event_detect(t, p, b) ==
  /\ Quick(t) /\ Known(p) /\ (b.does = "mirror" => b.pin # p)
  /\ pins' = [pins EXCEPT ![p].edge_callback = b]
  /\ seen' = [seen EXCEPT ![p] = pins[p].value]
  /\ Meets(p)
  /\ UNCHANGED mode

remove_event_detect(t, p) ==
  /\ Quick(t) /\ Known(p)
  /\ pins' = [pins EXCEPT ![p].edge_callback = NoCallback]
  /\ UNCHANGED <<mode, seen, raced>>

cleanup(t, p) ==
  /\ Quick(t) /\ Known(p)
  /\ pins' = [pins EXCEPT ![p] = NotSetUp]
  /\ UNCHANGED <<mode, seen, raced>>

cleanup_all(t) ==
  /\ Quick(t)
  /\ pins' = [p \in Pins |-> NotSetUp] /\ mode' = NoMode
  /\ UNCHANGED <<seen, raced>>

---------------------------------------------------------------------------
Output(p, v) == [step |-> "check", pin |-> p, value |-> v]

output(t, p, v) ==
  /\ Begin(t, Output(p, v))
  /\ Meets(p)
  /\ UNCHANGED <<mode, pins, seen>>

\* if pin not in cls._pins ...; if its mode is not OUT ...
CheckPin(t) ==
  LET p == call[t].pin IN
  /\ At(t, "check")
  /\ IF Known(p) /\ pins[p].mode = "out" THEN Goto(t, "read") ELSE Return(t)
  /\ UNCHANGED bankVars

\* Cleaned up in the middle of output: KeyError.
PinGone(t) ==
  /\ \E s \in {"read", "write", "edge"} : At(t, s)
  /\ ~ Known(call[t].pin)
  /\ Return(t)
  /\ UNCHANGED bankVars

\* old = cls._pins[pin]["value"]
ReadOld(t) ==
  LET c == call[t] IN
  /\ At(t, "read") /\ Known(c.pin)
  /\ Continue(t, [step |-> "write", pin |-> c.pin, value |-> c.value,
                  old |-> pins[c.pin].value])
  /\ UNCHANGED bankVars

WriteValue(t) ==
  LET c == call[t] IN
  /\ At(t, "write") /\ Known(c.pin)
  /\ pins' = [pins EXCEPT ![c.pin].value = c.value]
  /\ Goto(t, "edge")
  /\ UNCHANGED <<mode, seen, raced>>

\* Variant with a bug: a callback for the rising edge alone.
TestEdgeRising(t) ==
  LET c == call[t] IN
  /\ At(t, "edge") /\ Known(c.pin)
  /\ IF pins[c.pin].edge_callback # NoCallback /\ c.old < c.value
     THEN Continue(t, [step |-> "callback", pin |-> c.pin,
                       callback |-> pins[c.pin].edge_callback])
     ELSE Return(t)
  /\ UNCHANGED bankVars

\* Variant with a bug: the callback is run whatever the value was before.
TestEdgeAlways(t) ==
  LET c == call[t] IN
  /\ At(t, "edge") /\ Known(c.pin)
  /\ IF pins[c.pin].edge_callback # NoCallback
     THEN Continue(t, [step |-> "callback", pin |-> c.pin,
                       callback |-> pins[c.pin].edge_callback])
     ELSE Return(t)
  /\ UNCHANGED bankVars

\* if cb and old != value
TestEdge(t) ==
  LET c == call[t] IN
  /\ At(t, "edge") /\ Known(c.pin)
  /\ IF pins[c.pin].edge_callback # NoCallback /\ c.old # c.value
     THEN Continue(t, [step |-> "callback", pin |-> c.pin,
                       callback |-> pins[c.pin].edge_callback])
     ELSE Return(t)
  /\ UNCHANGED bankVars

\* cb(pin): it reads the pin, if it is still there, and does what it is for.
RunCallback(t) ==
  LET c == call[t]
      target == IF c.callback.does = "mirror" THEN c.callback.pin ELSE c.pin
      value == IF c.callback.does = "mirror" THEN pins[c.pin].value ELSE LOW
  IN
  /\ At(t, "callback")
  /\ IF ~ Known(c.pin) THEN Return(t) /\ UNCHANGED bankVars
     ELSE /\ seen' = [seen EXCEPT ![c.pin] = pins[c.pin].value]
          /\ IF c.callback.does = "cleanup"
             THEN /\ pins' = [pins EXCEPT ![c.pin] = NotSetUp]
                  /\ Return(t) /\ UNCHANGED raced
             ELSE /\ Continue(t, Output(target, value))
                  /\ raced' = IF Writers(target) \ {t} # {} THEN raced \cup {target} ELSE raced
                  /\ UNCHANGED pins
          /\ UNCHANGED mode

---------------------------------------------------------------------------
PinInit ==
  /\ mode = NoMode
  /\ pins = [p \in Pins |-> NotSetUp]
  /\ seen = [p \in Pins |-> LOW]
  /\ raced = {}

PinCall(t) ==
  \/ setmode(t) \/ cleanup_all(t)
  \/ \E p \in Pins :
       \/ \E v \in {LOW, HIGH} : output(t, p, v)
       \/ \E d \in {"in", "out"} : setup(t, p, d, LOW)
       \/ \E b \in Callbacks : add_event_detect(t, p, b)
       \/ remove_event_detect(t, p) \/ cleanup(t, p)

PinStep(t) ==
  \/ CheckPin(t) \/ PinGone(t) \/ ReadOld(t) \/ WriteValue(t)
  \/ TestEdge(t) \/ RunCallback(t)

\* The application that uses the pins and nothing else.
PinSpec ==
  /\ CallersInit /\ PinInit
  /\ [][\E t \in Threads : PinCall(t) \/ PinStep(t)]_pinVars

---------------------------------------------------------------------------
\* A callback knows its pin: when nothing is going on at a pin, its callback has
\* seen it at the value it has now.  No edge is missed, none is reported before
\* the value is there, also when the callback sets the pin itself, when pins are
\* chained by their callbacks, or are cleaned up and set up again in between.
\* Only overlapping calls about the same pin, which read the old value before
\* the other has written, may lose an edge.
EdgesSeen ==
  \A p \in Pins \ raced :
    Known(p) /\ pins[p].edge_callback # NoCallback /\ Writers(p) = {} =>
      seen[p] = pins[p].value
=============================================================================
