---------------------------- MODULE SensorArray ----------------------------
(***************************************************************************)
(* simulation/layer0/sensor.py: sensors that hold a reader back until their    *)
(* interval has passed, and an array of sensors that is read as a whole while *)
(* threads add, remove, activate, deactivate and reset sensors.              *)
(* The values of the readings (sine waves of the clock) are left out.         *)
(***************************************************************************)
EXTENDS Callers

CONSTANTS
  SensorNames,       \* keys of the array
  update_interval,   \* of the sensor that is in no array, in ticks of the clock
  MaxTime,           \* bound on the clock while nobody sleeps
  MaxSlots           \* bound on the entries of the dict, deleted ones included

\* The dict of CPython moves its entries when a sixth one is added.
ASSUME SensorConstants ==
  /\ {update_interval, MaxTime} \subseteq Nat
  /\ MaxSlots \in 1..5

VARIABLES
  clock,
  is_active, last_reading_time,
  slots,       \* the entries of the dict in order of insertion
  sensorsMade, \* sensors the array has made
  taken,       \* history: when each sensor gave its readings since its reset
  shared       \* history: sensors of which two reads, or a read and a reset, met

sensorVars == <<callerVars, clock, is_active, last_reading_time, slots, sensorsMade, taken, shared>>
readState == <<last_reading_time, taken>>
arrayState == <<slots, sensorsMade>>

\* 0 is the sensor in no array; add_sensor gives its sensors no interval.
Solo == 0
MaxSensors == MaxSlots + 1
AllSensors == Solo..MaxSensors
Interval(s) == IF s = Solo THEN update_interval ELSE 0

Removed == [name |-> "removed"]
Live == {k \in DOMAIN slots : slots[k] # Removed}
Names == {slots[k].name : k \in Live}
SlotOf(n) == CHOOSE k \in Live : slots[k].name = n

ReadingOf(t, s) ==
  Has(t, "sensor") /\ call[t].step \in {"active", "sleep", "store"} /\ call[t].sensor = s

\* t is about to read s, or to reset it.
MeetReaders(t, s) ==
  shared' = IF \E u \in Threads \ {t} : ReadingOf(u, s) THEN shared \cup {s} ELSE shared

---------------------------------------------------------------------------
\* read() of the lone sensor, read_sensor(name) of one in the array.
read(t, s) ==
  /\ Begin(t, [step |-> "active", sensor |-> s, all |-> FALSE, time |-> 0])
  /\ MeetReaders(t, s)
  /\ UNCHANGED <<clock, is_active, arrayState, readState>>

read_sensor(t, n) == n \in Names /\ read(t, slots[SlotOf(n)].sensor)

\* An iterator over a dict keeps its size and how many items are to come.  time is
\* when a read goes on after its sleep, then when its reading is taken.
\* History: the names that have been in the array all the time, or at some time.
read_all(t) ==
  /\ Begin(t, [step |-> "item", all |-> TRUE, at |-> 1, size |-> Cardinality(Names),
               left |-> Cardinality(Names), got |-> {}, stayed |-> Names, present |-> Names])
  /\ UNCHANGED <<clock, is_active, arrayState, readState, shared>>

Ahead(c) == {k \in Live : k >= c.at}

NextItem(t) ==
  LET c == call[t]
      k == CHOOSE j \in Ahead(c) : \A i \in Ahead(c) : j <= i
  IN
  /\ At(t, "item") /\ Cardinality(Names) = c.size /\ Ahead(c) # {} /\ c.left > 0
  /\ Continue(t, [step |-> "active", all |-> TRUE, at |-> k + 1, size |-> c.size,
                  left |-> c.left - 1, got |-> c.got, stayed |-> c.stayed,
                  present |-> c.present, sensor |-> slots[k].sensor,
                  name |-> slots[k].name, time |-> 0])
  /\ MeetReaders(t, slots[k].sensor)
  /\ UNCHANGED <<clock, is_active, arrayState, readState>>

\* RuntimeError: the dict has changed its size, or holds a key too many.
DictChanged(t) ==
  /\ At(t, "item")
  /\ Cardinality(Names) # call[t].size \/ (Ahead(call[t]) # {} /\ call[t].left = 0)
  /\ Return(t)
  /\ UNCHANGED <<clock, is_active, arrayState, readState, shared>>

AllRead(t) ==
  /\ At(t, "item") /\ Cardinality(Names) = call[t].size /\ Ahead(call[t]) = {}
  /\ Goto(t, "readings")
  /\ UNCHANGED <<clock, is_active, arrayState, readState, shared>>

ReadAllReturns(t) ==
  /\ At(t, "readings") /\ Return(t)
  /\ UNCHANGED <<clock, is_active, arrayState, readState, shared>>

---------------------------------------------------------------------------
\* Variant with a bug: read_all passes over a sensor that is not active.
ReadInactivePassed(t) ==
  /\ At(t, "active") /\ ~ is_active[call[t].sensor]
  /\ IF call[t].all THEN Goto(t, "item") ELSE Return(t)
  /\ UNCHANGED <<clock, is_active, arrayState, readState, shared>>

\* RuntimeError, from read and from the read_all it is part of.
ReadInactive(t) ==
  /\ At(t, "active") /\ ~ is_active[call[t].sensor]
  /\ Return(t)
  /\ UNCHANGED <<clock, is_active, arrayState, readState, shared>>

Stamped(c) == [c EXCEPT !.step = "store", !.time = clock]
Asleep(c, rest) == [c EXCEPT !.step = "sleep", !.time = clock + rest]

\* Variant with a bug: it sleeps as long as has passed already.
CheckIntervalPassed(t) ==
  LET c == call[t]
      elapsed == clock - last_reading_time[c.sensor]
  IN
  /\ At(t, "active") /\ is_active[c.sensor]
  /\ Continue(t, IF elapsed < Interval(c.sensor) THEN Asleep(c, elapsed) ELSE Stamped(c))
  /\ UNCHANGED <<clock, is_active, arrayState, readState, shared>>

\* elapsed_since_last < update_interval: sleep for the rest.
CheckInterval(t) ==
  LET c == call[t]
      elapsed == clock - last_reading_time[c.sensor]
  IN
  /\ At(t, "active") /\ is_active[c.sensor]
  /\ Continue(t, IF elapsed < Interval(c.sensor)
                 THEN Asleep(c, Interval(c.sensor) - elapsed) ELSE Stamped(c))
  /\ UNCHANGED <<clock, is_active, arrayState, readState, shared>>

\* now = time.time() again.
Wake(t) ==
  /\ At(t, "sleep") /\ clock >= call[t].time
  /\ Continue(t, Stamped(call[t]))
  /\ UNCHANGED <<clock, is_active, arrayState, readState, shared>>

\* self.last_reading_time = now, and the reading of that time.
StoreTime(t) ==
  LET c == call[t] IN
  /\ At(t, "store")
  /\ last_reading_time' = [last_reading_time EXCEPT ![c.sensor] = c.time]
  /\ taken' = [taken EXCEPT ![c.sensor] = Append(@, c.time)]
  /\ IF c.all THEN Continue(t, [c EXCEPT !.step = "item", !.got = @ \cup {c.name}])
              ELSE Return(t)
  /\ UNCHANGED <<clock, is_active, arrayState, shared>>

---------------------------------------------------------------------------
activate(t, s) ==
  /\ Quick(t) /\ is_active' = [is_active EXCEPT ![s] = TRUE]
  /\ UNCHANGED <<clock, arrayState, readState, shared>>

deactivate(t, s) ==
  /\ Quick(t) /\ is_active' = [is_active EXCEPT ![s] = FALSE]
  /\ UNCHANGED <<clock, arrayState, readState, shared>>

reset(t, s) ==
  /\ Quick(t) /\ MeetReaders(t, s)
  /\ last_reading_time' = [last_reading_time EXCEPT ![s] = 0]
  /\ taken' = [taken EXCEPT ![s] = << >>]
  /\ UNCHANGED <<clock, is_active, arrayState>>

\* The history of the reads of the whole array, when n comes or goes.
Noted(stays, n) ==
  [u \in Threads |->
     IF call[u] = Idle \/ ~ call[u].all THEN call[u]
     ELSE [call[u] EXCEPT !.stayed = IF stays THEN @ ELSE @ \ {n}, !.present = @ \cup {n}]]

ArrayCall(t) == call[t] = Idle /\ calls < MaxCalls /\ calls' = calls + 1

\* A name that is there keeps its entry and gets another sensor.
add_sensor(t, n) ==
  LET entry == [name |-> n, sensor |-> sensorsMade + 1] IN
  /\ sensorsMade < MaxSensors
  /\ IF n \in Names THEN slots' = [slots EXCEPT ![SlotOf(n)] = entry]
     ELSE Len(slots) < MaxSlots /\ slots' = Append(slots, entry)
  /\ sensorsMade' = sensorsMade + 1
  /\ ArrayCall(t) /\ call' = Noted(TRUE, n)
  /\ UNCHANGED <<clock, is_active, readState, shared>>

remove_sensor(t, n) ==
  /\ n \in Names
  /\ slots' = [slots EXCEPT ![SlotOf(n)] = Removed]
  /\ ArrayCall(t) /\ call' = Noted(FALSE, n)
  /\ UNCHANGED <<clock, is_active, sensorsMade, readState, shared>>

\* Time passes, as long as somebody waits for it.
Tick ==
  /\ clock < MaxTime \/ \E t \in Threads : At(t, "sleep") /\ clock < call[t].time
  /\ clock' = clock + 1
  /\ UNCHANGED <<callerVars, is_active, arrayState, readState, shared>>

---------------------------------------------------------------------------
\* time.time() counts from 1970: no sensor holds its first reader back.
SensorInit ==
  /\ clock = update_interval
  /\ is_active = [s \in AllSensors |-> TRUE]
  /\ last_reading_time = [s \in AllSensors |-> 0]
  /\ slots = << >> /\ sensorsMade = 0
  /\ taken = [s \in AllSensors |-> << >>]
  /\ shared = {}

Reachable == {Solo} \cup {slots[k].sensor : k \in Live}

SensorCall(t) ==
  \/ read(t, Solo) \/ read_all(t)
  \/ \E n \in SensorNames : read_sensor(t, n) \/ add_sensor(t, n) \/ remove_sensor(t, n)
  \/ \E s \in Reachable : activate(t, s) \/ deactivate(t, s)
  \/ reset(t, Solo)

SensorStep(t) ==
  \/ NextItem(t) \/ DictChanged(t) \/ AllRead(t) \/ ReadAllReturns(t)
  \/ ReadInactive(t) \/ CheckInterval(t) \/ Wake(t) \/ StoreTime(t)

\* The application that uses these sensors and nothing else.
SensorSpec ==
  /\ CallersInit /\ SensorInit
  /\ [][Tick \/ \E t \in Threads : SensorCall(t) \/ SensorStep(t)]_sensorVars

---------------------------------------------------------------------------
\* "Blocks until update_interval has elapsed" (read): the readings of a sensor
\* since its reset are at least its interval apart, whoever takes them and however
\* often it is deactivated in between.  Only readers that meet in a read, or a
\* reset during one, may bring two readings closer together.
Paced ==
  \A s \in AllSensors \ shared :
    \A k \in DOMAIN taken[s] : k > 1 => taken[s][k] >= taken[s][k - 1] + Interval(s)

\* What read_all returns has a reading of every sensor that was in the array all
\* the time, and only of sensors that were in it: an array that other threads
\* change, or a sensor that cannot be read, makes it raise or is seen in full.
ReadAllWhole ==
  \A t \in Threads :
    At(t, "readings") =>
      call[t].stayed \subseteq call[t].got /\ call[t].got \subseteq call[t].present
=============================================================================
