------------------------------ MODULE Streams ------------------------------
(***************************************************************************)
(* simulation/layer0/audio.py and spi.py: a microphone that hands out its      *)
(* samples in chunks, a speaker that counts the bytes it is given and a bus    *)
(* that counts its transfers.  They take no lock: x += 1 is a read and a write. *)
(* Samples are their indices, data are their lengths.                        *)
(***************************************************************************)
EXTENDS Callers

CONSTANTS
  chunk_size,
  Lengths      \* bytes of a write or of a tone

StreamDevices == {"mic", "speaker", "spi"}

\* The calls a thread may be in: a start, or a use with what it has read so far.
StreamRecords ==
  [step : {"reset"}, device : StreamDevices]
    \cup [step : {"running", "count", "add"}, device : StreamDevices,
          amount : Nat, samples : Seq(Nat), count : Nat]
    \cup [step : {"sample", "chunk"}, device : {"mic"},
          amount : Nat, samples : Seq(Nat), count : Nat]

ASSUME StreamConstants ==
  /\ chunk_size \in Nat \ {0} /\ Lengths \subseteq Nat
  /\ Idle \notin StreamRecords

VARIABLES
  running,      \* _running of mic and speaker, is_open of spi
  counter,      \* _sample_idx, bytes_written, transfer_count
  accepted,     \* history: samples in finished chunks, bytes accepted, transfers
                \* begun, since the last start
  disturbed     \* history: devices used by two calls at once since the last start

streamVars == <<callerVars, running, counter, accepted, disturbed>>
streamState == <<running, counter, accepted, disturbed>>

Using(t, d) == Has(t, "device") /\ call[t].device = d

Disturb(t, d) ==
  disturbed' = IF \E u \in Threads \ {t} : Using(u, d) THEN disturbed \cup {d} ELSE disturbed

---------------------------------------------------------------------------
\* start(): the device runs before its counter is reset.
start(t, d) ==
  /\ d # "spi"
  /\ Begin(t, [step |-> "reset", device |-> d])
  /\ running' = [running EXCEPT ![d] = TRUE]
  /\ disturbed' = IF \E u \in Threads : Using(u, d) THEN disturbed \cup {d} ELSE disturbed \ {d}
  /\ accepted' = [accepted EXCEPT ![d] = 0]
  /\ UNCHANGED counter

\* Variant with a bug: start goes on counting where stop has left off.
ResetCounterKept(t) ==
  /\ At(t, "reset")
  /\ Return(t)
  /\ UNCHANGED streamState

ResetCounter(t) ==
  /\ At(t, "reset")
  /\ counter' = [counter EXCEPT ![call[t].device] = 0]
  /\ Return(t)
  /\ UNCHANGED <<running, accepted, disturbed>>

\* stop() of mic and speaker, close() of spi, which nothing opens again.
stop(t, d) ==
  /\ Quick(t)
  /\ running' = [running EXCEPT ![d] = FALSE]
  /\ UNCHANGED <<counter, accepted, disturbed>>

\* read() of the microphone; write(data) and play_tone of the speaker; transfer,
\* read and write of the bus.
use(t, d, amount) ==
  /\ Begin(t, [step |-> "running", device |-> d, amount |-> amount, samples |-> << >>,
               count |-> 0])
  /\ Disturb(t, d)
  /\ UNCHANGED <<running, counter, accepted>>

---------------------------------------------------------------------------
\* if not self._running: raise RuntimeError
CheckRunning(t) ==
  LET d == call[t].device IN
  /\ At(t, "running")
  /\ IF ~ running[d] THEN Return(t) ELSE Goto(t, IF d = "mic" THEN "sample" ELSE "count")
  /\ UNCHANGED streamState

\* The sine at self._sample_idx.
TakeSample(t) ==
  LET c == call[t] IN
  /\ At(t, "sample")
  /\ Continue(t, [c EXCEPT !.step = "count", !.samples = Append(@, counter["mic"])])
  /\ UNCHANGED streamState

LoadCounter(t) ==
  LET c == call[t] IN
  /\ At(t, "count")
  /\ Continue(t, [c EXCEPT !.step = "add", !.count = counter[c.device]])
  /\ UNCHANGED streamState

\* The next sample of the chunk, the chunk, or the response of the device.
StoreCounter(t) ==
  LET c == call[t]
      d == c.device
  IN
  /\ At(t, "add")
  /\ counter' = [counter EXCEPT ![d] = c.count + c.amount]
  /\ IF d = "mic"
     THEN /\ Goto(t, IF Len(c.samples) < chunk_size THEN "sample" ELSE "chunk")
          /\ UNCHANGED accepted
     ELSE Return(t) /\ accepted' = [accepted EXCEPT ![d] = @ + c.amount]
  /\ UNCHANGED <<running, disturbed>>

ChunkReturns(t) ==
  /\ At(t, "chunk")
  /\ accepted' = [accepted EXCEPT !["mic"] = @ + chunk_size]
  /\ Return(t)
  /\ UNCHANGED <<running, counter, disturbed>>

---------------------------------------------------------------------------
\* The bus is open when it is made.
StreamInit ==
  /\ running = [d \in StreamDevices |-> d = "spi"]
  /\ counter = [d \in StreamDevices |-> 0]
  /\ accepted = [d \in StreamDevices |-> 0]
  /\ disturbed = {}

StreamCall(t) ==
  \/ \E d \in StreamDevices : start(t, d) \/ stop(t, d)
  \/ use(t, "mic", 1) \/ use(t, "spi", 1)
  \/ \E n \in Lengths : use(t, "speaker", n)

StreamStep(t) ==
  \/ ResetCounter(t) \/ CheckRunning(t) \/ TakeSample(t)
  \/ LoadCounter(t) \/ StoreCounter(t) \/ ChunkReturns(t)

\* The application that uses these devices and nothing else.
StreamSpec ==
  /\ CallersInit /\ StreamInit
  /\ [][\E t \in Threads : StreamCall(t) \/ StreamStep(t)]_streamVars

---------------------------------------------------------------------------
\* The chunks of a recording join: a sample of a chunk is the one after the sample
\* before it, in its chunk or in the one before, and the first since start is
\* sample 0, also when stop comes in the middle of a chunk and start follows it.
\* What speaker and bus count is what they have accepted since then.  Only calls
\* that meet at a device may tear the wave or lose a count.
StreamsWhole ==
  /\ "mic" \notin disturbed =>
       \A t \in Threads :
         At(t, "chunk") =>
           /\ Len(call[t].samples) = chunk_size
           /\ \A k \in 1..chunk_size : call[t].samples[k] = accepted["mic"] + k - 1
  /\ \A d \in {"speaker", "spi"} \ disturbed :
       (\A t \in Threads : ~ Using(t, d)) => counter[d] = accepted[d]
=============================================================================
