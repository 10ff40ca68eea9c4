# Formal models of the O.A.S.I.S. simulation library (E.C.H.O.)

TLA+ models, TLC runs and TLAPS proofs for `src/simulation`, the library that
replaces hardware, network peers and platform services of O.A.S.I.S. by mocks
and swaps them for real implementations at run time.

Contents: [the system](#the-system) · [plan](#plan) ·
[modules](#modules-and-code) · [runs](#runs) · [bounds](#bounds) ·
[fairness](#fairness) · [proofs](#proofs) · [findings](#findings) ·
[not modelled](#not-modelled) · [running](#running)

## The system

| Component | State | Operations | Interacts with | Correct when |
|---|---|---|---|---|
| **Provider** `hal/provider.py` | active implementation, an `RLock` | `swap`, attribute forwarding, `implementation` | calls `on_swap` under its lock | swaps are announced in the order in which they replaced; calls go to the active implementation; every call returns; each old implementation is handed back to one caller |
| **SimulationStatus** `hal/status.py` | registry name → record, listener list, an `RLock` | `register`, `unregister`, swap handler, `add_listener`, `remove_listener`, queries | called by providers and application threads; calls listeners under its lock | the registry tells what is active; every listener that handles its events settles on the registry; nobody hears after being removed |
| **Status listeners** `layer1/status_listeners.py` | none | `__call__(event)` | listeners of the tracker; publish to MQTT | a subscriber of a channel learns the present mode; what is announced last is true |
| **OCPPeer** `layer1/ocp.py` | `_running`, `_heartbeat_timer`, a chain of `threading.Timer` threads | `set_lwt`, `start`, `stop`, `_heartbeat` | publishes retained messages through paho-mqtt | stopped shows offline, running shows online, one heartbeat per interval, a dead process is seen; peers of one component do not hide each other for good |
| **TopicBuilder, MessageSerializer** `layer1/mqtt.py` | none | topic and payload construction | used by peers and listeners | topics of different purposes never collide |
| **DAP2Satellite** `layer1/dap2_client.py` | socket, ping task, registered flag | `connect`, `query`, `disconnect`, ping loop | one WebSocket shared by two tasks | every query gets its own answer; disconnect always closes |
| **DAP2MockDaemon** `layer1/dap2_client.py` | server, session and stream counters | `start`, `stop`, one handler per client | WebSocket | unregistered clients are refused; streams of two clients keep apart |
| **HomeAssistantMock** `layer2/ha_mock.py` | entities, service log, server thread | `call_service`, `get_state(s)`, `start`, `stop` | HTTP requests, direct calls | the log explains the entities; no client sees half of another's call |
| **LLMMock, LLM server** `layer2/llm_mock.py`, `llm_http_server.py` | rules | `complete`, `stream`, `tool_call`, `add_rule`, `add_tool_rule`; HTTP routes | HTTP requests, direct calls | tools before text, the first matching rule wins; the deltas join to the answer |
| **MemoryMock** `layer2/memory_mock.py` | SQLite table | `store`, `retrieve`, `delete`, `count`, `close` | a connection shared by threads | what was returned as stored survives; a fact is deleted once; top-k is the best k |
| **MockI2C, MockSPI, MockGPIO, MockCamera, MockSensor(Array), MockMicrophone, MockSpeaker** `layer0/` | registers, pins, open/running flags, counters, times | device calls | wrapped by providers, shared by threads | registers hold what was written; callbacks know their pins; frames and samples are numbered in order; readings keep their interval |
| **HAL interfaces** `hal/device.py`, `network.py`, `platform.py` | none | abstract methods | implemented by all of the above | – |

How they interact: an application wraps each mock in a `Provider` built with
`on_swap=tracker.create_swap_handler(name)`. A swap takes the provider's lock,
replaces the implementation and, inside the lock, calls the handler, which takes
the tracker's lock, writes the record and calls every listener. The listeners of
`layer1` publish on MQTT, where other components subscribe. Peers and satellites
live beside that, each with threads or tasks of their own. The services of `layer2`
are called over HTTP, by one request at a time, and directly by the threads of the
application that made them; the devices of `layer0` by whichever threads share them.

What is hard: two nested locks taken by several threads; callbacks under a
re-entrant lock that may call back; a list that is rebound while it is iterated;
values read under one lock and used under another; timer threads that a `stop`
cannot cancel once they run; retained messages, wills and lost connections; one
WebSocket with two readers; mocks without any lock between threads that share
them; a transaction shared by threads that do not know of each other; a file after
a crash. `PROJECT.json` lists each of these hazards at its line.

## Plan

Ordered by what matters most. All blocks are built; what they leave open is below.

1. `SimulationStatus`, `HotSwap` (EXTENDS `SimulationStatus`), the abstract
   `StatusBoard` that `HotSwap` implements, `OCPPeer`.
2. `DAP2Session`: satellite, daemon and the sockets between them.
3. Services: `Callers` (threads inside calls) and, on it, `MockServer`, on which
   `HomeAssistant` and `LLMServer` are built; `MemoryStore` on `Callers` alone.
   Channels: `Broker` and `TopicNames`, under `StatusChannels` and `SimulatedPeers`.
4. Devices, on `Callers`: `I2CBus`, `PinBank`, `ManagedCamera`, `SensorArray`,
   `Streams`.
5. Proofs, component by component: `TrackerProofs`, `HotSwapProofs` (on it),
   `OCPPeerProofs`, `DAP2Proofs`, `PlatformProofs`, `DeviceProofs`, `ChannelProofs`;
   what several of them need is in `BasicLemmas`.

Left for later:

- the abstract session that `DAP2Session` implements as long as no query meets a
  receiving ping: each query answered once, by its own stream;
- `StatusChannels` composed with `HotSwap`'s threads instead of an atomic change.

## Modules and code

| Module | Models | Notes |
|---|---|---|
| `SimulationStatus` | `hal/status.py` | the tracker by itself, with re-entrant listeners |
| `HotSwap` | `hal/provider.py` wired to the tracker | threads, both locks, calls in flight |
| `StatusBoard` | abstract | what swaps, registry and listeners promise |
| `OCPPeer` | `layer1/ocp.py` | one peer: application thread, timer threads, broker |
| `DAP2Session` | `layer1/dap2_client.py` | application task, ping tasks, daemon handlers, sockets |
| `TopicNames` | `layer1/mqtt.py` | topics and messages as data |
| `Broker` | external: MQTT broker, paho | queues, retained messages, lost connections, wills |
| `StatusChannels` | `layer1/status_listeners.py` | trackers of several processes, four listeners each, subscribers |
| `SimulatedPeers` | `layer1/ocp.py` | several peers of one component on one network |
| `Callers` | threads of an application | a call is a record with the step it takes next |
| `MockServer` | the HTTP server of `layer2` | one request at a time, start, stop |
| `HomeAssistant` | `layer2/ha_mock.py` | entities, service log |
| `MemoryStore` | `layer2/memory_mock.py` | a table, its file, a shared connection, crashes |
| `LLMServer` | `layer2/llm_mock.py`, `llm_http_server.py` | rules, scans, streams |
| `I2CBus`, `PinBank`, `SensorArray` | `layer0/i2c.py`, `gpio.py`, `sensor.py` | devices shared by threads |
| `Streams` | `layer0/audio.py`, `spi.py` | counters and lifecycles |
| `ManagedCamera` | `layer0/camera.py` behind `hal/provider.py` | swaps, captures in flight, releases |
| `BasicLemmas` | – | natural numbers, ranges, sequences |
| `TrackerProofs`, `HotSwapProofs`, `OCPPeerProofs`, `DAP2Proofs` | – | theorems about the module of that name (`TrackerProofs`: `SimulationStatus`) |
| `PlatformProofs` | – | theorems about `MemoryStore`, `LLMServer` and `HomeAssistant` |
| `DeviceProofs` | – | theorems about `I2CBus`, `PinBank`, `ManagedCamera`, `SensorArray`, `Streams` |
| `ChannelProofs` | – | theorems about `StatusChannels` and `SimulatedPeers` |
| `MC…` | – | constants for TLC; `MCPlatform`, `MCDevices` and `MCChannels` compose modules |

**SimulationStatus.** `interfaces`, `lists` and `owner` are `_interfaces`,
`_listeners` and the holder of `_lock`. `lists` keeps every list object that
`_listeners` has been bound to: `add_listener` appends to the last in place,
`remove_listener` appends a new one, and a loop of `_emit` keeps the number of the
list it iterates. `frames` is the stack of running loops; `Deliver` is one turn,
`EmitDone` the end of a loop. The lock is re-entrant: `MayEnter` lets a thread in
when the lock is free or when it is inside the callback of a listener that makes
such calls (`Publishing`, `Editing`). `Faulty` listeners may raise; the exception
is swallowed where `_emit` swallows it. `heard` and `wanted` are history: what each
listener last heard of each interface (`Unknown` since it was added) and which
listeners the application still wants. A record is reduced to class name and
`is_simulated`; an event carries the new record and, for a swap, the record of
the old implementation. Queries only read and are not actions.

**HotSwap.** `BeginSwap`, `ReplaceImpl`, `OnSwap`, `TellListener`…, `LeaveTracker`,
`SwapReturn` are the steps of `Provider.swap` in the order of the code; between any
two of them other threads run. A registration reads `provider.implementation`
(`BeginRegister`) and stores later (`StoreRegistration`), as in
`tracker.register("camera", camera.implementation)`. A call of a device takes its
method under the lock (`GetAttr`) and runs it after (`CallReturn`).
`Watched` are the providers built with the tracker's handler. Here listeners do
not call the tracker again (that is `SimulationStatus`'s subject); those in
`Probing` read the provider.

**StatusBoard.** Activate an implementation, show its record, tell each listener
in order; no second activation of a watched interface before the first is on the
board, no change of the board before everybody was told of the last. `HotSwap`
maps `due` to the swaps between `ReplaceImpl` and `OnSwap`, and `telling` to the rest
of the list of the running loop.

**OCPPeer.** Every read and write of `_running` and `_heartbeat_timer` and every
publication is a step of the application or of a timer thread, since nothing locks
them. The application starts a peer only when it is not running. A timer object is unused, created, armed, cancelled or inside `_heartbeat`;
`Timer.cancel` works until its thread has left the wait (`Fire`). The two reads of
the attribute at lines 232 and 233 are one step: either of them failing has the
same effect as the second failing. paho and the broker are external: a queue
of QoS 1 messages, sent again after a reconnection, a retained message per topic,
the will. `discovery` and `simulates` carry only presence. `disturbed` is a history
variable: a start or stop met a running heartbeat.

**DAP2Session.** In asyncio only an `await` that waits lets others run, so a step
reaches from one wait to the next. Sending does not wait: these messages fit the
write buffers. The wait in the ping loop is different, because `wait_for` starts a
task of its own in Python 3.10 and 3.11: between `PingSend` and `PingBeginReceive`
the application may run. `conns` holds every socket the satellite has opened,
with what is on its way in both directions; `ws` is `_ws`. `pings` are all ping tasks:
`connect` on a connected satellite replaces `_ping_task`, and the old task goes on
with whatever `_ws` is then. The library is external: it raises in the second task that
receives from a connection (`Busy`), in whoever sends on one known to be closed
(`SocketOpen`) and in whoever receives when one has ended (`HasEnded`). Where an
exception leaves the state as it was, the call is not enabled: `query` on a closed
socket, and `disconnect` after the ping task has failed, which raises that task's
exception and does nothing else, each time it is called. A handler of the daemon
reads a message and sends the first reply in one step (`Take`), the others one by
one (`Reply`). `HandlerFails` is a `query_handler` that raises. Stream and session
numbers are left out: a message carries the query it belongs to. `mixed` is history:
connections on which a task gave up waiting, or received a message meant for
another.

**Broker, TopicNames.** Of paho and the broker the modules keep what `layer1` relies
on: a client queues what it publishes, sends it in order, keeps it until it is
acknowledged and sends it once more after a reconnection; the broker keeps the last
retained message of a topic and publishes a will when it loses a client. `Unsteady`
clients may lose their connection. For the others nothing distinguishes a message
received from one acknowledged, and `Forward` does both. A topic is the sequence of
its levels, with the one renaming (`mirage` to `hud`) the code makes.

**StatusChannels.** `simulated` and `tracked` are what each process runs and has
registered; a change (`Register`, `Swap`, `Unregister`) queues the messages of all four
listeners, since `_emit` holds the tracker's lock over them. An event names its interface and
not its component, so two processes with a `camera` speak of one. `known` is what a
subscriber makes of what it hears, `Subscribe` gives a late one the retained message of
`echo/status` (there is none on `echo/status/webui`); `spoken` and `alerts` are the last
announcement in words and the sounds.

**SimulatedPeers.** `Start`, `Stop` and `Heartbeat` are one step each, with all they
publish, since `OCPPeer` is about their interleaving. What is new here is sharing: peers
of one component, each with a client of its own, write one status and one discovery
topic; all peers write `echo/discovery/simulates`. A heartbeat waits for the last
messages to be acknowledged, which bounds the queue.

**Callers.** A thread is `Idle` or in a call: a record of the call's arguments, its local
variables and `step`. The modules built on it name the steps after the line that comes
next. None of these mocks has a lock, so other threads run between any two steps, and
`x += 1` is a load and a store, because the language does not promise more.
`CallsEnd` is the one liveness property they share.

**MockServer.** werkzeug's `make_server` without `threaded=True` handles one request to its
end before the next: `Accept` waits until nobody is being served. `StopServer` waits for
the request being handled; `Refuse` is a connection to a port that nobody listens on.
Threads outside `Clients` call the mock directly and are not serialized with requests.

**HomeAssistant.** A call appends to the log (`AppendLog`), looks up the entity and then
reads and writes its keys one at a time (`ReadState`, `WriteState`, `Brightness`,
`FullBrightness`, `SetTemperature`). A reply is built in one step, since `jsonify` encodes
the dict in C. `torn` is history: the parts of an entity on which a direct call has
overlapped another, until a call that runs alone writes the whole part. `Effect` is
the reference: the same service as one step; `Replay` takes the calls of the log one
after another through it.

**MemoryStore.** `facts` is the table as the shared connection sees it, `committed` the
file. Statement and commit are two steps; a commit by any thread commits what all have
written. When two threads each begin a transaction, SQLite refuses the second (`Fail`). A
retrieval scans row by row while others insert and delete. `Close` rolls back,
`Crash` loses what is uncommitted and everybody's calls. The table is a file, as when
`db_path` is given; with the default `:memory:` nothing outlives the object. Ids are
numbers of calls, a text is a set of tokens, `WordOf` does the lowering and stripping.

**LLMServer.** Rules are sequences that grow while scans walk over them
(`ScanToolRules`, `ScanResponseRules`: one turn each). A chat request scans tool rules,
then response rules. A stream of a direct caller is a generator and looks for its rule
when its first delta is asked for (`FirstDelta`). `texts` and `tools` in a call are
history: the rules there were when it began its work.

**I2CBus.** `Ensure` looks for the array of an address, `Create` makes it: two first uses may
make it twice. `WriteByte` and `ReadByte` move one byte, with the register modulo the
number of registers in blocks, and as Python indexes it in single calls (from the end
if negative, an error out of range). `clashed` is history: registers on which overlapping
calls met, one of them writing.

**PinBank.** `output` is check, read of the old value, write, test of the edge, callback. The
callback is the last thing `output` does, so one that calls `output` or `cleanup` goes on
as that call. Every other method is one step. `seen` is the value at which a callback
last saw its pin; `raced` the pins on which calls overlapped. A pin never mirrors itself:
two threads doing that with different values call out each other's edges until Python
ends them with `RecursionError`.

**ManagedCamera.** `Swap` is what the provider's lock encloses. `TakeMethod` takes `capture` of
the active camera under the lock; the steps after it run on that camera whatever was
swapped since. Who swaps releases what `swap` handed back.

**SensorArray.** `CheckInterval` computes the rest of the interval, `Wake` ends the sleep,
`StoreTime` stores the time of the reading. The array is a dict with its entries in
slots; `read_all` walks over them (`NextItem`) and ends in `RuntimeError` when the number of
keys has changed (`DictChanged`). `stayed` and `present` in a call are history: the sensors
that were there all the time, and at some time.

**Streams.** Microphone, speaker and SPI bus have a flag and a counter. `start` sets the
flag before it resets the counter; a chunk of the microphone is taken sample by sample.

**MCPlatform, MCDevices, MCChannels.** The services share no state, nor do the devices, nor
status and presence: a behaviour is about one of them, chosen in the initial state. The
threads and the server, or the broker, are the same.

## Runs

| Run | Expect | Question |
|---|---|---|
| `tracker` | pass | two threads, a listener that raises and edits the list, one that registers from its callback: `ViewsSettle`, `OnlyWantedHear`, `EmissionEnds` |
| `tracker_bound_method` | violation | does `remove_listener` remove a bound method? |
| `hot_swap` | pass | two threads, both locks: `RegistryAgrees`, `LiveMeansLive`, `ViewsSettle`, `SwapsChain`, `CallsReturn`, and the refinement `ImplementsBoard` |
| `late_registration` | violation | does the registry survive a registration that races a swap? |
| `probing_listener` | violation | may a listener read the provider? |
| `peer` | pass | `FarewellIsLast`, `OneHeartbeat`, `LostShowsOffline`, `RunningShowsOnline` with stop and restart at any moment, a lost connection and a crash |
| `peer_stop_during_beat` | violation | is a stopped peer offline if stop met a heartbeat? |
| `satellite` | pass | a satellite that connects twice, queries and pings, late pongs, a handler that raises, a daemon that stops and starts: `OwnAnswer`, `PongsMatch`, `CallsReturn` |
| `satellite_collision` | violation | does a query return its own answer after an earlier one met a ping? |
| `platform` | pass | two HTTP clients and a direct caller on one service: `LogExplains`, `RepliesAreWhole` (Home Assistant); `StoredSurvives`, `DeletedOnce`, `BestFactsFound` (memory); `FirstMatchAnswers`, `StreamsJoin` (LLM); `CallsEnd` |
| `devices` | pass | two threads on one device: `RegistersHold`, `EdgesSeen`, `HandedBackOnce`, `FramesNumbered`, `Paced`, `ReadAllWhole`, `StreamsWhole`, `CallsEnd` |
| `channels` | pass | two processes that publish status, or two peers of one component, over connections that are lost: `KnownModeTrue`, `AnnouncedModeTrue`, `PeerTopicsTrue`, `ComponentComesBack` |

What the passing runs show together: the callback inside the provider's lock is
what orders announcements; holding the tracker's lock over the loop is what keeps
events in order for each listener; an exception in one listener costs the others
nothing; the order provider → tracker cannot deadlock as long as listeners keep to
publishing; and heartbeats repair both a will published over a live peer and
the races of restarts. Each property has a mutant of the code that TLC refutes
(`PROJECT.json`, definitions marked "Variant with a bug").

For the satellite: pings and late pongs alone never damage an answer (`OwnAnswer`
has no premise about them), and no call waits for ever although none has a timeout.
The premise of `OwnAnswer`, that every earlier query of the connection returned its
answer, is what `satellite_collision` shows to be needed; a new connection restores
it. `PongsMatch` is about connections outside `mixed`, that is while nobody gave up.

`ViewsSettle` says nothing of a listener placed behind one that registers from its
callback: it hears the nested event first. The exception is in the property, named
`Overtaken`, because the code does that. `FarewellIsLast` and `OneHeartbeat` have the
premise that no start or stop met a running heartbeat, because without it both are
false: see `peer_stop_during_beat`, and the second chain that a restart during a
heartbeat leaves (the old heartbeat finds `_running` true again at line 226 and
schedules a timer beside the one of `start`).

The services and devices promise nothing about overlapping calls, and the properties
about them say exactly how far the damage goes. Each names the overlap in a history
variable (`torn`, `clashed`, `raced`, `jostled`, `shared`, `disturbed`), which the code
empties again where it does: a definite service call that runs alone, a new `setup` of
the pin, a new `start`. Everything else holds under any interleaving: calls about other
entities, registers, pins and devices; HTTP clients among themselves, because the
server handles one request at a time; a capture under which the camera is swapped
away; an array that changes while it is read. `StoredSurvives`, `DeletedOnce`,
`BestFactsFound`, `FirstMatchAnswers`, `HandedBackOnce` and `ReadAllWhole` have no such
premise.

For the channels: the order of one client's messages and their repetition after a loss
put late and early subscribers right in the end (`KnownModeTrue`); an announcement sent
twice still ends with the present mode (`AnnouncedModeTrue`). An interface that two
processes track is known as it is in one of them, and nobody can tell in which.
`ComponentComesBack` is what repairs the topic that two peers share: the farewell of
one covers the other until it beats.

## Bounds

| Bound | Why it is enough |
|---|---|
| `MaxCalls` 2–4 (tracker, swaps) | a race needs two calls, its effect on a third party a third; nested loops and a removal inside a loop need four |
| 2 implementations, one mock and one marked real | mode changes in both directions and same-mode swaps |
| 2 interfaces in `hot_swap` | one watched and one not, events of one interface between those of another |
| 2–3 listeners | one that raises, publishes or edits, one behind it, one that joins late |
| `MaxCalls` 2–3 (peer) | start, stop, start: every race is between one stop or start and one heartbeat |
| 2–3 `Timers` | objects that nobody can reach are used again; three let the application and a stray heartbeat each create one |
| `MaxDrops` 1 | the will is published, messages are sent again, and the state after is as before but for the count |
| `MaxOutbox` 2–3 | paho's queue is unbounded; the bound makes `publish` wait, which only removes behaviours where more is unsent |
| `MaxConnects` 2, `MaxQueries` 2, `MaxPings` 2 (satellite) | an old ping task on a new socket needs two connections; an answer that is left over, a second query; a pong that is late, a second ping |
| `Sentences` 2 | an answer of several parts can be cut or mixed |
| 2 clients and 1 direct caller (`platform`), 2 threads (`devices`) | requests among themselves, and against a direct call; every race of these mocks is between two calls |
| `HACalls` 3, `MemoryCalls` 4, `LLMCalls` 3 | two overlapping calls and a third that observes or repairs; for the file, store, store, delete and a retrieval |
| `MaxCrashes` 1 | after a crash the file is as if the calls in flight had not begun |
| 7 service calls, 2 entities | each service with and without its argument, an entity that is not there, parts that do and do not overlap |
| `Registers` 4, `ByteValues` 4 | arithmetic modulo 256 scaled down: a block that wraps, a value that is cut, a register from the end, one out of range |
| 2 pins, 3 callbacks, `PinCalls` 6 | set up, watch and drive two pins, one mirroring the other, with one call to spare for the other thread |
| 3 cameras | two swaps that race and what they hand back |
| `update_interval` 2, `MaxTime` 4, `MaxSlots` 3 | a reader that must wait, one that need not; a key removed and another added; the clock goes on past `MaxTime` while somebody sleeps |
| `chunk_size` 2, `StreamCalls` 5 | start, a chunk, stop, start in the middle of a chunk, a chunk |
| 2 processes, 2 interfaces (`channels`), `MaxChanges` 3 | one interface that both have and one that one has; three changes put an old event over a new one |
| `MaxStarts` 4, `MaxDrops` 1 (`channels`) | both peers started, one stopped, one restarted; a will at any point of it |

## Fairness

`TrackerSpec` and `FairSpec` of `HotSwap` assume weak fairness for the steps of a call
that has begun: threads inside a call are scheduled, and callbacks return. No thread
is obliged to make a call. Weak fairness suffices for the waits on a lock because
calls are bounded: when no new call begins, a free lock stays free until somebody
takes it. `StatusBoard` asks weak fairness of telling and strong fairness of
announcing what is due, which an announcement needs that waits for others to be told.

`OCPPeer`: weak fairness for the steps of each thread, for the end of each interval
(a `Timer` fires), for reconnection (`loop_start` reconnects by itself), delivery and
acknowledgement. `Start`, `Stop`, `Drop` and `Crash` have none.

`DAP2Session`: weak fairness for the application inside a call, for the handlers of
the daemon and for the delivery of closed connections: the event loop runs whatever
task can go on. Pings, stops, starts and failing handlers have none; `CallsReturn`
does not need them.

`platform` and `devices`: weak fairness for the steps of each thread inside its call, and
for the clock of the sensors. A thread that waits for the server waits for one
request that is being handled; calls are bounded, so the requests of others do not keep
it waiting for ever.

`channels`: weak fairness, per client, for the network (forwarding, acknowledgement,
reconnection, one of which is enabled until everything is delivered) and for the
heartbeat of each peer, whose timer fires after its interval. Changes, starts, stops and
losses have none.

Deadlock is checked in the passing runs of the tracker, of `HotSwap`, of the services
and of the devices; `AtRest` is the only stuttering allowed, when the calls are used up
and have returned. A peer may be dead or stopped for good, a satellite may have used up
its connections, queries and pings, and a process may have no more changes to
publish: their runs say `CHECK_DEADLOCK FALSE`.

## Proofs

Checked by TLAPS for every set of threads, interfaces, implementations, listeners, timers,
connections, processes, cameras and so on, and for every bound.

| Module | Theorem | Statement |
|---|---|---|
| `TrackerProofs` | `TrackerTypesHold` | `TrackerSpec => []TrackerTypeOK` |
| | `OnlyTheWantedHear` | if `BoundMethods = {}`, `TrackerSpec => OnlyWantedHear` |
| | `NestedViewsSettle` | `TrackerSpec => []ViewsSettle` |
| `HotSwapProofs` | `TypeCorrect` | `Spec => []TypeOK` |
| | `RegistryTellsTheTruth` | if `SerializedRegistration`, `Spec => []RegistryAgrees` |
| | `SummariesTellTheTruth` | if `SerializedRegistration`, `Spec => []LiveMeansLive` |
| | `ListenersSettle` | `Spec => []ViewsSettle` |
| | `SwapsFollowOneAnother` | if `SerializedRegistration`, `Spec => SwapsChain` |
| | `HotSwapImplementsBoard` | if `SerializedRegistration`, `Spec` implements `Init /\ [][Next]_boardVars` of `StatusBoard` |
| `OCPPeerProofs` | `TypeCorrect` | `Spec => []TypeOK` |
| | `LossIsSeen` | `Spec => []LostShowsOffline` |
| | `OneChain` | `Spec => []OneHeartbeat` |
| | `FarewellStays` | `Spec => []FarewellIsLast` |
| `DAP2Proofs` | `SessionTypesHold` | `Spec => []TypeOK` |
| | `CompleteAnswersAreOwn` | `Spec => []OwnAnswer` |
| | `PongsMatchPings` | `Spec => []PongsMatch` |
| `PlatformProofs` | `StoredFactsSurvive` | `MemorySpec => []StoredSurvives` |
| | `DeletesOnce` | `MemorySpec => []DeletedOnce` |
| | `RetrieveFindsTheBest` | `MemorySpec => []BestFactsFound` |
| | `FirstMatchWins` | `LLMSpec => []FirstMatchAnswers` |
| | `DeltasMakeTheAnswer` | `LLMSpec => []StreamsJoin` |
| | `LogExplainsEntities` | `HASpec => []LogExplains` |
| | `RepliesShowWholeCalls` | `HASpec => RepliesAreWhole` |
| `DeviceProofs` | `ChunksJoin` | `StreamSpec => []StreamsWhole` |
| | `CallbacksKnowTheirPins` | `PinSpec => []EdgesSeen` |
| | `RegistersKeepTheLastWrite` | `I2CSpec => []RegistersHold` |
| | `CamerasHandedBackOnce` | `CameraSpec => []HandedBackOnce` |
| | `FramesCountUp` | `CameraSpec => []FramesNumbered` |
| | `ReadsSeeTheWholeArray` | `SensorSpec => []ReadAllWhole` |
| | `ReadingsArePaced` | `SensorSpec => []Paced` |
| `ChannelProofs` | `PeerTopicsTell` | `PeersSpec => []PeerTopicsTrue` |
| | `SubscribersKnowTheMode` | `ChannelsSpec => []KnownModeTrue` |
| | `AnnouncementsAreTrue` | `ChannelsSpec => []AnnouncedModeTrue` |

The specifications of services, devices and channels are those of one component by
itself; `MCPlatform`, `MCDevices` and `MCChannels` add the choice of the component that a
behaviour is about, and fairness. Their steps are the same actions.

### Assumptions

Two theorems have a premise that is a discipline of the application, and a run that
shows what happens without it: `SerializedRegistration` (nobody registers an interface
while somebody swaps it; `late_registration`) and `BoundMethods = {}` (listeners are
objects that are identical to themselves; `tracker_bound_method`).

The other assumptions are those that the modules name (`TrackerConstants`,
`SessionConstants`, `MemoryConstants`, …). They say that bounds are numbers, that sets of
names are subsets of what they name, and of what shape the inputs are: a text has
finitely many words (`MemoryConstants`), a response at least one word, as `"".split(" ")` has
too (`LLMConstants`), a single byte is one byte (`BusConstants`). `Idle`, `NoDevice`,
`NoCallback`, `Unknown` and the like stand for `None` or for absence and are none of the
values they stand beside.

### Invariants and arguments

`SimulationStatus`. A listener may register from its callback, so loops of `_emit` nest to
any depth. `StackInv`: a loop is innermost and announces what the registry says, or a
publishing listener has had its turn in it. `OrderInv`: two listeners are in the same
order in all list objects, so whoever such a loop has still to tell is placed behind that
listener and is `Overtaken`. `SettleInv` is `ViewsSettle` while loops run: what a listener
has not been told is pending in the innermost loop. The type theorem and
`OnlyWantedHear` are inductive nearly as they stand.

`HotSwap`:

- `TypeInv` adds to the types that a busy thread has arguments.
- `LockInv` ties the locks to program counters: the tracker's lock is held exactly
  by the thread in `_emit`, with one frame; a provider's lock only by a thread
  between replacement and return. Without it nothing says that a swap that is
  about to announce is the last that replaced.
- `AgreeInv` strengthens `RegistryAgrees`: a swap in `handler` carries the active
  implementation as its new one, and so does a registration about to be stored; the
  second needs `SerializedRegistration`.
- `ViewInv` says what a listener may differ in while a loop runs: only the interface
  announced, and only if its turn is still to come. The loop iterates the current
  list because no listener edits it while it runs.
- `SwapsChain` is an action property: the event a listener hears now starts from what
  it was told before. `OwedInv` says that a swap which has replaced and not yet announced
  starts from what the registry shows, if it shows anything; `TurnInv` carries that to the
  running loop, where the registry already shows the new record: what a listener whose
  turn is still to come heard last is what the swap starts from, or where it ends, or
  nothing. `ViewInv` is what makes the one follow from the other.
- `HotSwapImplementsBoard` is the step simulation: with these invariants each action is
  one of `Activate`, `Announce`, `Tell`, … of the board, or leaves the board as it is. The
  fairness of the board is not in it and is checked by TLC (`ImplementsBoard`).

`OCPPeer`:

- `ChainInv` is why there is one heartbeat: at most one timer is active; if it waits, it
  is the one `_heartbeat_timer` names, or the application is in the middle of
  cancelling it; a heartbeat that is past its check runs only while nobody starts
  or stops, by the premise of the property; a peer that is stopped and at rest has
  no timer waiting. `OneHeartbeat` alone is not inductive, for `start` adds a timer and only
  the rest says that none was there.
- `RetainedInv`: of the messages that are not acknowledged, the last one the broker has
  received on a topic is what the topic shows. `FarewellInv`: when a stop has published
  its farewells, offline is the last message queued for each topic, or what the topic
  shows if none is queued, so sending again what was lost ends with it. `FarewellIsLast` is
  the case of an empty queue.

`DAP2Session`. The type invariant carries what a `None` check in the code relies on: a
satellite with a ping task is registered and has a socket. For `OwnAnswer`, `SilentInv` says
that a connection whose queries have all returned has nothing of an exchange on its
way, in any of three queues, and `AnswerInv` follows the one that is running: the query is
on its way up (`Waiting`), or refused (`Refused`), or a monotone numbering `g` of the
messages on the way down says of each which part of the answer it is (`Tracks`), with
pongs between them, the handler has the rest in hand, and what was collected is what
comes before. `PongsMatch` is inductive with the types; its proof counts messages in
sequences by the cardinality of their places.

`MemoryStore`. `StoresInv`, `TableInv` and `FoundInv` say where a fact may be at each step of a
call: a row written is in the table until its call returns unless the connection was
closed, what must be kept is in table and file alike, so that neither a crash nor a
rollback loses it, and a delete that found its fact is the only one. `ReadInv` is about
the scan: the rows it has passed are in its list if they were there from the start; rowids
that SQLite gives a second time belong to facts that were not. That the sort returns the
best `top_k` is proved from the existence of a sorted permutation of a finite list.

`LLMServer`. `AskOK` says that a scan has found nothing before the place where it is, in
lists that grow, and what an answer says of the rules is kept when rules are appended.
`SentInv`: what a caller has received is the answer up to the place of its stream, words
and spaces woven.

`HomeAssistant`. `LogExplains` speaks only of entities at rest. `PartRight` says what holds
while a call is under way: a part that is not torn is written by one call at most, and
`Underway` says, for each step of that call, that what is left of it takes the entity to
what the log makes of it already, since the log comes first. `Leads` is one step on that
way, proved service by service. That the call is alone when it begins comes from the
server (a client whose request was received is the one served, so two clients never
meet) and from `torn` (a direct call that meets another tears the part). A part that was torn
is right again when a call runs alone on it that leaves nothing of what was there
(`Definite`). `RepliesAreWhole` is the case of a client that is being served: no other
client is in the middle of a call then. What the log makes of an entity is a recursive
function; that it exists, that it has types, and that one more call in the log is one
more `Effect` is proved by least counterexample.

Devices. Each history variable names where calls have met. The invariants have one case
for a register, pin, camera, sensor or stream that is not named there: at most one call
(or one write) is about it, and the state is what that call has done so far; `WriteRight`,
`OutputRight`, `CountRight`, `PaceRight` and `StreamRight` say what that is, step by step. In
`CountRight`, which says how many numbers a camera can have given, and in `HandsInv` and
`WholeRight` there is also a part without that premise. `HandsInv`: every camera is in
exactly one hand: not made, coming with a swap, active, about to be released by one
thread, or released. `WholeRight`: the iterator of a dict that changes has read what
stayed and lies behind it, because an entry keeps its slot.

Channels. The broker may receive a message again after a loss, so what a topic shows may go
back in time. The invariants therefore speak of the end of a queue: `EndsIn(q, S, V)`, the
last message of kind `S` that a client has queued is one of `V`, that is, the truth.
Whatever the broker or a subscriber has that is not the truth is followed by a
message of that kind that is still to come (`ToCome`): `OwnTopicTrue`, `StatusTopicTrue`,
`SaidTrue`, `EarlyTrue`. A resend puts messages back to come and so keeps these; a delivery
either is not the last one, or is the truth. With empty queues the properties are left.
For announcements, `After` adds that no sound of an interface comes before its words.

### What is only model-checked

All liveness (`CallsReturn`, `EmissionEnds`, `RunningShowsOnline`, `CallsEnd`,
`ComponentComesBack`, and with it the fairness of `StatusBoard`), which is outside the
prover. Every safety invariant and action property of the passing runs is a theorem.
Where a proof needs induction (a least element, the maximum of a finite set, a sorted
list, the state of a loop after each turn, the replay of a log), it argues with the least
counterexample (`LeastNatural` in `BasicLemmas`), which works for numbers and for recursive
functions; folds of the library cannot be reasoned about that way, which is why the replay of
the log is a recursive function of its own.

## Findings

| Run | What the code does |
|---|---|
| `tracker_bound_method` | `remove_listener` compares with `is`; bound methods are never removed (`status.py:301`) |
| `late_registration` | `register(name, provider.implementation)` can overwrite the record of a later swap (`status.py:161`) |
| `probing_listener` | a listener that reads a provider deadlocks with a swap (`provider.py:122`) |
| `peer_stop_during_beat` | online after `stop` (`ocp.py:236`) |
| `satellite_collision` | a query that met a receiving ping leaves its answer to the next query (`dap2_client.py:217`, `:249`) |

## Not modelled

The HAL interfaces are abstract classes: signatures and nothing to check.

In the modelled components: the serializer's commands and responses and the topic
`oasis/broadcast`, which no code under `src/simulation` publishes; `send_raw` and `recv_raw`
of the satellite, its stream and session numbers; `GET /v1/models` and `GET /api/states`;
metadata of facts and arguments of tools; the values of readings and `calibrate`; pull
resistors, speeds and modes, which are stored and never read; layout of JSON, wording,
logging and timestamps (so nothing is said of events that are stamped before the lock
is taken, `status.py:172`). werkzeug, SQLite, paho, the broker and the WebSocket library are
external and modelled by what the code relies on.

Left out although the code allows it: an `on_swap` of one's own that raises, after which
`swap` returns nothing and the old implementation is never cleaned up
(`provider.py:122`); a pin that mirrors itself between two threads; the edge given to
`add_event_detect`, which `output` never compares; `wait_for` of Python 3.10 and 3.11, which may
swallow a cancellation. The discovery message of a peer is never withdrawn, so there is
nothing to check about it.

Three limits of the code that no run is about: a call that took its method before a
swap runs on the implementation that the swap handed back (`ManagedCamera` has it: the
capture then raises); after a crash the retained `oasis/<peer_id>/status` stays online, since
the will names the component's topic; and `disconnect` after the ping task has failed
raises that task's exception and leaves the socket open.

## Running

    tlc -config HotSwap.cfg MCHotSwap
    tlc -config Platform.cfg MCPlatform
    tlapm OCPPeerProofs.tla

Each run needs its `.cfg` and the module that `PROJECT.json` names with it; the longest
take one to two minutes with two workers.
