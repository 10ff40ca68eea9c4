--------------------------- MODULE StatusChannels ---------------------------
(***************************************************************************)
(* simulation/layer1/status_listeners.py in the processes of an ecosystem: in   *)
(* each of them a tracker tells its four listeners of every change, and they   *)
(* publish it to the other components.  An event names its interface and not   *)
(* the component.  The tracker calls its listeners under its lock, so what     *)
(* they queue for one change stands together; which of several threads makes   *)
(* the change is left to HotSwap.                                           *)
(***************************************************************************)
EXTENDS Broker, TopicNames

CONSTANTS
  Interfaces,
  Owner,          \* the processes in which each interface is tracked
  Subscribers,    \* of echo/status, from the beginning or later on
  FromStart,      \* those that subscribe in the beginning
  WebUI,          \* a subscriber of echo/status/webui instead
  Untracked, Unknown,
  MaxChanges      \* bound on the changes made

ASSUME ChannelConstants ==
  /\ \A i \in Interfaces : Owner[i] \subseteq PahoClients
  /\ FromStart \subseteq Subscribers /\ WebUI \in Subscribers
  /\ Unknown \notin BOOLEAN \cup {Untracked}
  /\ MaxChanges \in Nat

VARIABLES
  simulated,   \* whether each process runs each interface on a mock
  tracked,     \* what its tracker has of it: Untracked, or is_simulated
  changes,
  listening,   \* the subscribers there are by now
  known,       \* what each subscriber knows of an interface
  spoken,      \* the mode last announced of each interface, in words
  alerts       \* interfaces for whose change the HUD has played its sound

channelVars == <<simulated, tracked, changes, listening, known, spoken, alerts>>

EchoStatus == <<"echo", "status">>
WebUIStatus == <<"echo", "status", "webui">>

Event(change, i, is, was) ==
  [change |-> change, interface |-> i, is_simulated |-> is, was_simulated |-> was]

---------------------------------------------------------------------------
\* Variant with a bug: the broadcast is not retained.
MQTTBroadcastUnretained(event) == <<Message(EchoStatus, event, FALSE)>>

MQTTBroadcast(event) == <<Message(EchoStatus, event, TRUE)>>

ModeChanged(event) ==
  event.change = "swapped" /\ event.was_simulated # event.is_simulated

\* Variant with a bug: the announcement is for what becomes simulated.
TTSNotificationOneWay(event) ==
  IF ModeChanged(event) /\ event.is_simulated
  THEN <<Message(command("dawn"), event, FALSE)>> ELSE << >>

\* value: event.message, which names the interface and its new mode.
TTSNotification(event) ==
  IF ModeChanged(event) THEN <<Message(command("dawn"), event, FALSE)>> ELSE << >>

\* value: the name of a sound; the interface is kept for the properties.
AudioAlert(event) ==
  IF ModeChanged(event) THEN <<Message(command("mirage"), event, FALSE)>> ELSE << >>

WebUIStatusMessage(event) == <<Message(WebUIStatus, event, FALSE)>>

\* _emit, with the listeners in the order in which the docs add them.
Emit(c, event) ==
  /\ changes < MaxChanges /\ changes' = changes + 1
  /\ publish(c, MQTTBroadcast(event) \o TTSNotification(event)
                \o AudioAlert(event) \o WebUIStatusMessage(event))
  /\ UNCHANGED <<listening, known, spoken, alerts>>

Register(c, i) ==
  /\ tracked' = [tracked EXCEPT ![c][i] = simulated[c][i]]
  /\ Emit(c, Event("registered", i, simulated[c][i], Unknown))
  /\ UNCHANGED simulated

\* The provider swaps, and its handler tells the tracker, which tracks the
\* interface from then on.
Swap(c, i, to) ==
  /\ simulated' = [simulated EXCEPT ![c][i] = to]
  /\ tracked' = [tracked EXCEPT ![c][i] = to]
  /\ Emit(c, Event("swapped", i, to, simulated[c][i]))

Unregister(c, i) ==
  /\ tracked[c][i] # Untracked
  /\ tracked' = [tracked EXCEPT ![c][i] = Untracked]
  /\ Emit(c, Event("unregistered", i, tracked[c][i], Unknown))
  /\ UNCHANGED simulated

---------------------------------------------------------------------------
\* What a subscriber makes of an event.
Learn(view, event) ==
  [view EXCEPT ![event.interface] =
     IF event.change = "unregistered" THEN Untracked ELSE event.is_simulated]

Hears(s, topic) ==
  s \in listening /\ topic = IF s = WebUI THEN WebUIStatus ELSE EchoStatus

ForwardEvent(c) ==
  LET m == NextOf(c) IN
  /\ Forward(c)
  /\ known' = [s \in Subscribers |->
                 IF Hears(s, m.topic) THEN Learn(known[s], m.payload) ELSE known[s]]
  /\ spoken' = IF m.topic = command("dawn")
               THEN [spoken EXCEPT ![m.payload.interface] = m.payload.is_simulated] ELSE spoken
  /\ alerts' = IF m.topic = command("mirage") THEN alerts \cup {m.payload.interface} ELSE alerts
  /\ UNCHANGED <<simulated, tracked, changes, listening>>

\* Somebody subscribes: the broker sends the retained message of the topic.
Subscribe(s) ==
  /\ s \notin listening
  /\ listening' = listening \cup {s}
  /\ known' = IF s # WebUI /\ Retained(EchoStatus)
              THEN [known EXCEPT ![s] = Learn(@, retained[EchoStatus])] ELSE known
  /\ UNCHANGED <<brokerVars, simulated, tracked, changes, spoken, alerts>>

NetworkOfChannels(c) ==
  \/ ForwardEvent(c)
  \/ (Acknowledge(c) \/ Drop(c, << >>) \/ Reconnect(c)) /\ UNCHANGED channelVars

---------------------------------------------------------------------------
ChannelsInit ==
  /\ simulated = [c \in PahoClients |-> [i \in Interfaces |-> TRUE]]
  /\ tracked = [c \in PahoClients |-> [i \in Interfaces |-> Untracked]]
  /\ changes = 0
  /\ listening = FromStart
  /\ known = [s \in Subscribers |-> [i \in Interfaces |-> Unknown]]
  /\ spoken = [i \in Interfaces |-> Unknown]
  /\ alerts = {}

Change ==
  \E i \in Interfaces : \E c \in Owner[i] :
    Register(c, i) \/ Unregister(c, i) \/ \E to \in BOOLEAN : Swap(c, i, to)

\* Processes that publish the status of their interfaces and nothing else.
ChannelsSpec ==
  /\ BrokerInit /\ ChannelsInit
  /\ [][\/ Change \/ \E s \in Subscribers : Subscribe(s)
        \/ \E c \in PahoClients : NetworkOfChannels(c)]_<<brokerVars, channelVars>>

---------------------------------------------------------------------------
\* The interfaces that one process alone tracks.
Own == {i \in Interfaces : \E c \in PahoClients : Owner[i] = {c}}
OwnerOf(i) == CHOOSE c \in Owner[i] : TRUE

\* "Any component on the MQTT network can subscribe to echo/status to track which
\* interfaces across the ecosystem are simulated vs. real": when all messages have
\* been delivered, what a subscriber knows of an interface is what its tracker
\* has, although connections were lost and events sent again, and although events
\* of several components share one topic.  One that has listened from the
\* beginning knows of every interface; one that comes later knows of some, but the
\* WebUI, whose topic is not retained.  An interface that two processes track
\* under one name is known as it is in one of them.
KnownModeTrue ==
  Delivered =>
    /\ \A s \in listening : \A i \in Interfaces :
         known[s][i] \in {Unknown} \cup {tracked[c][i] : c \in Owner[i]}
    /\ \A s \in FromStart : \A i \in Own :
         known[s][i] = Unknown => tracked[OwnerOf(i)][i] = Untracked
    /\ \A s \in listening \ {WebUI} :
         changes > 0 => \E i \in Interfaces : known[s][i] # Unknown

\* "Only triggers on mode changes": however often an interface is swapped within
\* its mode, registered again or withdrawn, and whatever is sent twice, the mode
\* that was announced last is the one the interface is in, nothing is announced
\* of an interface that still is what it was, and whatever is announced in words
\* is announced by the sound.
AnnouncedModeTrue ==
  Delivered =>
    /\ \A i \in Own : IF spoken[i] = Unknown THEN simulated[OwnerOf(i)][i]
                      ELSE spoken[i] = simulated[OwnerOf(i)][i]
    /\ alerts = {i \in Interfaces : spoken[i] # Unknown}
=============================================================================
