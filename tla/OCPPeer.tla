------------------------------ MODULE OCPPeer ------------------------------
(***************************************************************************)
(* simulation/layer1/ocp.py: a simulated peer that publishes its presence   *)
(* on the MQTT network, repeats it with a chain of threading.Timer threads   *)
(* and withdraws it when it is stopped.                                     *)
(*                                                                         *)
(* The application calls start and stop from one thread; every heartbeat     *)
(* runs in the thread of its own timer.  The attributes are shared and       *)
(* nothing locks them, so each read or write of them, and each publish, is a *)
(* step.  paho-mqtt and the broker are external: publish queues a QoS 1       *)
(* message; what is not acknowledged is sent again after a reconnection; the *)
(* broker keeps the last retained message of each topic and publishes the    *)
(* will of a client whose connection is lost.                               *)
(***************************************************************************)
EXTENDS Naturals, Sequences, FiniteSets

CONSTANTS
  Timers,             \* timer objects; those nobody can reach are used again
  NoTimer, App,       \* None, and the thread that calls start and stop
  HasCapabilities,    \* the peer was given capabilities to advertise
  LwtSet,             \* set_lwt was called before the client connected
  MaxCalls, MaxDrops, MaxOutbox,  \* bounds
  MayCrash            \* the process may die

ASSUME PeerConstants ==
  /\ App \notin Timers /\ NoTimer \notin Timers \cup {App}
  /\ {HasCapabilities, LwtSet, MayCrash} \subseteq BOOLEAN
  /\ {MaxCalls, MaxDrops, MaxOutbox} \subseteq Nat

VARIABLES
  running,    \* _running
  timer,      \* _heartbeat_timer
  pc,         \* where the application and each timer is
  calls,      \* calls of start and stop so far
  disturbed,  \* start or stop was called while a heartbeat was running
  outbox,     \* messages published and not acknowledged
  sent,       \* how many of them the broker has received
  retained,   \* the retained message of each topic
  connected,  \* the client's connection is up
  drops,      \* connections lost so far
  crashed     \* the process is dead

callVars == <<calls, disturbed>>
peerVars == <<running, timer, pc, callVars>>
netVars == <<outbox, sent, retained, connected, drops, crashed>>
vars == <<peerVars, netVars>>

\* hud/status and oasis/<peer_id>/status say whether the peer is there; the
\* other two say what it offers and that it is simulated.
Presence == {"status", "peer_status"}
Topics == Presence \cup {"discovery", "simulates"}
Message(topic, value) == [topic |-> topic, value |-> value]
Messages == [topic : Topics, value : {"online", "offline", "present"}]

Actors == {App} \cup Timers
At(a, label) == ~ crashed /\ pc[a] = label
Goto(a, label) == pc' = [pc EXCEPT ![a] = label]

\* A timer object is unused, created, started and waiting, or cancelled (or
\* done); otherwise its thread is inside _heartbeat.
Waiting == {"unused", "created", "armed", "cancelled"}
Beating(n) == pc[n] \notin Waiting
NoBeat == \A n \in Timers : ~ Beating(n)

StartLabels == {"status", "peer_status", "check", "create", "launch"}
AppLabels == StartLabels \cup {"idle", "discovery", "simulates", "x_timer",
                               "x_cancel", "x_clear", "x_status", "x_peer"}
TimerLabels == StartLabels \cup Waiting \cup {"fired"}

---------------------------------------------------------------------------
\* client.publish: append to the queue, whether or not the connection is up.
publish(topic, value) ==
  /\ Len(outbox) < MaxOutbox
  /\ outbox' = Append(outbox, Message(topic, value))
  /\ UNCHANGED <<sent, retained, connected, drops, crashed>>

\* The application makes a call, the number of them bounded; the history
\* variable remembers whether a heartbeat was in its way.
CountCall ==
  /\ calls < MaxCalls
  /\ calls' = calls + 1
  /\ disturbed' = (disturbed \/ ~ NoBeat)

\* The end of start, or of the thread of a heartbeat.
Finish(a) == Goto(a, IF a = App THEN "idle" ELSE "cancelled")

\* start: _running = True, then the publishing and scheduling below.  The
\* application starts a peer that is not running.
Start ==
  /\ At(App, "idle") /\ ~ running /\ CountCall
  /\ running' = TRUE
  /\ Goto(App, "status")
  /\ UNCHANGED <<timer, netVars>>

\* _publish_online: two messages, one after the other.
PublishStatus(a) ==
  /\ At(a, "status") /\ publish("status", "online")
  /\ Goto(a, "peer_status")
  /\ UNCHANGED <<running, timer, callVars>>

\* Variant with a bug: a heartbeat announces the peer again, as start does.
PublishPeerStatusAndMore(a) ==
  /\ At(a, "peer_status") /\ publish("peer_status", "online")
  /\ Goto(a, IF HasCapabilities THEN "discovery" ELSE "simulates")
  /\ UNCHANGED <<running, timer, callVars>>

PublishPeerStatus(a) ==
  /\ At(a, "peer_status") /\ publish("peer_status", "online")
  /\ Goto(a, IF a # App THEN "check"
             ELSE IF HasCapabilities THEN "discovery" ELSE "simulates")
  /\ UNCHANGED <<running, timer, callVars>>

PublishDiscovery ==
  /\ At(App, "discovery") /\ publish("discovery", "present")
  /\ Goto(App, "simulates")
  /\ UNCHANGED <<running, timer, callVars>>

PublishSimDiscovery ==
  /\ At(App, "simulates") /\ publish("simulates", "present")
  /\ Goto(App, "check")
  /\ UNCHANGED <<running, timer, callVars>>

\* Variant with a bug: a heartbeat does not schedule the next one.
CheckRunningOnce(a) ==
  /\ At(a, "check")
  /\ IF running /\ a = App THEN Goto(a, "create") ELSE Finish(a)
  /\ UNCHANGED <<running, timer, callVars, netVars>>

\* _schedule_heartbeat: the check of _running ...
CheckRunning(a) ==
  /\ At(a, "check")
  /\ IF running THEN Goto(a, "create") ELSE Finish(a)
  /\ UNCHANGED <<running, timer, callVars, netVars>>

\* ... the assignment of a new Timer to _heartbeat_timer ...
CreateTimer(a) ==
  /\ At(a, "create")
  /\ \E n \in Timers \ {timer} :
       /\ pc[n] \in {"unused", "created", "cancelled"}
       /\ timer' = n
       /\ pc' = [pc EXCEPT ![a] = "launch", ![n] = "created"]
  /\ UNCHANGED <<running, callVars, netVars>>

\* ... and _heartbeat_timer.start(), which reads the attribute again: it may be
\* None by now, or a timer that was started or cancelled meanwhile.  The
\* exception ends the caller; the timer it had created is never started.
LaunchTimer(a) ==
  LET end == IF a = App THEN "idle" ELSE "cancelled"
  IN  /\ At(a, "launch")
      /\ pc' = IF timer # NoTimer /\ pc[timer] = "created"
               THEN [pc EXCEPT ![timer] = "armed", ![a] = end]
               ELSE [pc EXCEPT ![a] = end]
      /\ UNCHANGED <<running, timer, callVars, netVars>>

\* The interval is over and the timer was not cancelled: its thread calls
\* _heartbeat ...
Fire(n) ==
  /\ At(n, "armed")
  /\ Goto(n, "fired")
  /\ UNCHANGED <<running, timer, callVars, netVars>>

\* (Variant with a bug: without a look at _running.)
BeatUnchecked(n) ==
  /\ At(n, "fired")
  /\ Goto(n, "status")
  /\ UNCHANGED <<running, timer, callVars, netVars>>

\* ... which returns at once when the peer is not running.
Beat(n) ==
  /\ At(n, "fired")
  /\ Goto(n, IF running THEN "status" ELSE "cancelled")
  /\ UNCHANGED <<running, timer, callVars, netVars>>

\* stop: _running = False ...
Stop ==
  /\ At(App, "idle") /\ CountCall
  /\ running' = FALSE
  /\ Goto(App, "x_timer")
  /\ UNCHANGED <<timer, netVars>>

\* ... if _heartbeat_timer is not None ...
TestTimer ==
  /\ At(App, "x_timer")
  /\ Goto(App, IF timer = NoTimer THEN "x_status" ELSE "x_cancel")
  /\ UNCHANGED <<running, timer, callVars, netVars>>

\* (Variant with a bug: the timer is forgotten and not cancelled.)
CancelNothing ==
  /\ At(App, "x_cancel")
  /\ Goto(App, "x_clear")
  /\ UNCHANGED <<running, timer, callVars, netVars>>

\* ... cancel it, which has no effect on a function that is already running ...
CancelTimer ==
  /\ At(App, "x_cancel")
  /\ pc' = IF pc[timer] \in {"created", "armed"}
           THEN [pc EXCEPT ![timer] = "cancelled", ![App] = "x_clear"]
           ELSE [pc EXCEPT ![App] = "x_clear"]
  /\ UNCHANGED <<running, timer, callVars, netVars>>

\* ... and forget it ...
ClearTimer ==
  /\ At(App, "x_clear")
  /\ timer' = NoTimer
  /\ Goto(App, "x_status")
  /\ UNCHANGED <<running, callVars, netVars>>

\* ... then _publish_offline.
PublishOffline ==
  /\ At(App, "x_status") /\ publish("status", "offline")
  /\ Goto(App, "x_peer")
  /\ UNCHANGED <<running, timer, callVars>>

PublishPeerOffline ==
  /\ At(App, "x_peer") /\ publish("peer_status", "offline")
  /\ Goto(App, "idle")
  /\ UNCHANGED <<running, timer, callVars>>

---------------------------------------------------------------------------
\* The broker receives the next message and retains it; the acknowledgement may
\* be lost with the connection.
Receive ==
  /\ connected /\ sent < Len(outbox)
  /\ sent' = sent + 1
  /\ retained' = [retained EXCEPT ![outbox[sent + 1].topic] = outbox[sent + 1].value]
  /\ UNCHANGED <<peerVars, outbox, connected, drops, crashed>>

Acknowledge ==
  /\ connected /\ sent > 0
  /\ outbox' = Tail(outbox) /\ sent' = sent - 1
  /\ UNCHANGED <<peerVars, retained, connected, drops, crashed>>

\* Variant with a bug: the will names the per-peer topic.
will_of_peer == IF LwtSet THEN [retained EXCEPT !["peer_status"] = "offline"] ELSE retained

\* set_lwt names the component's status topic, retained.
will == IF LwtSet THEN [retained EXCEPT !["status"] = "offline"] ELSE retained

Drop ==
  /\ connected /\ ~ crashed /\ drops < MaxDrops
  /\ connected' = FALSE /\ drops' = drops + 1
  /\ sent' = 0 /\ retained' = will
  /\ UNCHANGED <<peerVars, outbox, crashed>>

Reconnect ==
  /\ ~ connected /\ ~ crashed
  /\ connected' = TRUE
  /\ UNCHANGED <<peerVars, outbox, sent, retained, drops, crashed>>

\* The process dies with its queue; the broker finds the connection lost.
Crash ==
  /\ MayCrash /\ ~ crashed
  /\ crashed' = TRUE /\ connected' = FALSE
  /\ outbox' = << >> /\ sent' = 0
  /\ retained' = IF connected THEN will ELSE retained
  /\ UNCHANGED <<peerVars, drops>>

---------------------------------------------------------------------------
Init ==
  /\ running = FALSE /\ timer = NoTimer /\ calls = 0 /\ disturbed = FALSE
  /\ pc = [a \in Actors |-> IF a = App THEN "idle" ELSE "unused"]
  /\ outbox = << >> /\ sent = 0
  /\ retained = [t \in Topics |-> "none"]
  /\ connected = TRUE /\ drops = 0 /\ crashed = FALSE

\* What the thread of the application, or of a timer, does inside a call.
Step(a) ==
  \/ PublishStatus(a) \/ PublishPeerStatus(a)
  \/ CheckRunning(a) \/ CreateTimer(a) \/ LaunchTimer(a)
  \/ a = App /\ (PublishDiscovery \/ PublishSimDiscovery)
  \/ a = App /\ (TestTimer \/ CancelTimer \/ ClearTimer)
  \/ a = App /\ (PublishOffline \/ PublishPeerOffline)

Network == Receive \/ Acknowledge \/ Reconnect

Next ==
  \/ Start \/ Stop
  \/ \E a \in Actors : Step(a)
  \/ \E n \in Timers : Fire(n) \/ Beat(n)
  \/ Network \/ Drop \/ Crash

Spec == Init /\ [][Next]_vars

\* A call goes on until it returns, the interval of a timer ends, a lost
\* connection is made again (loop_start reconnects) and messages travel.  When
\* the application starts and stops the peer is its own affair.
FairSpec ==
  /\ Spec
  /\ \A a \in Actors : WF_vars(Step(a))
  /\ \A n \in Timers : WF_vars(Fire(n)) /\ WF_vars(Beat(n))
  /\ WF_vars(Receive) /\ WF_vars(Acknowledge) /\ WF_vars(Reconnect)
---------------------------------------------------------------------------
TypeOK ==
  /\ running \in BOOLEAN
  /\ timer \in Timers \cup {NoTimer}
  /\ pc \in [Actors -> AppLabels \cup TimerLabels]
  /\ pc[App] \in AppLabels /\ \A n \in Timers : pc[n] \in TimerLabels
  /\ calls \in 0..MaxCalls /\ disturbed \in BOOLEAN
  /\ outbox \in Seq(Messages) /\ sent \in 0..Len(outbox)
  /\ retained \in [Topics -> {"none", "online", "offline", "present"}]
  /\ connected \in BOOLEAN /\ drops \in 0..MaxDrops /\ crashed \in BOOLEAN

\* Nothing is under way: the application is outside start and stop, no heartbeat
\* is running, and the broker has every message.
Quiet == ~ crashed /\ At(App, "idle") /\ NoBeat /\ outbox = << >> /\ connected

\* stop: "Publish offline status and stop heartbeat."  Once everything that was
\* under way has ended, a peer that was stopped is offline on both topics.
StoppedShowsOffline ==
  Quiet /\ calls > 0 /\ ~ running => \A t \in Presence : retained[t] = "offline"

\* The same, as far as the code has it: if no call of start or stop met a
\* heartbeat that was running, no heartbeat publishes after the farewell,
\* although a timer may fire at any moment of stop and before it is cancelled,
\* and the farewell survives lost connections and messages sent again.
FarewellIsLast == ~ disturbed => StoppedShowsOffline

\* "Heartbeat every heartbeat_interval seconds": after any number of starts and
\* stops none of which met a running heartbeat, at most one timer waits for the
\* next heartbeat or is carrying it out.
OneHeartbeat ==
  ~ disturbed =>
    Cardinality({n \in Timers : pc[n] = "armed" \/ Beating(n)}) <= 1

\* A peer that stays started ends up online on both topics and announced as
\* simulated, and stays so: although a lost connection makes the broker publish
\* the will over the online status, and nothing is published on reconnection,
\* the chain of heartbeats is never broken, whatever heartbeats the calls of
\* start and stop ran into, and the next one corrects it.
RunningShowsOnline ==
  <>[](running /\ ~ crashed) =>
    <>[](/\ \A t \in Presence : retained[t] = "online"
         /\ retained["simulates"] = "present"
         /\ HasCapabilities => retained["discovery"] = "present")

\* The will is for offline detection: while the client is not connected, or its
\* process is dead, the component's topic does not say online, whichever
\* messages were on their way when the connection was lost.
LostShowsOffline == LwtSet /\ ~ connected => retained["status"] # "online"
=============================================================================
