----------------------------- MODULE MCChannels -----------------------------
(***************************************************************************)
(* The MQTT channels of layer1 for TLC: a behaviour is about the status of      *)
(* interfaces or about the presence of peers.                                *)
(***************************************************************************)
EXTENDS StatusChannels, SimulatedPeers, TLC

CONSTANTS proc1, proc2, camera, imu, monitor, late, web

VARIABLE subject

vars == <<subject, brokerVars, channelVars, peersVars>>

Init ==
  /\ subject \in {"status", "peers"}
  /\ BrokerInit /\ ChannelsInit /\ PeersInit

Network(c) ==
  \/ subject = "status" /\ NetworkOfChannels(c) /\ UNCHANGED <<subject, peersVars>>
  \/ subject = "peers" /\ NetworkOfPeers(c) /\ UNCHANGED <<subject, channelVars>>

Changes ==
  /\ subject = "status"
  /\ Change \/ \E s \in Subscribers : Subscribe(s)
  /\ UNCHANGED <<subject, peersVars>>

PeerCalls == subject = "peers" /\ PeersCall /\ UNCHANGED <<subject, channelVars>>

Beat(p) == subject = "peers" /\ Heartbeat(p) /\ UNCHANGED <<subject, channelVars>>

Next ==
  \/ Changes \/ PeerCalls
  \/ \E c \in PahoClients : Network(c) \/ Beat(c)

\* Messages travel, connections come back and heartbeats are due; a change, a call
\* or a lost connection may never happen.
Delivery(c) ==
  /\ \/ ForwardEvent(c) /\ subject = "status" /\ UNCHANGED peersVars
     \/ ForwardPresence(c) /\ subject = "peers" /\ UNCHANGED channelVars
     \/ (Acknowledge(c) \/ Reconnect(c)) /\ UNCHANGED <<peersVars, channelVars>>
  /\ UNCHANGED subject

Spec ==
  /\ Init /\ [][Next]_vars
  /\ \A c \in PahoClients : WF_vars(Delivery(c)) /\ WF_vars(Beat(c))

---------------------------------------------------------------------------
MCClients == {proc1, proc2}
MCInterfaces == {camera, imu}
\* Both processes have a camera; the imu is in the first one alone.
MCOwner == camera :> MCClients @@ imu :> {proc1}
MCSubscribers == {monitor, late, web}
MCComponent == proc1 :> "mirage" @@ proc2 :> "mirage"
MCCapabilities == proc1 :> {"map"} @@ proc2 :> {}
=============================================================================
