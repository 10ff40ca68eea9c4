--------------------------- MODULE SimulatedPeers ---------------------------
(***************************************************************************)
(* Several simulated peers (simulation/layer1/ocp.py) of one or more            *)
(* components on one network: peers of a component share its status and        *)
(* discovery topics, and all peers share echo/discovery/simulates.  start, stop *)
(* and a heartbeat are steps here; how they interleave within one peer is the   *)
(* subject of OCPPeer.                                                      *)
(***************************************************************************)
EXTENDS Broker, TopicNames

CONSTANTS
  component,      \* of each peer; every peer is a client of its own
  capabilities,   \* of each peer
  WithWill,       \* the peers that have called set_lwt
  MaxStarts       \* bound on the calls of start and stop

ASSUME PeersConstants ==
  /\ DOMAIN component = PahoClients /\ DOMAIN capabilities = PahoClients
  /\ WithWill \subseteq PahoClients /\ MaxStarts \in Nat

VARIABLES
  running,      \* _running
  asked,        \* history: peers on which start or stop was called
  started,      \* history: peers that were started
  starts,
  introduced    \* peers that one who has listened from the beginning was told of

peersVars == <<running, asked, started, starts, introduced>>

---------------------------------------------------------------------------
\* _publish_online, _publish_offline, _publish_discovery, _publish_sim_discovery.
Online(p) ==
  <<Message(status(component[p]), status_online(capabilities[p]), TRUE),
    Message(peer_status(p), [peer |-> p, status |-> "online"], TRUE)>>

Offline(p) ==
  <<Message(status(component[p]), status_offline, TRUE),
    Message(peer_status(p), [peer |-> p, status |-> "offline"], TRUE)>>

Discovery(p) ==
  IF capabilities[p] = {} THEN << >>
  ELSE <<Message(discovery(component[p]), DiscoveryMessage(capabilities[p]), TRUE)>>

Simulates(p) == <<Message(sim_discovery, [peer |-> p], TRUE)>>

Count(p) ==
  /\ starts < MaxStarts /\ starts' = starts + 1
  /\ asked' = asked \cup {p}
  /\ UNCHANGED introduced

Start(p) ==
  /\ ~ running[p] /\ Count(p)
  /\ running' = [running EXCEPT ![p] = TRUE]
  /\ started' = started \cup {p}
  /\ publish(p, Online(p) \o Discovery(p) \o Simulates(p))

Stop(p) ==
  /\ Count(p)
  /\ running' = [running EXCEPT ![p] = FALSE]
  /\ publish(p, Offline(p))
  /\ UNCHANGED started

\* Variant with a bug: a heartbeat is for the peer alone.
HeartbeatOfPeer(p) ==
  /\ running[p] /\ outbox[p] = << >>
  /\ publish(p, Tail(Online(p)))
  /\ UNCHANGED peersVars

\* _heartbeat, when the messages before it have been acknowledged.
Heartbeat(p) ==
  /\ running[p] /\ outbox[p] = << >>
  /\ publish(p, Online(p))
  /\ UNCHANGED peersVars

---------------------------------------------------------------------------
will(p) == IF p \in WithWill THEN Only(status(component[p]), status_offline) ELSE << >>

ForwardPresence(p) ==
  /\ Forward(p)
  /\ introduced' = IF NextOf(p).topic = sim_discovery
                   THEN introduced \cup {NextOf(p).payload.peer} ELSE introduced
  /\ UNCHANGED <<running, asked, started, starts>>

NetworkOfPeers(p) ==
  \/ ForwardPresence(p)
  \/ (Acknowledge(p) \/ Drop(p, will(p)) \/ Reconnect(p)) /\ UNCHANGED peersVars

PeersInit ==
  /\ running = [p \in PahoClients |-> FALSE]
  /\ asked = {} /\ started = {} /\ starts = 0 /\ introduced = {}

PeersCall == \E p \in PahoClients : Start(p) \/ Stop(p)

\* Peers on a network on which nobody else publishes.
PeersSpec ==
  /\ BrokerInit /\ PeersInit
  /\ [][\/ PeersCall
        \/ \E p \in PahoClients : Heartbeat(p) \/ NetworkOfPeers(p)]_<<brokerVars, peersVars>>

---------------------------------------------------------------------------
Peers(base) == {p \in PahoClients : TopicBase(component[p]) = base}
Bases == {TopicBase(component[p]) : p \in PahoClients}

\* When all messages have been delivered, oasis/<peer_id>/status says of each peer
\* whether it runs, whatever became of the others and of the connections; the
\* component's topic says offline when all its peers have been stopped; and a
\* peer that was started has been introduced as simulated.  Who comes later finds
\* one peer introduced only, and the capabilities of one only.
PeerTopicsTrue ==
  Delivered =>
    /\ \A p \in asked :
         retained[peer_status(p)] =
           [peer |-> p, status |-> IF running[p] THEN "online" ELSE "offline"]
    /\ \A b \in Bases :
         (Peers(b) \subseteq asked /\ \A p \in Peers(b) : ~ running[p])
           => \A p \in Peers(b) : retained[status(component[p])] = status_offline
    /\ introduced = started
    /\ started # {} => retained[sim_discovery].peer \in started

\* A peer that goes on running has its component online in the end, although
\* another peer of the component is stopped, or the broker publishes a will, after
\* it has come online: the heartbeats put the shared topic right.
ComponentComesBack ==
  \A p \in PahoClients :
    <>[] running[p] =>
      <>[] (Retained(status(component[p])) /\ retained[status(component[p])].status = "online")
=============================================================================
