----------------------------- MODULE TopicNames -----------------------------
(***************************************************************************)
(* simulation/layer1/mqtt.py: the topics of a component and the messages of    *)
(* OCP.  A topic is the sequence of its levels; of a message, the fields that *)
(* its readers tell apart are kept, and the timestamp as present or zero.      *)
(***************************************************************************)
EXTENDS Naturals, Sequences

\* Lower case of a component's name, then _TOPIC_BASE: of the names in it, mirage
\* is the only one whose base is another word.
TopicBase(component) == IF component \in {"mirage", "Mirage", "MIRAGE"} THEN "hud" ELSE component

status(component) == <<TopicBase(component), "status">>
discovery(component) == <<TopicBase(component), "discovery">>
command(component) == <<TopicBase(component)>>
\* Variant with a bug: peers of a component share the topic.
peer_status_shared(peer_id) == <<"oasis", "peers", "status">>
peer_status(peer_id) == <<"oasis", peer_id, "status">>
sim_discovery == <<"echo", "discovery", "simulates">>

\* What the topics of a publisher's messages are made of, besides their topic.
status_online(capabilities) ==
  [msg_type |-> "status", status |-> "online", capabilities |-> capabilities]
status_offline == [msg_type |-> "status", status |-> "offline"]
DiscoveryMessage(elements) == [msg_type |-> "discovery", elements |-> elements]
=============================================================================
