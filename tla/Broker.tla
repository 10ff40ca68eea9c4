------------------------------- MODULE Broker -------------------------------
(***************************************************************************)
(* The MQTT broker and the clients of paho-mqtt, as simulation/layer1 uses      *)
(* them: external.  A client queues what is published at QoS 1 and sends it in *)
(* order; when its connection has been made again it sends what was not         *)
(* acknowledged once more.  The broker keeps the last retained message of a    *)
(* topic, forwards messages in the order in which they come and publishes the  *)
(* will of a client it has lost.  Subscribers stay connected.                *)
(***************************************************************************)
EXTENDS Naturals, Sequences

CONSTANTS
  PahoClients,
  Unsteady,     \* those whose connection may be lost
  MaxDrops      \* bound on the connections lost

ASSUME BrokerConstants == Unsteady \subseteq PahoClients /\ MaxDrops \in Nat

VARIABLES
  outbox,      \* of each client, the messages that are not acknowledged
  sent,        \* of each client, how many of them the broker has received
  retained,    \* the retained messages of the topics that have one
  connected, drops

brokerVars == <<outbox, sent, retained, connected, drops>>

Message(topic, payload, retain) == [topic |-> topic, payload |-> payload, retain |-> retain]

Retained(topic) == topic \in DOMAIN retained

\* What the broker keeps after messages with these payloads, by their topics.
Keep(payloads) ==
  [t \in DOMAIN payloads \cup DOMAIN retained |->
     IF t \in DOMAIN payloads THEN payloads[t] ELSE retained[t]]

Only(topic, payload) == [t \in {topic} |-> payload]

BrokerInit ==
  /\ outbox = [c \in PahoClients |-> << >>]
  /\ sent = [c \in PahoClients |-> 0]
  /\ retained = << >>
  /\ connected = [c \in PahoClients |-> TRUE]
  /\ drops = 0

\* client.publish, once for each message.
publish(c, messages) ==
  /\ outbox' = [outbox EXCEPT ![c] = @ \o messages]
  /\ UNCHANGED <<sent, retained, connected, drops>>

\* The broker receives a message and forwards it.  When it is acknowledged matters
\* only if the connection can be lost.
HasNext(c) == connected[c] /\ sent[c] < Len(outbox[c])
NextOf(c) == outbox[c][sent[c] + 1]

Forward(c) ==
  /\ HasNext(c)
  /\ IF c \in Unsteady THEN sent' = [sent EXCEPT ![c] = @ + 1] /\ UNCHANGED outbox
     ELSE outbox' = [outbox EXCEPT ![c] = Tail(@)] /\ UNCHANGED sent
  /\ retained' = IF NextOf(c).retain THEN Keep(Only(NextOf(c).topic, NextOf(c).payload))
                 ELSE retained
  /\ UNCHANGED <<connected, drops>>

Acknowledge(c) ==
  /\ connected[c] /\ sent[c] > 0
  /\ outbox' = [outbox EXCEPT ![c] = Tail(@)]
  /\ sent' = [sent EXCEPT ![c] = @ - 1]
  /\ UNCHANGED <<retained, connected, drops>>

\* wills is what the broker then publishes: topics with their payloads.
Drop(c, wills) ==
  /\ c \in Unsteady /\ connected[c] /\ drops < MaxDrops
  /\ drops' = drops + 1
  /\ connected' = [connected EXCEPT ![c] = FALSE]
  /\ sent' = [sent EXCEPT ![c] = 0]
  /\ retained' = Keep(wills)
  /\ UNCHANGED outbox

\* loop_start reconnects.
Reconnect(c) ==
  /\ ~ connected[c]
  /\ connected' = [connected EXCEPT ![c] = TRUE]
  /\ UNCHANGED <<outbox, sent, retained, drops>>

Delivered == \A c \in PahoClients : connected[c] /\ outbox[c] = << >>
=============================================================================
