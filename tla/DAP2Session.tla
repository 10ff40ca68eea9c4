----------------------------- MODULE DAP2Session -----------------------------
(***************************************************************************)
(* simulation/layer1/dap2_client.py: a satellite and a daemon that talk over  *)
(* WebSockets.                                                              *)
(*                                                                         *)
(* Everything runs in asyncio, so what happens between two awaits is one      *)
(* step.  The satellite is one application task, which connects, queries and  *)
(* disconnects, and the ping tasks its connections have created; all of them  *)
(* use whatever socket _ws is at that moment.  Two tasks must not receive from *)
(* one socket: the library raises in the second.  The daemon runs one handler *)
(* per connection and answers one message after the other.                   *)
(*                                                                         *)
(* The WebSocket library is external: messages arrive in order; a connection  *)
(* that the daemon has closed is noticed later, and what had arrived before   *)
(* can still be read; receiving with nothing left to read then raises.       *)
(***************************************************************************)
EXTENDS Naturals, Sequences, FiniteSets

CONSTANTS
  Sentences,                          \* sentences in the daemon's response
  MaxConnects, MaxQueries, MaxPings   \* bounds

ASSUME SessionConstants ==
  /\ {MaxConnects, MaxQueries, MaxPings} \subseteq Nat
  /\ Sentences \in Nat \ {0}

VARIABLES
  app,         \* what the application task awaits
  ws,          \* _ws: a connection, or 0 for None
  registered,  \* _registered
  ping_task,   \* _ping_task: a ping task, or 0 for None
  pings,       \* all ping tasks there have been
  sent,        \* pings sent so far
  asked,       \* queries sent so far and what became of each
  conns,       \* connections so far
  daemon,      \* _server: "up", "stopping" or "down"
  mixed        \* history: connections on which a task gave up waiting for a
               \* reply, or received a message that was meant for another

satVars == <<ws, registered, ping_task>>
vars == <<app, satVars, pings, sent, asked, conns, daemon, mixed>>

Conns == DOMAIN conns
Tasks == DOMAIN pings
Queries == DOMAIN asked

---------------------------------------------------------------------------
\* A message: its type and, in an exchange, the query it belongs to.
Message(type, query) == [type |-> type, query |-> query]
Requests == {"register", "query", "ping"}
Replies == {"ack", "state", "stream_start", "stream_delta", "stream_end",
            "pong", "error"}
Exchange == Replies \ {"ack", "pong"}

Stream(q, types) == [i \in DOMAIN types |-> Message(types[i], q)]
Deltas == [i \in 1..Sentences |-> "stream_delta"]

\* Variant with a bug: the stream is not ended.
AnswerWithoutEnd(q) == Stream(q, <<"state", "stream_start">> \o Deltas)

\* The answer of a query: a state, then the sentences of the response as a
\* stream.
Answer(q) == Stream(q, <<"state", "stream_start">> \o Deltas \o <<"stream_end">>)

\* _handle_client: what the daemon sends for one message.  (A satellite always
\* registers first and never sees the error.)
reply(c, m) ==
  CASE m.type = "register" -> <<Message("ack", 0)>>
    [] m.type = "ping" -> <<Message("pong", 0)>>
    [] m.type = "query" /\ ~ conns[c].known -> <<Message("error", m.query)>>
    [] OTHER -> Answer(m.query)

\* A connection: whether the satellite may send on it, whether the daemon's
\* handler serves it and knows the satellite, what is on its way up, what the
\* handler has still to send, and what the satellite has not received.
NewConn == [open |-> TRUE, served |-> TRUE, known |-> FALSE,
            up |-> <<Message("register", 0)>>, todo |-> <<>>, down |-> <<>>]

SocketOpen == ws # 0 /\ conns[ws].open

\* _send.  What is sent to a handler that has ended is lost.
Send(m) ==
  /\ SocketOpen
  /\ conns' = IF conns[ws].served
              THEN [conns EXCEPT ![ws].up = Append(@, m)] ELSE conns

\* Two tasks may not receive from one connection.
AppReceives(c) == ws = c /\ app \in {"ack", "answer"}
PingReceives(t, c) == pings[t].state = "receives" /\ pings[t].on = c
Busy(c) == AppReceives(c) \/ \E t \in Tasks : PingReceives(t, c)

SocketFree == ws # 0 /\ ~ Busy(ws)

Arrived(c) == conns[c].down # <<>>
Received(c) == Head(conns[c].down)
Pop(c) == conns' = [conns EXCEPT ![c].down = Tail(@)]
HasEnded(c) == ~ conns[c].open /\ ~ Arrived(c)

\* History: a message was received by a task it was not meant for.
NoteOther(expected, c) ==
  mixed' = IF Received(c).type \in expected THEN mixed ELSE mixed \cup {c}

---------------------------------------------------------------------------
(* The application task *)

\* connect: open a socket and, in _register, send the registration and receive.
\* The buffer of a new socket is empty, so sending does not wait.  Nothing is
\* done about an earlier socket.
Connect ==
  /\ app = "idle" /\ daemon = "up" /\ Len(conns) < MaxConnects
  /\ conns' = Append(conns, NewConn)
  /\ ws' = Len(conns) + 1
  /\ app' = "ack"
  /\ UNCHANGED <<registered, ping_task, pings, sent, asked, daemon, mixed>>

\* query: refused before connect; sends the text, which fits the buffer too,
\* and goes on to receive.  If a ping task is receiving, the library raises:
\* the query has been sent and its answer is left to whoever receives next.
Query ==
  /\ app = "idle" /\ Len(asked) < MaxQueries
  /\ registered /\ Send(Message("query", Len(asked) + 1))
  /\ asked' = Append(asked, [on |-> ws, parts |-> <<>>, complete |-> FALSE])
  /\ app' = IF Busy(ws) THEN "idle" ELSE "answer"
  /\ mixed' = IF Busy(ws) THEN mixed \cup {ws} ELSE mixed
  /\ UNCHANGED <<satVars, pings, sent, daemon>>

\* The end of _register, and of connect with the new ping task.  Anything but a
\* successful ack would raise; this daemon's first message is always one.
Registered ==
  /\ app = "ack" /\ Arrived(ws) /\ Received(ws).type = "ack" /\ Pop(ws)
  /\ app' = "idle" /\ registered' = TRUE
  /\ pings' = Append(pings, [state |-> "sleeps", on |-> 0])
  /\ ping_task' = Len(pings) + 1
  /\ UNCHANGED <<ws, sent, asked, daemon, mixed>>

\* The query the application is waiting for.
Current == Len(asked)

\* Variant with a bug: the answer is complete with its first part.
CollectFirst ==
  /\ app = "answer" /\ Arrived(ws) /\ Pop(ws)
  /\ LET m == Received(ws) IN
       /\ asked' = [asked EXCEPT ![Current] =
            [asked[Current] EXCEPT
               !.parts = IF m.type = "stream_delta" THEN Append(@, m.query) ELSE @,
               !.complete = m.type \in {"stream_delta", "stream_end"}]]
       /\ app' = IF m.type \in {"stream_delta", "stream_end", "error"}
                 THEN "idle" ELSE app
  /\ NoteOther(Exchange, ws)
  /\ UNCHANGED <<satVars, pings, sent, daemon>>

\* _collect_stream: one turn of its loop.  Deltas are kept, whatever stream
\* they are of; the end of a stream, or an error, ends the call; anything else
\* is passed over.
Collect ==
  /\ app = "answer" /\ Arrived(ws) /\ Pop(ws)
  /\ LET m == Received(ws) IN
       /\ asked' = [asked EXCEPT ![Current] =
            [asked[Current] EXCEPT
               !.parts = IF m.type = "stream_delta" THEN Append(@, m.query) ELSE @,
               !.complete = m.type = "stream_end"]]
       /\ app' = IF m.type \in {"stream_end", "error"} THEN "idle" ELSE app
  /\ NoteOther(Exchange, ws)
  /\ UNCHANGED <<satVars, pings, sent, daemon>>

\* The connection ends while the application receives: the call raises.
CallLost ==
  /\ app \in {"ack", "answer"} /\ HasEnded(ws)
  /\ app' = "idle"
  /\ UNCHANGED <<satVars, pings, sent, asked, conns, daemon, mixed>>

PingHasFailed == ping_task # 0 /\ pings[ping_task].state = "failed"

\* Variant with a bug: the ping task is cancelled but not forgotten.
DisconnectKeepsTask ==
  /\ app = "idle" /\ ws # 0
  /\ ~ PingHasFailed
  /\ app' = "closes"
  /\ pings' = [t \in Tasks |-> IF t = ping_task
                               THEN [state |-> "cancelled", on |-> 0] ELSE pings[t]]
  /\ mixed' = mixed \cup {c \in Conns : ping_task # 0 /\ pings[ping_task].on = c}
  /\ UNCHANGED <<ws, registered, ping_task, sent, asked, conns, daemon>>

\* disconnect: cancel the ping task and wait for it.  If that task has failed,
\* waiting for it raises its exception: disconnect ends with nothing changed.
\* Without a socket there is nothing to do.
Disconnect ==
  /\ app = "idle" /\ ws # 0
  /\ ~ PingHasFailed
  /\ app' = "closes"
  /\ pings' = [t \in Tasks |-> IF t = ping_task
                               THEN [state |-> "cancelled", on |-> 0] ELSE pings[t]]
  /\ ping_task' = 0
  /\ mixed' = mixed \cup {c \in Conns : ping_task # 0 /\ pings[ping_task].on = c}
  /\ UNCHANGED <<ws, registered, sent, asked, conns, daemon>>

\* The rest of disconnect.
Close ==
  /\ app = "closes"
  /\ conns' = [conns EXCEPT ![ws].open = FALSE, ![ws].served = FALSE]
  /\ ws' = 0 /\ registered' = FALSE
  /\ app' = "idle"
  /\ UNCHANGED <<ping_task, pings, sent, asked, daemon, mixed>>

---------------------------------------------------------------------------
(* _ping_loop *)

PingIs(t, state, next, c) ==
  /\ pings[t].state = state
  /\ pings' = [pings EXCEPT ![t] = [state |-> next, on |-> c]]

\* Variant with a bug: the pong is left in the socket.
PingSendOnly(t) ==
  /\ PingIs(t, "sleeps", "sleeps", 0)
  /\ sent < MaxPings /\ sent' = sent + 1
  /\ Send(Message("ping", 0))
  /\ UNCHANGED <<app, satVars, asked, daemon, mixed>>

\* The interval is over: send a ping.
PingSend(t) ==
  /\ PingIs(t, "sleeps", "sends", ws)
  /\ sent < MaxPings /\ sent' = sent + 1
  /\ Send(Message("ping", 0))
  /\ UNCHANGED <<app, satVars, asked, daemon, mixed>>

\* The interval is over and there is no connection: the task fails.
PingUnsent(t) ==
  /\ PingIs(t, "sleeps", "failed", 0)
  /\ ~ SocketOpen
  /\ UNCHANGED <<app, satVars, sent, asked, conns, daemon, mixed>>

\* wait_for(_recv): from the socket of now, which need not be the one the ping
\* went to.
PingBeginReceive(t) ==
  /\ SocketFree
  /\ PingIs(t, "sends", "receives", ws)
  /\ mixed' = IF ws = pings[t].on THEN mixed ELSE mixed \cup {ws, pings[t].on}
  /\ UNCHANGED <<app, satVars, sent, asked, conns, daemon>>

\* The socket is gone, or somebody is receiving from it: the task fails.
PingRefused(t) ==
  /\ ~ SocketFree
  /\ PingIs(t, "sends", "failed", 0)
  /\ mixed' = mixed \cup {pings[t].on}
  /\ UNCHANGED <<app, satVars, sent, asked, conns, daemon>>

\* One message is received and dropped, whatever it is.
PingReceive(t) ==
  LET c == pings[t].on IN
    /\ PingIs(t, "receives", "sleeps", 0)
    /\ Arrived(c) /\ Pop(c) /\ NoteOther({"pong"}, c)
    /\ UNCHANGED <<app, satVars, sent, asked, daemon>>

\* Five seconds are over; the reply may still come.
PingTimeout(t) ==
  /\ PingIs(t, "receives", "sleeps", 0)
  /\ mixed' = mixed \cup {pings[t].on}
  /\ UNCHANGED <<app, satVars, sent, asked, conns, daemon>>

\* The connection ends while the task receives: the task fails.
PingLost(t) ==
  /\ PingIs(t, "receives", "failed", 0)
  /\ HasEnded(pings[t].on)
  /\ UNCHANGED <<app, satVars, sent, asked, conns, daemon, mixed>>

---------------------------------------------------------------------------
(* The daemon *)

\* One turn of the loop of _handle_client begins: what it will send is decided
\* and the first message of it sent, with no await before.
Take(c) ==
  /\ conns[c].served /\ conns[c].todo = <<>> /\ conns[c].up # <<>>
  /\ LET m == Head(conns[c].up) IN
       conns' = [conns EXCEPT ![c] =
         [conns[c] EXCEPT !.up = Tail(@),
                          !.todo = Tail(reply(c, m)),
                          !.down = Append(@, Head(reply(c, m))),
                          !.known = @ \/ m.type = "register"]]
  /\ UNCHANGED <<app, satVars, pings, sent, asked, daemon, mixed>>

\* One more ws.send of it.
Reply(c) ==
  /\ conns[c].served /\ conns[c].todo # <<>>
  /\ conns' = [conns EXCEPT ![c] =
       [conns[c] EXCEPT !.todo = Tail(@), !.down = Append(@, Head(conns[c].todo))]]
  /\ UNCHANGED <<app, satVars, pings, sent, asked, daemon, mixed>>

\* The handler ends.
EndHandler(c) ==
  /\ conns[c].served
  /\ conns' = [conns EXCEPT ![c] =
       [conns[c] EXCEPT !.served = FALSE, !.up = <<>>, !.todo = <<>>]]

\* query_handler, called after the first state message, raises: the exception
\* leaves _handle_client, and the library closes the connection.
HandlerFails(c) ==
  /\ conns[c].todo # <<>> /\ Head(conns[c].todo).type = "stream_start"
  /\ EndHandler(c)
  /\ UNCHANGED <<app, satVars, pings, sent, asked, daemon, mixed>>

\* stop: no new connection, the handlers are ended one by one, in whatever
\* they are doing, and _server is None after the last.
StopDaemon ==
  /\ daemon = "up" /\ daemon' = "stopping"
  /\ UNCHANGED <<app, satVars, pings, sent, asked, conns, mixed>>

HangUp(c) ==
  /\ daemon = "stopping"
  /\ EndHandler(c)
  /\ UNCHANGED <<app, satVars, pings, sent, asked, daemon, mixed>>

Stopped ==
  /\ daemon = "stopping" /\ \A c \in Conns : ~ conns[c].served
  /\ daemon' = "down"
  /\ UNCHANGED <<app, satVars, pings, sent, asked, conns, mixed>>

StartDaemon ==
  /\ daemon = "down" /\ daemon' = "up"
  /\ UNCHANGED <<app, satVars, pings, sent, asked, conns, mixed>>

\* The satellite's library notices the end of a connection.
Notice(c) ==
  /\ conns[c].open /\ ~ conns[c].served
  /\ conns' = [conns EXCEPT ![c].open = FALSE]
  /\ UNCHANGED <<app, satVars, pings, sent, asked, daemon, mixed>>

---------------------------------------------------------------------------
Init ==
  /\ app = "idle" /\ ws = 0 /\ registered = FALSE /\ ping_task = 0
  /\ pings = <<>> /\ sent = 0 /\ asked = <<>> /\ conns = <<>>
  /\ daemon = "up" /\ mixed = {}

AppStep == Registered \/ Collect \/ CallLost \/ Close
PingStep(t) ==
  \/ PingSend(t) \/ PingUnsent(t) \/ PingBeginReceive(t) \/ PingRefused(t)
  \/ PingReceive(t) \/ PingTimeout(t) \/ PingLost(t)
ConnStep(c) == Take(c) \/ Reply(c) \/ HandlerFails(c) \/ HangUp(c) \/ Notice(c)

Next ==
  \/ Connect \/ Query \/ Disconnect \/ AppStep
  \/ \E t \in Tasks : PingStep(t)
  \/ \E c \in Conns : ConnStep(c)
  \/ StopDaemon \/ Stopped \/ StartDaemon

Spec == Init /\ [][Next]_vars

\* The event loop runs every task that can go on, and connections deliver.
FairSpec ==
  /\ Spec
  /\ WF_vars(AppStep)
  /\ \A c \in 1..MaxConnects :
       WF_vars(c \in Conns /\ (Take(c) \/ Reply(c) \/ Notice(c)))

---------------------------------------------------------------------------
Messages(types) == [type : types, query : 0..MaxQueries]

\* Types; and a satellite that holds a ping task is registered and has a
\* socket, which disconnect must undo in this order.
TypeOK ==
  /\ app \in {"idle", "ack", "answer", "closes"}
  /\ ws \in 0..Len(conns) /\ registered \in BOOLEAN /\ ping_task \in 0..Len(pings)
  /\ pings \in Seq([state : {"sleeps", "sends", "receives", "failed", "cancelled"},
                    on : 0..Len(conns)])
  /\ sent \in 0..MaxPings
  /\ asked \in Seq([on : Conns, parts : Seq(Queries), complete : BOOLEAN])
  /\ Len(asked) <= MaxQueries
  /\ conns \in Seq([open : BOOLEAN, served : BOOLEAN, known : BOOLEAN,
                    up : Seq(Messages(Requests)), todo : Seq(Messages(Replies)),
                    down : Seq(Messages(Replies))])
  /\ Len(conns) <= MaxConnects
  /\ daemon \in {"up", "stopping", "down"} /\ mixed \subseteq Conns
  /\ ping_task # 0 => registered /\ ws # 0
  /\ app # "idle" => ws # 0

OwnParts(q) == [i \in 1..Sentences |-> q]

\* A query that returns a complete answer returns its own, all of it and
\* nothing else, on a connection on which every query before it has returned
\* too: whatever the pings on it did, however late their pongs.
OwnAnswer ==
  \A q \in Queries :
    /\ asked[q].complete
    /\ \A p \in 1..(q - 1) : asked[p].on = asked[q].on => asked[p].complete
    => asked[q].parts = OwnParts(q)

\* Every complete answer is the query's own, without that premise: "Send a text
\* query and collect the full streaming response" (dap2_client.py:167).
AnswersMatch == \A q \in Queries : asked[q].complete => asked[q].parts = OwnParts(q)

Count(s, type) == Cardinality({i \in DOMAIN s : s[i].type = type})
Owed(c) == Count(conns[c].up, "ping") + Count(conns[c].todo, "pong")
             + Count(conns[c].down, "pong")
Awaiting(c) == {t \in Tasks : pings[t].state \in {"sends", "receives"}
                              /\ pings[t].on = c}

\* Every ping on its way has one task that waits for its pong and no pong is
\* left over for somebody else to receive, on a connection on which no task
\* has given up waiting for a reply or received what was meant for another.
PongsMatch ==
  \A c \in Conns \ mixed :
    conns[c].served => Owed(c) = Cardinality(Awaiting(c))

\* Every call of the application returns, whatever becomes of the connection
\* and the daemon.
CallsReturn == app # "idle" ~> app = "idle"
=============================================================================
