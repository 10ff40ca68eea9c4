----------------------------- MODULE MockServer -----------------------------
(***************************************************************************)
(* The HTTP server inside the mocks of layer2 (ha_mock.py, llm_http_server.  *)
(* py): werkzeug's make_server without threaded=True, run by serve_forever   *)
(* in one thread.  It handles one request at a time, to its end; a client    *)
(* waits for its answer.  The other threads of the application call the mock *)
(* directly, and start and stop its server.                                 *)
(***************************************************************************)
EXTENDS Callers

CONSTANTS
  Clients,   \* the threads whose calls are HTTP requests
  NoThread

ASSUME ServerConstants == Clients \subseteq Threads /\ NoThread \notin Threads

VARIABLES
  up,       \* _server is not None
  serving   \* the client whose request is being handled

serverVars == <<up, serving>>

ServerInit == up = TRUE /\ serving = NoThread

Direct == Threads \ Clients

---------------------------------------------------------------------------
\* Variant with a bug: a request does not wait for the one before (threaded=True).
AcceptThreaded(t) ==
  /\ t \in Clients /\ At(t, "sent") /\ up
  /\ serving' = t /\ UNCHANGED up

\* The server turns to the request of t.
Accept(t) ==
  /\ t \in Clients /\ At(t, "sent") /\ up /\ serving = NoThread
  /\ serving' = t /\ UNCHANGED up

\* Nobody listens on the port: the connection fails.
Refuse(t) ==
  /\ t \in Clients /\ At(t, "sent") /\ ~ up
  /\ Return(t) /\ UNCHANGED serverVars

\* Variant with a bug: the server stays with the request it has answered.
LeaveUnserved(t) == Return(t) /\ UNCHANGED serverVars

\* The handler returns: a client has its answer, a direct caller its result.
Leave(t) ==
  /\ Return(t)
  /\ serving' = IF t \in Clients THEN NoThread ELSE serving
  /\ UNCHANGED up

Answer(t) == At(t, "reply") /\ Leave(t)

\* start, called when the server is not running.
StartServer(t) ==
  /\ t \in Direct /\ ~ up
  /\ calls < MaxCalls /\ calls' = calls + 1 /\ call[t] = Idle
  /\ up' = TRUE /\ UNCHANGED <<call, serving>>

\* stop: shutdown returns when serve_forever has left its loop, which it does
\* after the request it is handling; the join that follows finds the thread ended.
StopServer(t) ==
  /\ t \in Direct /\ up
  /\ Begin(t, [step |-> "shutdown"])
  /\ UNCHANGED serverVars

Shutdown(t) ==
  /\ At(t, "shutdown") /\ serving = NoThread
  /\ up' = FALSE /\ UNCHANGED serving
  /\ Return(t)
=============================================================================
