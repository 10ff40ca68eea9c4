--------------------------- MODULE HomeAssistant ---------------------------
(***************************************************************************)
(* simulation/layer2/ha_mock.py: entities whose state service calls change,  *)
(* for HTTP clients and for threads of the application that call directly.   *)
(* Every read and write of an entity is a step.  A reply is built by one      *)
(* call of the C encoder, so it shows one moment.  Timestamps are left out.   *)
(***************************************************************************)
EXTENDS MockServer

CONSTANTS
  Entities,        \* entity ids that exist
  InitialEntity,   \* what each is at the beginning
  ServiceCalls,    \* the service calls that are made
  Absent           \* a key that is not there

Services == {"turn_on", "turn_off", "toggle", "set_temperature"}
Values == 0..255 \cup {Absent}
EntityStates == [state : {"on", "off", "heat"}, brightness : Values, temperature : Values]

\* A service call; new_state is the local variable of toggle.
ServiceSteps == {"state", "read", "brightness", "full", "temperature"}
ServiceRecords ==
  [step : {"sent", "append", "done"} \cup ServiceSteps,
   request : {"service"}, authorized : {TRUE},
   entity : {c.entity : c \in ServiceCalls}, service : {c.service : c \in ServiceCalls},
   level : Values, temperature : Values, new_state : {"on", "off", Absent}]

\* entity is an id or some other string; level and temperature are the
\* "brightness" and "temperature" keys of the data.
ASSUME HomeAssistantConstants ==
  /\ Idle \notin ServiceRecords
  /\ InitialEntity \in [Entities -> EntityStates]
  /\ \A c \in ServiceCalls : DOMAIN c = {"entity", "service", "level", "temperature"}
                             /\ {c.level, c.temperature} \subseteq Values

VARIABLES
  entities,
  service_log,
  torn         \* history: what of an entity overlapping calls have written,
               \* one of them direct

haVars == <<callerVars, serverVars, entities, service_log, torn>>
entityVars == <<entities, service_log, torn>>

---------------------------------------------------------------------------
\* The two parts of an entity that services write.
Parts == {"light", "climate"}
PartOf(c) == IF c.service = "set_temperature" THEN "climate" ELSE "light"
Show(e, p) == IF p = "light" THEN <<e.state, e.brightness>> ELSE <<e.temperature>>

Running(t, e, p) ==
  call[t] # Idle /\ call[t].step \in ServiceSteps /\ call[t].entity = e /\ PartOf(call[t]) = p

\* What a call leaves behind whatever was there before.
Definite(c) ==
  \/ c.service = "turn_off"
  \/ c.service = "turn_on" /\ c.level # Absent
  \/ c.service = "set_temperature" /\ c.temperature # Absent

Logged(c) == [entity |-> c.entity, service |-> c.service,
              level |-> c.level, temperature |-> c.temperature]

\* The call c has come to this step.
ServiceCall(c, step) ==
  [step |-> step, request |-> "service", authorized |-> TRUE, entity |-> c.entity,
   service |-> c.service, level |-> c.level, temperature |-> c.temperature,
   new_state |-> Absent]

---------------------------------------------------------------------------
\* POST /api/services/<domain>/<service>; the same call made directly; any
\* request without the right token.
RequestService(t, c) ==
  /\ t \in Clients
  /\ Begin(t, ServiceCall(c, "sent"))
  /\ UNCHANGED <<serverVars, entityVars>>

RequestUnauthorized(t) ==
  /\ t \in Clients
  /\ Begin(t, [step |-> "sent", authorized |-> FALSE])
  /\ UNCHANGED <<serverVars, entityVars>>

CallService(t, c) ==
  /\ t \in Direct
  /\ Begin(t, ServiceCall(c, "append"))
  /\ UNCHANGED <<serverVars, entityVars>>

\* GET /api/states/<entity_id>.
RequestState(t, e) ==
  /\ t \in Clients
  /\ Begin(t, [step |-> "sent", request |-> "state", authorized |-> TRUE, entity |-> e])
  /\ UNCHANGED <<serverVars, entityVars>>

\* _check_auth, then the route.
HandleRequest(t) ==
  /\ Accept(t)
  /\ IF call[t].authorized
     THEN Goto(t, IF call[t].request = "service" THEN "append" ELSE "get")
     ELSE Goto(t, "reply")
  /\ UNCHANGED entityVars

GetState(t) ==
  /\ At(t, "get")
  /\ Continue(t, [step |-> "reply", entity |-> call[t].entity,
                  shown |-> IF call[t].entity \in Entities
                            THEN entities[call[t].entity] ELSE Absent])
  /\ UNCHANGED <<serverVars, entityVars>>

---------------------------------------------------------------------------
FirstStep(c) ==
  IF c.entity \notin Entities \/ c.service \notin Services THEN "done"
  ELSE CASE c.service \in {"turn_on", "turn_off"} -> "state"
         [] c.service = "toggle" -> "read"
         [] c.service = "set_temperature" -> "temperature"

\* The state a service writes: toggle has found it out before.
NewState(c) == CASE c.service = "turn_on" -> "on"
                 [] c.service = "turn_off" -> "off"
                 [] c.service = "toggle" -> c.new_state

\* The log comes first, then the lookup of the entity.
AppendLog(t) ==
  LET c == call[t] IN
  /\ At(t, "append")
  /\ service_log' = Append(service_log, Logged(c))
  /\ Goto(t, FirstStep(c))
  /\ IF FirstStep(c) = "done" THEN UNCHANGED torn
     ELSE LET met == {u \in Threads : Running(u, c.entity, PartOf(c))}
          IN  torn' = [torn EXCEPT ![c.entity] =
                IF met # {} THEN IF met \cup {t} \subseteq Clients THEN @ ELSE @ \cup {PartOf(c)}
                ELSE IF Definite(c) THEN @ \ {PartOf(c)} ELSE @]
  /\ UNCHANGED <<serverVars, entities>>

ReadState(t) ==
  LET c == call[t] IN
  /\ At(t, "read")
  /\ Continue(t, [c EXCEPT !.step = "state",
                    !.new_state = IF entities[c.entity].state = "on" THEN "off" ELSE "on"])
  /\ UNCHANGED <<serverVars, entityVars>>

WriteState(t) ==
  LET c == call[t] IN
  /\ At(t, "state")
  /\ entities' = [entities EXCEPT ![c.entity].state = NewState(c)]
  /\ Goto(t, "brightness")
  /\ UNCHANGED <<serverVars, service_log, torn>>

\* Variant with a bug: turning off leaves the brightness.
BrightnessKept(t) ==
  LET c == call[t]
      level == entities[c.entity].brightness
  IN
  /\ At(t, "brightness")
  /\ entities' = [entities EXCEPT ![c.entity].brightness =
       IF c.service = "turn_on" /\ c.level # Absent THEN c.level ELSE @]
  /\ Goto(t, IF NewState(c) = "on" /\ c.level = Absent /\ level = 0 THEN "full" ELSE "done")
  /\ UNCHANGED <<serverVars, service_log, torn>>

\* turn_on with a level writes it; turned on otherwise, the brightness is read
\* (and, if it is 0, written in the next step); turned off, it is written.
\* toggle takes no notice of a level.
Brightness(t) ==
  LET c == call[t]
      levelGiven == c.service = "turn_on" /\ c.level # Absent
      off == NewState(c) = "off"
  IN
  /\ At(t, "brightness")
  /\ entities' = [entities EXCEPT ![c.entity].brightness =
       IF levelGiven THEN c.level ELSE IF off THEN 0 ELSE @]
  /\ Goto(t, IF ~ levelGiven /\ ~ off /\ entities[c.entity].brightness = 0
             THEN "full" ELSE "done")
  /\ UNCHANGED <<serverVars, service_log, torn>>

FullBrightness(t) ==
  /\ At(t, "full")
  /\ entities' = [entities EXCEPT ![call[t].entity].brightness = 255]
  /\ Goto(t, "done")
  /\ UNCHANGED <<serverVars, service_log, torn>>

SetTemperature(t) ==
  LET c == call[t] IN
  /\ At(t, "temperature")
  /\ entities' = [entities EXCEPT ![c.entity].temperature =
       IF c.temperature = Absent THEN @ ELSE c.temperature]
  /\ Goto(t, "done")
  /\ UNCHANGED <<serverVars, service_log, torn>>

ServiceDone(t) == At(t, "done") /\ Leave(t) /\ UNCHANGED entityVars

---------------------------------------------------------------------------
HAInit ==
  /\ entities = InitialEntity
  /\ service_log = << >>
  /\ torn = [e \in Entities |-> {}]

HACall(t) ==
  \/ \E c \in ServiceCalls : RequestService(t, c) \/ CallService(t, c)
  \/ RequestUnauthorized(t)
  \/ \E e \in Entities \cup {Absent} : RequestState(t, e)
  \/ StartServer(t) /\ UNCHANGED entityVars
  \/ StopServer(t) /\ UNCHANGED entityVars

HAStep(t) ==
  \/ HandleRequest(t) \/ GetState(t)
  \/ Answer(t) /\ UNCHANGED entityVars
  \/ Refuse(t) /\ UNCHANGED entityVars
  \/ Shutdown(t) /\ UNCHANGED entityVars
  \/ AppendLog(t) \/ ReadState(t) \/ WriteState(t) \/ Brightness(t)
  \/ FullBrightness(t) \/ SetTemperature(t) \/ ServiceDone(t)

HASpec ==
  /\ CallersInit /\ ServerInit /\ HAInit
  /\ [][\E t \in Threads : HACall(t) \/ HAStep(t)]_haVars

---------------------------------------------------------------------------
\* The reference: a service call as one step on one entity.
Effect(e, c) ==
  LET on  == [e EXCEPT !.state = "on", !.brightness = IF @ = 0 THEN 255 ELSE @]
      off == [e EXCEPT !.state = "off", !.brightness = 0]
  IN CASE c.service = "turn_on" /\ c.level = Absent -> on
       [] c.service = "turn_on" /\ c.level # Absent ->
            [e EXCEPT !.state = "on", !.brightness = c.level]
       [] c.service = "turn_off" -> off
       [] c.service = "toggle" -> IF e.state = "on" THEN off ELSE on
       [] c.service = "set_temperature" /\ c.temperature # Absent ->
            [e EXCEPT !.temperature = c.temperature]
       [] OTHER -> e

\* What the calls in the log make of entity e, one after another: after n of them.
Replayed(log, e) ==
  LET after[n \in 0..Len(log)] ==
        IF n = 0 THEN InitialEntity[e]
        ELSE IF log[n].entity = e THEN Effect(after[n - 1], log[n]) ELSE after[n - 1]
  IN  after
Replay(e) == Replayed(service_log, e)[Len(service_log)]

Explained(e, p, seen) ==
  \/ p \in torn[e]
  \/ \E t \in Direct : Running(t, e, p)
  \/ Show(seen, p) = Show(Replay(e), p)

\* service_log ("List of service calls received") explains the entities: with
\* nothing running on it, an entity is what its logged calls, taken one after
\* another in the order of the log, make of it.  HTTP requests alone never break
\* this, since the server handles one at a time; a direct call that overlaps
\* another does, until a call that runs alone writes the whole part again.
LogExplains ==
  \A e \in Entities, p \in Parts :
    (\A t \in Threads : ~ Running(t, e, p)) => Explained(e, p, entities[e])

\* A client that asks for a state never sees half of another client's call, nor
\* misses one that was answered before.
RepliesAreWhole ==
  [][\A t \in Clients, e \in Entities, p \in Parts :
       At(t, "get") /\ call[t].entity = e /\ call'[t].step = "reply"
       => Explained(e, p, call'[t].shown)]_haVars
=============================================================================
