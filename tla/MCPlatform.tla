----------------------------- MODULE MCPlatform -----------------------------
(***************************************************************************)
(* The services of layer2 for TLC.  They share no state: a behaviour is about *)
(* one of them, which its threads call.                                     *)
(***************************************************************************)
EXTENDS HomeAssistant, MemoryStore, LLMServer, TLC

CONSTANTS app, client1, client2, lamp, heater, noWord,
          HACalls, MemoryCalls, LLMCalls   \* calls made of each of them

VARIABLE service

vars == <<service, callerVars, serverVars, entityVars, tableVars, opened, crashes,
          historyVars, ruleVars, sent>>

others(s) ==
  /\ s # "home" => UNCHANGED entityVars
  /\ s # "memory" => UNCHANGED <<tableVars, opened, crashes, historyVars>>
  /\ s # "llm" => UNCHANGED <<ruleVars, sent>>
  /\ s = "memory" => UNCHANGED serverVars

Init ==
  /\ service \in {"home", "memory", "llm"}
  /\ CallersInit /\ ServerInit
  /\ HAInit /\ MemoryInit /\ LLMInit

Limit(s) == CASE s = "home" -> HACalls [] s = "memory" -> MemoryCalls [] s = "llm" -> LLMCalls

Calls(t) ==
  /\ calls < Limit(service)
  /\ \/ service = "home" /\ HACall(t) /\ others("home")
     \/ service = "memory" /\ t \in Clients /\ MemoryCall(t) /\ others("memory")
     \/ service = "llm" /\ LLMCall(t) /\ others("llm")
  /\ UNCHANGED service

Steps(t) ==
  /\ \/ service = "home" /\ HAStep(t) /\ others("home")
     \/ service = "memory" /\ MemoryStep(t) /\ others("memory")
     \/ service = "llm" /\ LLMStep(t) /\ others("llm")
  /\ UNCHANGED service

MemoryProcess ==
  service = "memory" /\ (Crash \/ Open) /\ others("memory") /\ UNCHANGED service

AtRest ==
  /\ calls = Limit(service) /\ \A t \in Threads : call[t] = Idle
  /\ UNCHANGED vars

Next == MemoryProcess \/ AtRest \/ \E t \in Threads : Calls(t) \/ Steps(t)

\* A call that has begun goes on; nobody is obliged to make one.
Spec == Init /\ [][Next]_vars /\ \A t \in Threads : WF_vars(Steps(t))

---------------------------------------------------------------------------
MCThreads == {app, client1, client2}
MCClients == {client1, client2}
MCEntities == {lamp, heater}
MCInitial ==
  lamp :> [state |-> "off", brightness |-> 0, temperature |-> Absent] @@
  heater :> [state |-> "heat", brightness |-> Absent, temperature |-> 21]

Service(e, s, level, temperature) ==
  [entity |-> e, service |-> s, level |-> level, temperature |-> temperature]
MCServiceCalls ==
  {Service(lamp, "turn_on", Absent, Absent), Service(lamp, "turn_on", 100, Absent),
   Service(lamp, "turn_off", Absent, Absent), Service(lamp, "toggle", Absent, Absent),
   Service(heater, "turn_off", Absent, Absent),
   Service(heater, "set_temperature", Absent, 25),
   Service(Absent, "turn_on", Absent, Absent)}

\* "Tea!" and "tea" are one word, "--" is none.
MCWordOf == [k \in {"Tea!", "tea", "pot", "--"} |->
               CASE k \in {"Tea!", "tea"} -> "tea" [] k = "pot" -> "pot" [] k = "--" -> noWord]
MCTokens == DOMAIN MCWordOf
MCTexts == {{"Tea!", "--"}, {"tea", "pot"}}
MCQueries == {{"tea", "pot"}, {"--"}}

MCLower == [w \in {"Light", "light", "lights", "timer"} |-> IF w = "Light" THEN "light" ELSE w]
MCWithin == {<<"light", "light">>, <<"light", "lights">>, <<"timer", "timer">>,
             <<"lights", "lights">>}
MCRules == {[keyword |-> "Light", response |-> <<"It", "is", "on">>],
            [keyword |-> "lights", response |-> <<"Off">>]}
MCToolRules == {[keyword |-> "timer", tool |-> "set_timer"],
                [keyword |-> "light", tool |-> "switch"]}
Text(words) == [type |-> "text", words |-> words]
User(parts) == [role |-> "user", content |-> parts]
MCConversations ==
  {<<User(<<Text(<<"timer">>)>>), [role |-> "assistant", content |-> <<Text(<<"timer">>)>>],
     User(<<Text(<<"Light">>), [type |-> "image_url", words |-> << >>], Text(<<"timer">>)>>)>>,
   <<User(<<Text(<<"lights">>)>>)>>,
   << >>}
MCPrompts == {<<"lights">>}
MCDefault == <<"Not", "sure">>
=============================================================================
