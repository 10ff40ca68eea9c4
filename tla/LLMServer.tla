----------------------------- MODULE LLMServer -----------------------------
(***************************************************************************)
(* simulation/layer2/llm_mock.py and llm_http_server.py: rules that map a    *)
(* keyword in a prompt to an answer or a tool call, asked over HTTP or        *)
(* directly, while the application goes on adding rules.                     *)
(* A prompt is a sequence of words; a keyword is looked for in each of them.  *)
(***************************************************************************)
EXTENDS MockServer, SequencesExt

CONSTANTS
  Lower,         \* each word in lower case
  Within,        \* pairs of a keyword and a word that has it as a substring
  Rules,         \* the rules that may be added: keyword and response
  ToolRules,     \* keyword and tool
  Conversations, \* the messages arrays that are sent
  Prompts,       \* what direct callers ask
  default_response,
  NoTool

\* A response is the sequence of words that split(" ") makes of it, of which
\* there is always one at least; joined again, Space stands between them.
Space == " "

ASSUME LLMConstants ==
  /\ \A r \in Rules : DOMAIN r = {"keyword", "response"} /\ Len(r.response) \in Nat \ {0}
  /\ \A r \in ToolRules : DOMAIN r = {"keyword", "tool"} /\ r.tool # NoTool
  /\ Len(default_response) \in Nat \ {0}

VARIABLES
  response_rules, tool_rules,
  sent            \* the deltas each caller has received of its stream

ruleVars == <<response_rules, tool_rules>>
llmVars == <<callerVars, serverVars, ruleVars, sent>>

---------------------------------------------------------------------------
\* keyword.lower() is kept; the prompt is lowered when it is asked.
Occurs(keyword, prompt) == \E i \in DOMAIN prompt : <<keyword, Lower[prompt[i]]>> \in Within

\* The last message of the user; of a list of parts, the texts one after another.
Prompt(messages) ==
  LET users == {i \in DOMAIN messages : messages[i].role = "user"}
      last == CHOOSE i \in users : \A j \in users : j <= i
      texts == SelectSeq(messages[last].content, LAMBDA part : part.type = "text")
  IN  IF users = {} THEN << >>
      ELSE FlattenSeq([k \in DOMAIN texts |-> texts[k].words])

\* Variant with a bug: the space goes before the word, also before the first.
DeltaSpaceFirst(words, i) == <<Space, words[i]>>

Delta(words, i) == IF i < Len(words) THEN <<words[i], Space>> ELSE <<words[i]>>

---------------------------------------------------------------------------
\* Variant with a bug: a new rule goes before the others.
add_rule_first(r) ==
  response_rules' = <<[r EXCEPT !.keyword = Lower[@]]>> \o response_rules

add_rule(r) == response_rules' = Append(response_rules, [r EXCEPT !.keyword = Lower[@]])

add_tool_rule(r) == tool_rules' = Append(tool_rules, [r EXCEPT !.keyword = Lower[@]])

AddRule(t) ==
  /\ t \in Direct /\ call[t] = Idle /\ calls < MaxCalls /\ calls' = calls + 1
  /\ \/ \E r \in Rules : add_rule(r) /\ UNCHANGED tool_rules
     \/ \E r \in ToolRules : add_tool_rule(r) /\ UNCHANGED response_rules
  /\ UNCHANGED <<call, serverVars, sent>>

\* A scan begins at the first rule; texts and tools are history, the rules there
\* were when the call began its work.
Asking(op, prompt, step) ==
  [op |-> op, prompt |-> prompt, step |-> step, next |-> 1,
   texts |-> Len(response_rules), tools |-> Len(tool_rules)]

\* POST /v1/chat/completions.
RequestChat(t, messages, stream) ==
  /\ t \in Clients
  /\ Begin(t, Asking(IF stream THEN "chat_stream" ELSE "chat", Prompt(messages), "sent"))
  /\ sent' = [sent EXCEPT ![t] = << >>]
  /\ UNCHANGED <<serverVars, ruleVars>>

HandleChat(t) ==
  /\ Accept(t)
  /\ Continue(t, Asking(call[t].op, call[t].prompt, "tools"))
  /\ UNCHANGED <<ruleVars, sent>>

\* complete(prompt), tool_call(prompt); stream(prompt) is a generator, which
\* does nothing before it is asked for its first delta.
Ask(t, op, prompt) ==
  /\ t \in Direct
  /\ Begin(t, Asking(op, prompt, CASE op = "complete" -> "texts"
                                   [] op = "tool_call" -> "tools"
                                   [] op = "stream" -> "created"))
  /\ sent' = [sent EXCEPT ![t] = << >>]
  /\ UNCHANGED <<serverVars, ruleVars>>

FirstDelta(t) ==
  /\ At(t, "created")
  /\ Continue(t, Asking("stream", call[t].prompt, "texts"))
  /\ UNCHANGED <<serverVars, ruleVars, sent>>

---------------------------------------------------------------------------
Answered(c, step, answer) ==
  [op |-> c.op, prompt |-> c.prompt, step |-> step, next |-> c.next,
   texts |-> c.texts, tools |-> c.tools, answer |-> answer]

\* tool_call: one turn of the loop.  Without a match, chat goes on to complete.
\* A tool call is answered whole, also to a request that asked for a stream.
ScanToolRules(t) ==
  LET c == call[t] IN
  /\ At(t, "tools")
  /\ IF c.next > Len(tool_rules)
     THEN Continue(t, IF c.op = "tool_call" THEN Answered(c, "reply", NoTool)
                      ELSE [c EXCEPT !.step = "texts", !.next = 1])
     ELSE IF Occurs(tool_rules[c.next].keyword, c.prompt)
     THEN Continue(t, Answered(c, "reply", tool_rules[c.next].tool))
     ELSE Continue(t, [c EXCEPT !.next = @ + 1])
  /\ UNCHANGED <<serverVars, ruleVars, sent>>

\* complete: one turn of the loop.
ScanResponseRules(t) ==
  LET c == call[t]
      reply == IF c.op \in {"stream", "chat_stream"} THEN "stream" ELSE "reply"
  IN
  /\ At(t, "texts")
  /\ IF c.next > Len(response_rules)
     THEN Continue(t, [Answered(c, reply, default_response) EXCEPT !.next = 1])
     ELSE IF Occurs(response_rules[c.next].keyword, c.prompt)
     THEN Continue(t, [Answered(c, reply, response_rules[c.next].response) EXCEPT !.next = 1])
     ELSE Continue(t, [c EXCEPT !.next = @ + 1])
  /\ UNCHANGED <<serverVars, ruleVars, sent>>

\* generate: one delta.  The server thread is with the stream until its end.
SendDelta(t) ==
  LET c == call[t] IN
  /\ At(t, "stream")
  /\ sent' = [sent EXCEPT ![t] = @ \o Delta(c.answer, c.next)]
  /\ Continue(t, [c EXCEPT !.next = @ + 1,
                           !.step = IF c.next = Len(c.answer) THEN "reply" ELSE "stream"])
  /\ UNCHANGED <<serverVars, ruleVars>>

---------------------------------------------------------------------------
LLMInit ==
  /\ response_rules = << >> /\ tool_rules = << >>
  /\ sent = [t \in Threads |-> << >>]

LLMCall(t) ==
  \/ AddRule(t)
  \/ \E messages \in Conversations, stream \in BOOLEAN : RequestChat(t, messages, stream)
  \/ \E op \in {"complete", "tool_call", "stream"}, prompt \in Prompts : Ask(t, op, prompt)
  \/ StartServer(t) /\ UNCHANGED <<ruleVars, sent>>
  \/ StopServer(t) /\ UNCHANGED <<ruleVars, sent>>

LLMStep(t) ==
  \/ HandleChat(t) \/ FirstDelta(t) \/ ScanToolRules(t) \/ ScanResponseRules(t)
  \/ SendDelta(t)
  \/ Answer(t) /\ UNCHANGED <<ruleVars, sent>>
  \/ Refuse(t) /\ UNCHANGED <<ruleVars, sent>>
  \/ Shutdown(t) /\ UNCHANGED <<ruleVars, sent>>

LLMSpec ==
  /\ CallersInit /\ ServerInit /\ LLMInit
  /\ [][\E t \in Threads : LLMCall(t) \/ LLMStep(t)]_llmVars

---------------------------------------------------------------------------
\* The reference: the first rule, of those in places 1..n, whose keyword occurs.
Matching(rules, n, prompt) == {i \in 1..n : Occurs(rules[i].keyword, prompt)}
FirstOf(places) == CHOOSE i \in places : \A j \in places : i <= j

AskedForTool(c) == c.op \in {"tool_call", "chat", "chat_stream"}

\* "Rules are evaluated in insertion order; the first match wins", "Tool rules
\* are checked before response rules": a rule that was there when the call began
\* its work counts, and wins over every later one, however many are added while
\* the two scans run; and the default is given only if no rule matched then.
FirstMatchAnswers ==
  \A t \in Threads :
    call[t] # Idle /\ "answer" \in DOMAIN call[t] =>
      LET c == call[t]
          tools == Matching(tool_rules, c.tools, c.prompt)
          texts == Matching(response_rules, c.texts, c.prompt)
          toolsNow == Matching(tool_rules, Len(tool_rules), c.prompt)
          textsNow == Matching(response_rules, Len(response_rules), c.prompt)
      IN  IF AskedForTool(c) /\ tools # {}
          THEN c.answer = tool_rules[FirstOf(tools)].tool
          ELSE \/ /\ AskedForTool(c) /\ toolsNow # {}
                  /\ c.answer = tool_rules[FirstOf(toolsNow)].tool
               \/ IF c.op = "tool_call" THEN c.answer = NoTool
                  ELSE IF texts # {}
                  THEN c.answer = response_rules[FirstOf(texts)].response
                  ELSE \/ c.answer = default_response
                       \/ /\ textsNow # {}
                          /\ c.answer = response_rules[FirstOf(textsNow)].response

\* LLMInterface.stream: "concatenating all deltas produces the full response",
\* and what has come so far is always a beginning of it.
Joined(words) ==
  [k \in 1..(2 * Len(words) - 1) |-> IF k % 2 = 1 THEN words[(k + 1) \div 2] ELSE Space]

StreamsJoin ==
  \A t \in Threads :
    sent[t] # << >> /\ call[t] # Idle /\ call[t].step \in {"stream", "reply"} =>
      /\ IsPrefix(sent[t], Joined(call[t].answer))
      /\ call[t].step = "reply" => sent[t] = Joined(call[t].answer)
=============================================================================
