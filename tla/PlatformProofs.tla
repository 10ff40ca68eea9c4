--------------------------- MODULE PlatformProofs ---------------------------
(***************************************************************************)
(* Proofs about the services of layer2 for any number of threads and calls:   *)
(* MemoryStore, whatever crashes, closes and failures come between,           *)
(* LLMServer, whatever rules are added while an answer is being streamed, and *)
(* HomeAssistant, whatever calls overlap.                                     *)
(***************************************************************************)
EXTENDS MemoryStore, LLMServer, HomeAssistant, BasicLemmas

---------------------------------------------------------------------------
(* MemoryStore: what is in the file, and what was told to the callers.       *)

\* A call that writes: of store, and of delete before and after its statement.
Storing(c) == c \in [step : {"insert", "commit"}, op : {"store"}, id : 1..calls, text : Texts]
ToDelete(c) == c \in [step : {"delete"}, op : {"delete"}, id : stored]
Deleting(c) == c \in [step : {"commit"}, op : {"delete"}, id : stored, found : BOOLEAN]

Retrieving(c) ==
  /\ c.step \in {"select", "scan", "found"} /\ c.op = "retrieve"
  /\ DOMAIN c = {"step", "op", "query", "top_k", "cursor", "scored", "present"}

MemoryCallsOK ==
  /\ calls \in Nat
  /\ call = [t \in Threads |-> call[t]]
  /\ \A t \in Threads : call[t] # Idle =>
       \/ Storing(call[t]) \/ ToDelete(call[t]) \/ Deleting(call[t]) \/ Retrieving(call[t])

\* Ids are given in the order of the calls; only what was stored is deleted.
IdsOK ==
  /\ Ids(facts) \subseteq 1..calls /\ Ids(committed) \subseteq 1..calls
  /\ stored \subseteq 1..calls /\ struck \subseteq stored
  /\ deleted \in Seq(struck)

\* Thread t is in a store call, and a delete that has found its fact.
Stores(t) == call[t] # Idle /\ Storing(call[t])
Found(t) == call[t] # Idle /\ Deleting(call[t]) /\ call[t].found

\* The id of a store in flight is nobody else's; its row is written once, and is
\* in the table until the call returns, unless the connection was closed.
StoresInv ==
  \A t \in Threads : Stores(t) =>
    /\ call[t].id \notin stored
    /\ call[t].step = "insert" => call[t].id \notin Ids(facts) \cup Ids(committed)
    /\ call[t].step = "commit" /\ opened => call[t].id \in Ids(facts)
    /\ \A u \in Threads : Stores(u) /\ call[u].id = call[t].id => u = t

\* The table has what the file must keep, and not what was deleted: a rollback
\* or the commit of another call does no harm.
TableInv ==
  /\ stored \ struck \subseteq Ids(facts) \cap Ids(committed)
  /\ \A k \in 1..Len(deleted) : deleted[k] \notin Ids(facts) \cup Ids(committed)
  /\ \A j, k \in 1..Len(deleted) : deleted[j] = deleted[k] => j = k

\* One delete at most has found a fact, and it is not in the table any more.
FoundInv ==
  opened => \A t \in Threads : Found(t) =>
    /\ call[t].id \in struck \ Ids(facts)
    /\ \A k \in 1..Len(deleted) : deleted[k] # call[t].id
    /\ \A u \in Threads : Found(u) /\ call[u].id = call[t].id => u = t

MemoryInv == MemoryCallsOK /\ IdsOK /\ StoresInv /\ TableInv /\ FoundInv

\* What a statement does to the ids of the table.
LEMMA IdsInsert ==
  ASSUME NEW table, NEW n, NEW id, NEW text
  PROVE  Ids(table \cup {Row(n, id, text)}) = Ids(table) \cup {id}
  <1>1. Row(n, id, text).id = id
    BY DEF Row
  <1> QED
    BY <1>1 DEF Ids

LEMMA IdsDelete ==
  ASSUME NEW table, NEW id
  PROVE  Ids({row \in table : row.id # id}) = Ids(table) \ {id}
  BY DEF Ids

\* A thread that goes on or returns: its call, and those of the others.
LEMMA MemoryMoved ==
  ASSUME call = [t \in Threads |-> call[t]], NEW t \in Threads, NEW c,
         call' = [call EXCEPT ![t] = c]
  PROVE  /\ call' = [u \in Threads |-> call'[u]]
         /\ call'[t] = c
         /\ \A u \in Threads : u # t => call'[u] = call[u]
  OBVIOUS

\* The kinds of calls are told apart by their op and step.
LEMMA CallKinds ==
  ASSUME MemoryCallsOK, NEW t \in Threads, call[t] # Idle
  PROVE  /\ call[t].op = "store" <=> Storing(call[t])
         /\ call[t].op = "delete" <=> ToDelete(call[t]) \/ Deleting(call[t])
         /\ call[t].step = "delete" <=> ToDelete(call[t])
         /\ call[t].step = "insert" => Storing(call[t])
         /\ call[t].step = "commit" => Storing(call[t]) \/ Deleting(call[t])
         /\ call[t].step \in {"select", "scan", "found"} => Retrieving(call[t])
         /\ Retrieving(call[t]) => ~ Storing(call[t]) /\ ~ ToDelete(call[t]) /\ ~ Deleting(call[t])
  BY DEF MemoryCallsOK, Storing, ToDelete, Deleting, Retrieving

\* A retrieve that goes on is still one.
LEMMA RetrievingOn ==
  ASSUME NEW c, Retrieving(c), NEW step \in {"scan", "found"}, NEW x, NEW y
  PROVE  /\ Retrieving([c EXCEPT !.step = step, !.present = x])
         /\ Retrieving([c EXCEPT !.step = step, !.scored = y])
         /\ Retrieving([c EXCEPT !.cursor = x, !.scored = y])
  BY DEF Retrieving

LEMMA MemoryInitInv == CallersInit /\ MemoryInit => MemoryInv
  BY DEF CallersInit, MemoryInit, MemoryInv, MemoryCallsOK, IdsOK, StoresInv, TableInv,
         FoundInv, Stores, Found, Ids

\* A call begins, with a new number, or a call of the reader goes on or returns:
\* no table and no history changes.
LEMMA MemoryQuiet ==
  ASSUME MemoryInv, NEW t \in Threads, NEW c,
         call' = [call EXCEPT ![t] = c],
         calls' \in Nat, calls' >= calls,
         UNCHANGED <<tableVars, opened, historyVars>>,
         \/ c = Idle
         \/ Retrieving(c)
         \/ ToDelete(c)
         \/ /\ c \in [step : {"insert"}, op : {"store"}, id : {calls + 1}, text : Texts]
            /\ calls' = calls + 1
  PROVE  MemoryInv'
  <1> USE DEF MemoryInv
  <1>1. /\ call' = [u \in Threads |-> call'[u]]
        /\ call'[t] = c
        /\ \A u \in Threads : u # t => call'[u] = call[u]
    BY MemoryMoved DEF MemoryCallsOK
  <1>u. /\ facts' = facts /\ committed' = committed /\ opened' = opened
        /\ stored' = stored /\ deleted' = deleted /\ struck' = struck
    BY DEF tableVars, historyVars
  <1>2. calls \in Nat /\ 1..calls \subseteq 1..calls'
    BY DEF MemoryCallsOK
  <1>3. \A u \in Threads : u # t =>
          /\ Storing(call[u]) => Storing(call[u])'
          /\ ToDelete(call[u]) => ToDelete(call[u])'
          /\ Deleting(call[u]) <=> Deleting(call[u])'
          /\ Retrieving(call[u]) <=> Retrieving(call[u])'
    BY <1>1, <1>2, <1>u DEF Storing, ToDelete, Deleting, Retrieving
  <1>4. c # Idle => Storing(call[t])' \/ ToDelete(call[t])' \/ Retrieving(call[t])'
    BY <1>1, <1>2, <1>u DEF Storing, ToDelete, Retrieving
  <1>5. MemoryCallsOK'
    BY <1>1, <1>3, <1>4 DEF MemoryCallsOK
  <1>6. IdsOK'
    BY <1>2, <1>u DEF IdsOK, Ids
  <1>7. TableInv'
    BY <1>u DEF TableInv, Ids
  <1>8. \A u \in Threads : Found(u)' => u # t /\ Found(u) /\ call'[u] = call[u]
    <2>1. ~ Found(t)'
      BY <1>1 DEF Found, Deleting, ToDelete, Retrieving
    <2> QED
      BY <2>1, <1>1, <1>3 DEF Found
  <1>9. FoundInv'
    BY <1>8, <1>u DEF FoundInv, Ids
  <1>10. \A u \in Threads : Stores(u)' =>
           \/ u # t /\ Stores(u) /\ call'[u] = call[u]
           \/ u = t /\ call'[u].id = calls + 1 /\ call'[u].step = "insert"
    <2>1. \A u \in Threads : u # t /\ Stores(u)' => Stores(u)
      BY <1>1, CallKinds DEF Stores, Storing
    <2>2. Stores(t)' => call'[t].id = calls + 1 /\ call'[t].step = "insert"
      BY <1>1 DEF Stores, Storing, ToDelete, Retrieving
    <2> QED
      BY <2>1, <2>2, <1>1
  <1>11. \A u \in Threads : Stores(u) => call[u].id \in 1..calls
    BY DEF Stores, Storing
  <1>12. calls + 1 \notin stored \cup Ids(facts) \cup Ids(committed) /\ calls + 1 \notin 1..calls
    BY <1>2 DEF IdsOK
  <1>13. StoresInv'
    BY <1>10, <1>11, <1>12, <1>u DEF StoresInv, Ids
  <1> QED
    BY <1>5, <1>6, <1>7, <1>9, <1>13

LEMMA MemoryInsert ==
  ASSUME MemoryInv, NEW t \in Threads, Insert(t)
  PROVE  MemoryInv'
  <1> USE DEF MemoryInv
  <1> DEFINE c == [call[t] EXCEPT !.step = "commit"]
  <1>0. call[t] # Idle /\ call[t].step = "insert" /\ Storing(call[t]) /\ opened
    BY CallKinds DEF Insert, At
  <1>1. call' = [call EXCEPT ![t] = c] /\ calls' = calls
    BY DEF Insert, Goto
  <1>2. c \in [step : {"commit"}, op : {"store"}, id : 1..calls, text : Texts] /\ c.id = call[t].id
    BY <1>0 DEF Storing
  <1> HIDE DEF c
  <1>3. /\ call' = [u \in Threads |-> call'[u]]
        /\ call'[t] = c
        /\ \A u \in Threads : u # t => call'[u] = call[u]
    BY <1>1, MemoryMoved DEF MemoryCallsOK
  <1>u. /\ committed' = committed /\ opened' = opened
        /\ stored' = stored /\ deleted' = deleted /\ struck' = struck
        /\ Ids(facts)' = Ids(facts) \cup {call[t].id}
        /\ Ids(committed)' = Ids(committed)
    <2>1. /\ facts' = facts \cup {Row(LastRowid(facts) + 1, call[t].id, call[t].text)}
          /\ committed' = committed /\ opened' = opened /\ UNCHANGED historyVars
      BY DEF Insert
    <2>2. Ids(facts)' = Ids(facts')
      BY DEF Ids
    <2>3. Ids(facts)' = Ids(facts) \cup {call[t].id}
      BY <2>1, <2>2, IdsInsert
    <2> QED
      BY <2>1, <2>3 DEF historyVars, Ids
  <1>4. \A u \in Threads : u # t =>
          /\ Storing(call[u])' <=> Storing(call[u])
          /\ ToDelete(call[u])' <=> ToDelete(call[u])
          /\ Deleting(call[u])' <=> Deleting(call[u])
          /\ Retrieving(call[u])' <=> Retrieving(call[u])
    BY <1>1, <1>3, <1>u DEF Storing, ToDelete, Deleting, Retrieving
  <1>5. Storing(call[t])' /\ ~ Deleting(call[t])'
    BY <1>1, <1>2, <1>3 DEF Storing, Deleting
  <1>6. MemoryCallsOK'
    BY <1>1, <1>3, <1>4, <1>5 DEF MemoryCallsOK
  <1>7. call[t].id \in 1..calls
    BY <1>0 DEF Storing
  <1>8. IdsOK'
    BY <1>1, <1>7, <1>u DEF IdsOK
  <1>9. Stores(t)
    BY <1>0 DEF Stores
  <1>10. call[t].id \notin stored /\ \A u \in Threads : Stores(u) /\ call[u].id = call[t].id => u = t
    BY <1>9 DEF StoresInv
  <1>11. \A u \in Threads : u # t => (Stores(u)' <=> Stores(u)) /\ (Found(u)' <=> Found(u))
    BY <1>3, <1>4 DEF Stores, Found
  <1>12. ~ Found(t)' /\ call'[t].step = "commit" /\ call'[t].id = call[t].id
    BY <1>2, <1>3, <1>5 DEF Found
  <1>13. TableInv'
    <2>1. \A k \in 1..Len(deleted) : deleted[k] \in stored
      <3>1. deleted \in Seq(struck) /\ struck \subseteq stored
        BY DEF IdsOK
      <3> QED
        BY <3>1
    <2> QED
      BY <2>1, <1>10, <1>u DEF TableInv
  <1>14. \A u \in Threads : Found(u) => call[u].id \in stored
    BY DEF Found, Deleting
  <1>15. FoundInv'
    BY <1>3, <1>u, <1>10, <1>11, <1>12, <1>14 DEF FoundInv
  <1>16. StoresInv'
    BY <1>3, <1>u, <1>9, <1>10, <1>11, <1>12 DEF StoresInv
  <1> QED
    BY <1>6, <1>8, <1>13, <1>15, <1>16

LEMMA MemoryDeletes ==
  ASSUME MemoryInv, NEW t \in Threads, DeleteRows(t)
  PROVE  MemoryInv'
  <1> USE DEF MemoryInv
  <1> DEFINE c == [step |-> "commit", op |-> "delete", id |-> call[t].id,
                   found |-> call[t].id \in Ids(facts)]
  <1>0. call[t] # Idle /\ call[t].step = "delete" /\ ToDelete(call[t]) /\ opened
    BY CallKinds DEF DeleteRows, At
  <1>1. call' = [call EXCEPT ![t] = c] /\ calls' = calls
    BY DEF DeleteRows, Continue
  <1>7. call[t].id \in stored
    BY <1>0 DEF ToDelete
  <1>2. /\ c \in [step : {"commit"}, op : {"delete"}, id : stored, found : BOOLEAN]
        /\ c.id = call[t].id
        /\ c.found <=> call[t].id \in Ids(facts)
    <2>1. (call[t].id \in Ids(facts)) \in BOOLEAN
      OBVIOUS
    <2> QED
      BY <1>7, <2>1
  <1> HIDE DEF c
  <1>3. /\ call' = [u \in Threads |-> call'[u]]
        /\ call'[t] = c
        /\ \A u \in Threads : u # t => call'[u] = call[u]
    BY <1>1, MemoryMoved DEF MemoryCallsOK
  <1>u. /\ committed' = committed /\ opened' = opened
        /\ stored' = stored /\ deleted' = deleted /\ struck' = struck \cup {call[t].id}
        /\ Ids(facts)' = Ids(facts) \ {call[t].id}
        /\ Ids(committed)' = Ids(committed)
    BY IdsDelete DEF DeleteRows, Ids
  <1>4. \A u \in Threads : u # t =>
          /\ Storing(call[u])' <=> Storing(call[u])
          /\ ToDelete(call[u])' <=> ToDelete(call[u])
          /\ Deleting(call[u])' <=> Deleting(call[u])
          /\ Retrieving(call[u])' <=> Retrieving(call[u])
    BY <1>1, <1>3, <1>u DEF Storing, ToDelete, Deleting, Retrieving
  <1>5. Deleting(call[t])' /\ ~ Storing(call[t])'
    BY <1>2, <1>3, <1>u DEF Storing, Deleting
  <1>6. MemoryCallsOK'
    BY <1>1, <1>3, <1>4, <1>5 DEF MemoryCallsOK
  <1>8. IdsOK'
    <2>1. deleted' \in Seq(struck')
      <3>1. deleted \in Seq(struck) /\ struck \subseteq struck'
        BY <1>u DEF IdsOK
      <3>2. deleted \in Seq(struck')
        BY <3>1
      <3> QED
        BY <3>2, <1>u
    <2> QED
      BY <1>1, <1>7, <1>u, <2>1 DEF IdsOK
  <1>11. \A u \in Threads : u # t => (Stores(u)' <=> Stores(u)) /\ (Found(u)' <=> Found(u))
    BY <1>3, <1>4 DEF Stores, Found
  <1>12. ~ Stores(t)' /\ (Found(t)' => call[t].id \in Ids(facts)) /\ call'[t].id = call[t].id
    BY <1>2, <1>3, <1>5 DEF Found, Stores
  <1>13. TableInv'
    BY <1>u DEF TableInv
  <1>14. \A u \in Threads : Stores(u) => call[u].id # call[t].id
    BY <1>7 DEF StoresInv
  <1>15. FoundInv'
    <2>1. call[t].id \in Ids(facts) => \A k \in 1..Len(deleted) : deleted[k] # call[t].id
      BY DEF TableInv
    <2>2. call[t].id \in Ids(facts) => \A u \in Threads : Found(u) => call[u].id # call[t].id
      BY <1>0 DEF FoundInv
    <2>3. \A u \in Threads : u # t /\ Found(u) => call[u].id \in struck' \ Ids(facts)'
      BY <1>0, <1>u DEF FoundInv
    <2>4. \A u, v \in Threads : u # t /\ v # t /\ Found(u)' /\ Found(v)' /\ call'[u].id = call'[v].id => u = v
      BY <1>0, <1>3, <1>11 DEF FoundInv
    <2>5. \A u \in Threads : u # t /\ Found(u) => \A k \in 1..Len(deleted) : deleted[k] # call[u].id
      BY <1>0 DEF FoundInv
    <2>6. \A u \in Threads : Found(u)' =>
            /\ call'[u].id \in struck' \ Ids(facts)'
            /\ \A k \in 1..Len(deleted) : deleted[k] # call'[u].id
      BY <1>3, <1>11, <1>12, <1>u, <2>1, <2>3, <2>5
    <2>7. \A u, v \in Threads : Found(u)' /\ Found(v)' /\ call'[u].id = call'[v].id => u = v
      BY <1>3, <1>11, <1>12, <2>2, <2>4
    <2> QED
      BY <2>6, <2>7, <1>u DEF FoundInv
  <1>16. StoresInv'
    BY <1>3, <1>u, <1>11, <1>12, <1>14 DEF StoresInv
  <1> QED
    BY <1>6, <1>8, <1>13, <1>15, <1>16

LEMMA MemoryCommit ==
  ASSUME MemoryInv, NEW t \in Threads, Commit(t)
  PROVE  MemoryInv'
  <1> USE DEF MemoryInv
  <1>0. /\ call[t] # Idle /\ call[t].step = "commit" /\ opened
        /\ Storing(call[t]) \/ Deleting(call[t])
    BY CallKinds DEF Commit, At
  <1>1. call' = [call EXCEPT ![t] = Idle] /\ calls' = calls
    BY DEF Commit, Return
  <1>3. /\ call' = [u \in Threads |-> call'[u]]
        /\ call'[t] = Idle
        /\ \A u \in Threads : u # t => call'[u] = call[u]
    BY <1>1, MemoryMoved DEF MemoryCallsOK
  <1>u. /\ opened' = opened /\ struck' = struck
        /\ Ids(facts)' = Ids(facts) /\ Ids(committed)' = Ids(facts)
    BY DEF Commit, Ids
  <1>s. stored \subseteq stored'
    BY DEF Commit, Told
  <1>4. \A u \in Threads : u # t =>
          /\ Storing(call[u])' <=> Storing(call[u])
          /\ ToDelete(call[u]) => ToDelete(call[u])'
          /\ Deleting(call[u]) => Deleting(call[u])'
          /\ Retrieving(call[u])' <=> Retrieving(call[u])
    BY <1>1, <1>3, <1>s DEF Storing, ToDelete, Deleting, Retrieving
  <1>6. MemoryCallsOK'
    BY <1>1, <1>3, <1>4 DEF MemoryCallsOK
  <1>5. \A u \in Threads : u # t /\ call[u] # Idle => (Deleting(call[u])' => Deleting(call[u]))
    BY <1>3, CallKinds DEF Deleting, MemoryCallsOK, Storing, ToDelete, Retrieving
  <1>11. \A u \in Threads :
           /\ Stores(u)' => u # t /\ Stores(u) /\ call'[u] = call[u]
           /\ Found(u)' => u # t /\ Found(u) /\ call'[u] = call[u]
    BY <1>3, <1>4, <1>5 DEF Stores, Found
  <1>7. CASE Storing(call[t])
    <2>1. /\ stored' = stored \cup {call[t].id} /\ deleted' = deleted
          /\ call[t].id \in 1..calls
      BY <1>7 DEF Commit, Told, Storing
    <2>2. Stores(t) /\ call[t].id \in Ids(facts)
      BY <1>0, <1>7 DEF Stores, StoresInv
    <2>3. IdsOK'
      BY <1>1, <1>u, <2>1 DEF IdsOK
    <2>4. TableInv'
      BY <1>u, <2>1, <2>2 DEF TableInv
    <2>5. FoundInv'
      BY <1>11, <1>u, <2>1 DEF FoundInv
    <2>6. StoresInv'
      BY <1>11, <1>u, <2>1, <2>2 DEF StoresInv
    <2> QED
      BY <1>6, <2>3, <2>4, <2>5, <2>6
  <1>8. CASE Deleting(call[t])
    <2>1. /\ stored' = stored
          /\ deleted' = IF call[t].found THEN Append(deleted, call[t].id) ELSE deleted
      BY <1>8 DEF Commit, Told, Deleting
    <2>2. CASE ~ call[t].found
      <3>1. IdsOK' /\ TableInv' /\ FoundInv' /\ StoresInv'
        BY <1>1, <1>11, <1>u, <2>1, <2>2 DEF IdsOK, TableInv, FoundInv, StoresInv
      <3> QED
        BY <1>6, <3>1
    <2>3. CASE call[t].found
      <3>1. Found(t)
        BY <1>0, <1>8, <2>3 DEF Found
      <3>2. /\ call[t].id \in struck \ Ids(facts)
            /\ \A k \in 1..Len(deleted) : deleted[k] # call[t].id
            /\ \A u \in Threads : Found(u) /\ call[u].id = call[t].id => u = t
        BY <1>0, <3>1 DEF FoundInv
      <3>3. /\ deleted' \in Seq(struck) /\ Len(deleted') = Len(deleted) + 1
            /\ \A k \in 1..Len(deleted) : deleted'[k] = deleted[k]
            /\ deleted'[Len(deleted) + 1] = call[t].id
            /\ Len(deleted) \in Nat
        BY <2>1, <2>3, <3>2 DEF IdsOK
      <3>4. IdsOK'
        BY <1>1, <1>u, <2>1, <3>3 DEF IdsOK
      <3>5. TableInv'
        <4>1. \A k \in 1..Len(deleted') : k \in 1..Len(deleted) \/ k = Len(deleted) + 1
          BY <3>3
        <4>2. \A k \in 1..Len(deleted') : deleted'[k] \notin Ids(facts)
          BY <4>1, <3>2, <3>3 DEF TableInv
        <4>3. \A j, k \in 1..Len(deleted') : deleted'[j] = deleted'[k] => j = k
          BY <4>1, <3>2, <3>3 DEF TableInv
        <4> QED
          BY <4>2, <4>3, <1>u, <2>1 DEF TableInv
      <3>6. FoundInv'
        <4>1. \A u \in Threads : Found(u)' => call[u].id # call[t].id
          BY <1>11, <3>2
        <4>2. \A k \in 1..Len(deleted') : k \in 1..Len(deleted) \/ k = Len(deleted) + 1
          BY <3>3
        <4>3. \A u \in Threads : Found(u)' => \A k \in 1..Len(deleted') : deleted'[k] # call'[u].id
          BY <1>0, <1>11, <3>3, <4>1, <4>2 DEF FoundInv
        <4>4. \A u \in Threads : Found(u)' =>
                /\ call'[u].id \in struck' \ Ids(facts)'
                /\ \A v \in Threads : Found(v)' /\ call'[v].id = call'[u].id => v = u
          BY <1>0, <1>11, <1>u DEF FoundInv
        <4> QED
          BY <4>3, <4>4 DEF FoundInv
      <3>7. StoresInv'
        BY <1>11, <1>u, <2>1 DEF StoresInv
      <3> QED
        BY <1>6, <3>4, <3>5, <3>6, <3>7
    <2> QED
      BY <2>2, <2>3
  <1> QED
    BY <1>0, <1>7, <1>8

\* The connection is closed, or the process dies: what was not committed is gone.
LEMMA MemoryRollback ==
  ASSUME MemoryInv,
         facts' = committed, UNCHANGED <<committed, historyVars>>,
         \/ /\ UNCHANGED call /\ calls' \in {calls, calls + 1} /\ opened' = FALSE
         \/ call' = [t \in Threads |-> Idle] /\ UNCHANGED calls
  PROVE  MemoryInv'
  <1> USE DEF MemoryInv
  <1>u. /\ Ids(facts)' = Ids(committed) /\ Ids(committed)' = Ids(committed)
        /\ stored' = stored /\ struck' = struck /\ deleted' = deleted
    BY DEF historyVars, Ids
  <1>1. calls \in Nat /\ calls' \in Nat /\ 1..calls \subseteq 1..calls'
    BY DEF MemoryCallsOK
  <1>2. IdsOK'
    BY <1>1, <1>u DEF IdsOK
  <1>3. TableInv'
    BY <1>u DEF TableInv
  <1>4. CASE call' = [t \in Threads |-> Idle]
    <2>1. \A t \in Threads : call'[t] = Idle
      BY <1>4
    <2> QED
      BY <1>1, <1>2, <1>3, <1>4, <2>1 DEF MemoryCallsOK, StoresInv, FoundInv, Stores, Found
  <1>5. CASE UNCHANGED call /\ opened' = FALSE
    <2>1. \A t \in Threads :
            /\ Storing(call[t]) => Storing(call[t])'
            /\ ToDelete(call[t]) <=> ToDelete(call[t])'
            /\ Deleting(call[t]) <=> Deleting(call[t])'
            /\ Retrieving(call[t]) <=> Retrieving(call[t])'
      BY <1>1, <1>5, <1>u DEF Storing, ToDelete, Deleting, Retrieving
    <2>2. MemoryCallsOK'
      BY <1>1, <1>5, <2>1 DEF MemoryCallsOK
    <2>3. \A t \in Threads : Stores(t)' => Stores(t)
      BY <1>5, CallKinds DEF Stores, Storing
    <2>4. StoresInv' /\ FoundInv'
      BY <2>3, <1>5, <1>u DEF StoresInv, FoundInv
    <2> QED
      BY <2>2, <2>4, <1>2, <1>3
  <1> QED
    BY <1>4, <1>5

LEMMA MemoryOpen ==
  ASSUME MemoryInv, Open
  PROVE  MemoryInv'
  BY DEF MemoryInv, Open, callerVars, tableVars, historyVars, MemoryCallsOK, IdsOK, StoresInv,
         TableInv, FoundInv, Stores, Found, Storing, ToDelete, Deleting, Retrieving, Ids

LEMMA MemoryStepInv ==
  ASSUME MemoryInv,
         [Crash \/ Open \/ \E t \in Threads : MemoryCall(t) \/ MemoryStep(t)]_memoryVars
  PROVE  MemoryInv'
  <1>1. CASE Crash
    BY <1>1, MemoryRollback DEF Crash, historyVars
  <1>2. CASE Open
    BY <1>2, MemoryOpen
  <1>3. ASSUME NEW t \in Threads, MemoryCall(t)
        PROVE  MemoryInv'
    <2>0. calls \in Nat
      BY DEF MemoryInv, MemoryCallsOK
    <2>1. ASSUME NEW text \in Texts, Store(t, text)
          PROVE  MemoryInv'
      <3> DEFINE c == [step |-> "insert", op |-> "store", id |-> calls + 1, text |-> text]
      <3>1. c \in [step : {"insert"}, op : {"store"}, id : {calls + 1}, text : Texts]
        OBVIOUS
      <3>2. /\ call' = [call EXCEPT ![t] = c] /\ calls' = calls + 1 /\ calls' >= calls /\ calls' \in Nat
            /\ UNCHANGED <<tableVars, opened, historyVars>>
        BY <2>0, <2>1 DEF Store, Begin
      <3> HIDE DEF c
      <3> QED
        BY <2>0, <3>1, <3>2, MemoryQuiet
    <2>2. ASSUME NEW id \in stored, Delete(t, id)
          PROVE  MemoryInv'
      <3> DEFINE c == [step |-> "delete", op |-> "delete", id |-> id]
      <3>1. ToDelete(c)
        BY DEF ToDelete
      <3>2. /\ call' = [call EXCEPT ![t] = c] /\ calls' = calls + 1 /\ calls' >= calls /\ calls' \in Nat
            /\ UNCHANGED <<tableVars, opened, historyVars>>
        BY <2>0, <2>2 DEF Delete, Begin
      <3> HIDE DEF c
      <3> QED
        BY <2>0, <3>1, <3>2, MemoryQuiet
    <2>3. ASSUME NEW query \in Queries, NEW k \in TopKs, Retrieve(t, query, k)
          PROVE  MemoryInv'
      <3> DEFINE c == [step |-> IF Words(query) = {} THEN "found" ELSE "select",
                       op |-> "retrieve", query |-> query, top_k |-> k,
                       cursor |-> 0, scored |-> << >>, present |-> {}]
      <3>1. Retrieving(c)
        BY DEF Retrieving
      <3>2. /\ call' = [call EXCEPT ![t] = c] /\ calls' = calls + 1 /\ calls' >= calls /\ calls' \in Nat
            /\ UNCHANGED <<tableVars, opened, historyVars>>
        BY <2>0, <2>3 DEF Retrieve, Begin
      <3> HIDE DEF c
      <3> QED
        BY <2>0, <3>1, <3>2, MemoryQuiet
    <2>4. CASE Close(t)
      BY <2>4, MemoryRollback DEF Close, historyVars
    <2> QED
      BY <1>3, <2>1, <2>2, <2>3, <2>4 DEF MemoryCall
  <1>4. ASSUME NEW t \in Threads, MemoryStep(t)
        PROVE  MemoryInv'
    <2>0. calls \in Nat
      BY DEF MemoryInv, MemoryCallsOK
    <2>k. \A s \in {"select", "scan", "found"} : At(t, s) => Retrieving(call[t])
      BY CallKinds DEF MemoryInv, At
    <2>1. CASE Insert(t)
      BY <2>1, MemoryInsert
    <2>2. CASE DeleteRows(t)
      BY <2>2, MemoryDeletes
    <2>3. CASE Commit(t)
      BY <2>3, MemoryCommit
    <2>4. CASE Fail(t) \/ RetrieveReturns(t)
      BY <2>0, <2>4, MemoryQuiet DEF Fail, RetrieveReturns, Return
    <2>5. CASE Select(t)
      <3> DEFINE c == [call[t] EXCEPT !.step = "scan", !.present = Ids(facts)]
      <3>1. Retrieving(c)
        BY <2>5, <2>k, RetrievingOn DEF Select
      <3>2. /\ call' = [call EXCEPT ![t] = c] /\ calls' >= calls /\ calls' \in Nat
            /\ UNCHANGED <<tableVars, opened, historyVars>>
        BY <2>0, <2>5 DEF Select, Continue
      <3> HIDE DEF c
      <3> QED
        BY <2>0, <3>1, <3>2, MemoryQuiet
    <2>6. CASE Scan(t)
      <3> DEFINE next == CHOOSE row \in Ahead(t) : \A r \in Ahead(t) : row.rowid <= r.rowid
                 overlap == Overlap(call[t].query, next.text)
                 scored == IF overlap = 0 THEN call[t].scored
                           ELSE Append(call[t].scored, [id |-> next.id, overlap |-> overlap])
                 c == [call[t] EXCEPT !.cursor = next.rowid, !.scored = scored]
      <3>1. Retrieving(c)
        <4>1. Retrieving(call[t])
          BY <2>6, <2>k DEF Scan
        <4> HIDE DEF scored, next
        <4> QED
          BY <4>1 DEF Retrieving
      <3>2. /\ call' = [call EXCEPT ![t] = c] /\ calls' >= calls /\ calls' \in Nat
            /\ UNCHANGED <<tableVars, opened, historyVars>>
        BY <2>0, <2>6 DEF Scan, Continue
      <3> HIDE DEF c
      <3> QED
        BY <2>0, <3>1, <3>2, MemoryQuiet
    <2>7. CASE Sort(t)
      <3> DEFINE scored == SubSeq(ByScore(call[t].scored), 1,
                                  Min({Len(call[t].scored), call[t].top_k}))
                 c == [call[t] EXCEPT !.step = "found", !.scored = scored]
      <3>1. Retrieving(c)
        BY <2>7, <2>k, RetrievingOn DEF Sort
      <3>2. /\ call' = [call EXCEPT ![t] = c] /\ calls' >= calls /\ calls' \in Nat
            /\ UNCHANGED <<tableVars, opened, historyVars>>
        BY <2>0, <2>7 DEF Sort, Continue
      <3> HIDE DEF c
      <3> QED
        BY <2>0, <3>1, <3>2, MemoryQuiet
    <2> QED
      BY <1>4, <2>1, <2>2, <2>3, <2>4, <2>5, <2>6, <2>7 DEF MemoryStep
  <1>5. CASE UNCHANGED memoryVars
    BY <1>5 DEF MemoryInv, memoryVars, callerVars, tableVars, historyVars, MemoryCallsOK, IdsOK,
       StoresInv, TableInv, FoundInv, Stores, Found, Storing, ToDelete, Deleting, Retrieving, Ids
  <1> QED
    BY <1>1, <1>2, <1>3, <1>4, <1>5

\* What store has promised is in the file, whatever crashes, closes and failures
\* come between, until a delete of it begins (memory_mock.py, store and delete).
THEOREM StoredFactsSurvive == MemorySpec => []StoredSurvives
  <1>1. MemoryInv => StoredSurvives
    BY DEF MemoryInv, TableInv, StoredSurvives
  <1> QED
    BY <1>1, MemoryInitInv, MemoryStepInv, PTL DEF MemorySpec

\* Of several deletes of one fact at most one returns True, and the fact is gone
\* for good (memory_mock.py, delete), for any number of threads that delete.
THEOREM DeletesOnce == MemorySpec => []DeletedOnce
  <1>1. MemoryInv => DeletedOnce
    <2> SUFFICES ASSUME MemoryInv PROVE DeletedOnce
      OBVIOUS
    <2>1. DOMAIN deleted = 1..Len(deleted)
      BY DEF MemoryInv, IdsOK
    <2> QED
      BY <2>1 DEF MemoryInv, TableInv, DeletedOnce, IsInjective, Range
  <1> QED
    BY <1>1, MemoryInitInv, MemoryStepInv, PTL DEF MemorySpec

---------------------------------------------------------------------------
(* MemoryStore: what retrieve finds.                                         *)

Reads(t) == call[t] # Idle /\ Retrieving(call[t])
Inserts(t) == Stores(t) /\ call[t].step = "insert"

Score(id, overlap) == [id |-> id, overlap |-> overlap]
Scores == [id : Nat, overlap : Nat \ {0}]

\* The rowids tell the rows apart.
RowsOK(table) ==
  /\ IsFiniteSet(table)
  /\ table \subseteq [rowid : Nat \ {0}, id : Nat, text : Texts]
  /\ \A r, s \in table : r.rowid = s.rowid => r = s

RowsInv == RowsOK(facts) /\ RowsOK(committed)

ReaderOK(c) ==
  /\ c.query \in Queries /\ c.top_k \in TopKs /\ c.cursor \in Nat
  /\ c.scored \in Seq(Scores) /\ c.present \subseteq 1..calls

\* What a scan has passed is in its list, if it was there when the scan began: a
\* row that takes the place of a deleted one is of a fact that was not there.
ScanOK(c) ==
  \A row \in facts :
    row.id \in c.present /\ row.rowid <= c.cursor /\ Overlap(c.query, row.text) > 0 =>
      \E k \in 1..Len(c.scored) : c.scored[k] = Score(row.id, Overlap(c.query, row.text))

\* What is in the list of a call that returns, as BestFactsFound says.
BestOK(c) ==
  /\ Len(c.scored) <= c.top_k
  /\ \A j, k \in 1..Len(c.scored) : j < k => c.scored[j].overlap >= c.scored[k].overlap
  /\ \A row \in facts :
       /\ row.id \in c.present
       /\ \A k \in 1..Len(c.scored) : c.scored[k].id # row.id
       /\ Overlap(c.query, row.text) > 0
       => /\ Len(c.scored) = c.top_k
          /\ \A k \in 1..Len(c.scored) : c.scored[k].overlap >= Overlap(c.query, row.text)

ReadOK(t) ==
  Reads(t) =>
    /\ ReaderOK(call[t])
    /\ call[t].step = "select" => call[t].scored = << >> /\ call[t].cursor = 0
    /\ \A u \in Threads : Inserts(u) => call[u].id \notin call[t].present
    /\ opened /\ call[t].step = "scan" => ScanOK(call[t])
    /\ opened /\ call[t].step = "found" => BestOK(call[t])

ReadInv == RowsInv /\ \A t \in Threads : ReadOK(t)

\* The words of a text are finitely many.
LEMMA OverlapNat ==
  ASSUME NEW query \in Queries, NEW text \in Texts
  PROVE  Overlap(query, text) \in Nat
  <1> DEFINE image == {WordOf[k] : k \in text}
             f == [k \in text |-> WordOf[k]]
  <1>1. IsFiniteSet(text)
    BY MemoryConstants
  <1>2. f \in Surjection(text, image)
    BY DEF Surjection
  <1>3. IsFiniteSet(image)
    BY <1>1, <1>2, FS_Surjection
  <1>4. (Words(query) \cap Words(text)) \in SUBSET image
    BY DEF Words
  <1> HIDE DEF image
  <1>5. IsFiniteSet(Words(query) \cap Words(text))
    BY <1>3, <1>4, FS_Subset
  <1> QED
    BY <1>5, FS_CardinalityType DEF Overlap

\* The rowid of a new row is greater than every other.
LEMMA LastRowidLast ==
  ASSUME NEW table, RowsOK(table)
  PROVE  LastRowid(table) \in Nat /\ \A row \in table : row.rowid <= LastRowid(table)
  <1> DEFINE rowids == {row.rowid : row \in table}
             f == [row \in table |-> row.rowid]
  <1>1. f \in Surjection(table, rowids)
    BY DEF Surjection
  <1>2. IsFiniteSet(rowids)
    BY <1>1, FS_Surjection DEF RowsOK
  <1>3. rowids \subseteq Nat /\ \A row \in table : row.rowid \in rowids
    BY DEF RowsOK
  <1> DEFINE all == {0} \cup rowids
  <1>6. LastRowid(table) = Max(all)
    BY DEF LastRowid
  <1> HIDE DEF rowids
  <1>4. IsFiniteSet(all)
    <2>1. all = rowids \cup {0}
      OBVIOUS
    <2> QED
      BY <1>2, <2>1, FS_AddElement
  <1>7. all \in SUBSET Nat /\ all # {} /\ \A row \in table : row.rowid \in all
    BY <1>3
  <1> HIDE DEF all
  <1>8. \E x \in all : \A y \in all : x >= y
    <2>1. PICK x \in all : \A y \in all : y <= x
      BY <1>4, <1>7, FiniteHasMax
    <2> QED
      BY <1>7, <2>1
  <1>9. Max(all) \in all /\ \A y \in all : Max(all) >= y
    BY <1>8 DEF Max
  <1> QED
    BY <1>6, <1>7, <1>9

\* The list in the order of the scores: nothing is lost, and the best is first.
LEMMA ByScoreSorts ==
  ASSUME NEW scored \in Seq(Scores)
  PROVE  /\ ByScore(scored) \in Seq(Scores) /\ Len(ByScore(scored)) = Len(scored)
         /\ \A k \in 1..Len(scored) : \E j \in 1..Len(scored) : ByScore(scored)[j] = scored[k]
         /\ \A j, k \in 1..Len(scored) : j < k =>
              ByScore(scored)[j].overlap >= ByScore(scored)[k].overlap
  <1> DEFINE before(a, b) == \/ scored[a].overlap > scored[b].overlap
                             \/ scored[a].overlap = scored[b].overlap /\ a < b
             n == Len(scored)
             B == {p \in (1..n) \X (1..n) : before(p[1], p[2])}
             orders == {f \in [DOMAIN scored -> DOMAIN scored] : Range(f) = DOMAIN scored}
             order == CHOOSE f \in orders :
                        \A j, k \in DOMAIN scored : j < k => before(f[j], f[k])
  <1>1. /\ n \in Nat /\ DOMAIN scored = 1..n
        /\ \A k \in 1..n : scored[k] \in Scores /\ scored[k].overlap \in Nat
    <2>1. \A k \in 1..n : scored[k] \in Scores
      OBVIOUS
    <2>2. \A x \in Scores : x.overlap \in Nat
      BY DEF Scores
    <2> QED
      BY <2>1, <2>2
  <1>2. \A a, b \in 1..n : <<a, b>> \in B <=> before(a, b)
    OBVIOUS
  <1>3. \A a, b \in 1..n : a # b => <<a, b>> \in B \/ <<b, a>> \in B
    BY <1>1, <1>2
  <1>4. \A a, b, c \in 1..n : <<a, b>> \in B /\ <<b, c>> \in B => <<a, c>> \in B
    BY <1>1, <1>2
  <1>5. PICK f \in [1..n -> 1..n] :
          /\ \A x \in 1..n : \E k \in 1..n : f[k] = x
          /\ \A j, k \in 1..n : j < k => <<f[j], f[k]>> \in B
    <2> HIDE DEF B, n
    <2> QED
      BY <1>1, <1>3, <1>4, SortedOrder
  <1>6. f \in orders /\ \A j, k \in DOMAIN scored : j < k => before(f[j], f[k])
    <2> HIDE DEF B, n
    <2>1. Range(f) = 1..n
      BY <1>5 DEF Range
    <2>2. \A j, k \in 1..n : j < k => before(f[j], f[k])
      <3> HIDE DEF before
      <3>1. \A k \in 1..n : f[k] \in 1..n
        OBVIOUS
      <3> QED
        BY <1>2, <1>5, <3>1
    <2> QED
      BY <1>1, <2>1, <2>2
  <1>7. order \in orders /\ \A j, k \in DOMAIN scored : j < k => before(order[j], order[k])
    <2> HIDE DEF orders, before
    <2> QED
      BY <1>6
  <1>8. ByScore(scored) = [k \in 1..n |-> scored[order[k]]]
    BY <1>1 DEF ByScore
  <1> HIDE DEF order
  <1>9. /\ \A k \in 1..n : order[k] \in 1..n
        /\ \A x \in 1..n : \E k \in 1..n : order[k] = x
    BY <1>1, <1>7 DEF Range
  <1>10. [k \in 1..n |-> scored[order[k]]] \in [1..n -> Scores]
    BY <1>1, <1>9
  <1>11. ByScore(scored) \in Seq(Scores) /\ Len(ByScore(scored)) = n
    <2> HIDE DEF n
    <2> QED
      BY <1>1, <1>8, <1>10, SeqFromFunction
  <1>12. \A j, k \in 1..n : j < k => scored[order[j]].overlap >= scored[order[k]].overlap
    <2> SUFFICES ASSUME NEW j \in 1..n, NEW k \in 1..n, j < k
                 PROVE  scored[order[j]].overlap >= scored[order[k]].overlap
      OBVIOUS
    <2>1. before(order[j], order[k])
      <3> HIDE DEF before, orders, n
      <3> QED
        BY <1>1, <1>7
    <2>2. scored[order[j]].overlap \in Nat /\ scored[order[k]].overlap \in Nat
      <3> HIDE DEF n
      <3> QED
        BY <1>1, <1>9
    <2> QED
      BY <2>1, <2>2
  <1>13. \A j \in 1..n : ByScore(scored)[j] = scored[order[j]]
    BY <1>8
  <1>14. \A k \in 1..n : \E j \in 1..n : ByScore(scored)[j] = scored[k]
    <2> HIDE DEF n
    <2> TAKE k \in 1..n
    <2>1. PICK j \in 1..n : order[j] = k
      BY <1>9
    <2> QED
      BY <1>13, <2>1
  <1> QED
    BY <1>11, <1>12, <1>13, <1>14

LEMMA ReadInitInv == CallersInit /\ MemoryInit => ReadInv
  BY FS_EmptySet DEF CallersInit, MemoryInit, ReadInv, RowsInv, RowsOK, ReadOK, Reads

\* A new row has a rowid of its own.
LEMMA RowsInsert ==
  ASSUME NEW table, RowsOK(table), NEW id \in Nat, NEW text \in Texts
  PROVE  RowsOK(table \cup {Row(LastRowid(table) + 1, id, text)})
  <1> DEFINE n == LastRowid(table)
             row == Row(n + 1, id, text)
  <1>1. n \in Nat /\ \A r \in table : r.rowid <= n /\ r.rowid \in Nat
    BY LastRowidLast DEF RowsOK
  <1> HIDE DEF n
  <1>2. row \in [rowid : Nat \ {0}, id : Nat, text : Texts] /\ row.rowid = n + 1
    BY <1>1 DEF Row
  <1> HIDE DEF row
  <1>3. IsFiniteSet(table \cup {row})
    BY FS_AddElement DEF RowsOK
  <1>4. \A r \in table : r.rowid # row.rowid
    BY <1>1, <1>2
  <1>5. \A r, s \in table \cup {row} : r.rowid = s.rowid => r = s
    BY <1>4 DEF RowsOK
  <1>6. RowsOK(table \cup {row})
    BY <1>2, <1>3, <1>5 DEF RowsOK
  <1> QED
    BY <1>6 DEF row, n

LEMMA RowsDelete ==
  ASSUME NEW table, RowsOK(table), NEW id
  PROVE  RowsOK({row \in table : row.id # id})
  <1> DEFINE rest == {row \in table : row.id # id}
  <1>1. rest \in SUBSET table
    OBVIOUS
  <1> HIDE DEF rest
  <1>2. IsFiniteSet(rest)
    BY <1>1, FS_Subset DEF RowsOK
  <1>3. RowsOK(rest)
    BY <1>1, <1>2 DEF RowsOK
  <1> QED
    BY <1>3 DEF rest

\* A reader whose call does not move: the rows that are new to it are of facts
\* that were not there, and so are those still to be written.
LEMMA ReadStays ==
  ASSUME calls \in Nat, calls' \in Nat, calls' >= calls,
         NEW u \in Threads, ReadOK(u), call'[u] = call[u], opened' => opened,
         Reads(u) => \A row \in facts' : row \in facts \/ row.id \notin call[u].present,
         \A v \in Threads : Inserts(v)' =>
           \/ Inserts(v) /\ call'[v].id = call[v].id
           \/ call'[v].id \notin 1..calls
  PROVE  ReadOK(u)'
  <1> SUFFICES ASSUME Reads(u)' PROVE ReadOK(u)'
    BY DEF ReadOK
  <1>1. Reads(u)
    BY DEF Reads, Retrieving
  <1>2. ReaderOK(call[u])'
    <2>1. 1..calls \subseteq 1..calls'
      OBVIOUS
    <2> QED
      BY <1>1, <2>1 DEF ReadOK, ReaderOK
  <1>3. call'[u].step = "select" => call'[u].scored = << >> /\ call'[u].cursor = 0
    BY <1>1 DEF ReadOK
  <1>4. \A v \in Threads : Inserts(v)' => call'[v].id \notin call'[u].present
    BY <1>1 DEF ReadOK, ReaderOK
  <1>5. opened' /\ call'[u].step = "scan" => ScanOK(call[u])'
    BY <1>1 DEF ReadOK, ScanOK
  <1>6. opened' /\ call'[u].step = "found" => BestOK(call[u])'
    BY <1>1 DEF ReadOK, BestOK
  <1> QED
    BY <1>2, <1>3, <1>4, <1>5, <1>6 DEF ReadOK

\* What a step of thread t has to show: its own call, and the rows it adds.
LEMMA ReadStep ==
  ASSUME MemoryInv, ReadInv, NEW t \in Threads, NEW c,
         call' = [call EXCEPT ![t] = c],
         calls' \in {calls, calls + 1}, opened' = opened,
         \A row \in facts' : row \in facts \/ (Inserts(t) /\ row.id = call[t].id),
         c = Idle \/ ~ Storing(c)' \/ c.step = "commit" \/ c.id = calls + 1,
         Reads(t)' =>
           /\ ReaderOK(c)'
           /\ c.step = "select" => c.scored = << >> /\ c.cursor = 0
           /\ \A u \in Threads : u # t /\ Inserts(u) => call[u].id \notin c.present
           /\ opened /\ c.step = "scan" => ScanOK(c)'
           /\ opened /\ c.step = "found" => BestOK(c)'
  PROVE  \A u \in Threads : ReadOK(u)'
  <1>1. calls \in Nat /\ calls' \in Nat /\ calls' >= calls
    BY DEF MemoryInv, MemoryCallsOK
  <1>2. call'[t] = c /\ \A u \in Threads : u # t => call'[u] = call[u]
    BY MemoryMoved DEF MemoryInv, MemoryCallsOK
  <1>3. \A v \in Threads : v # t /\ Inserts(v)' => Inserts(v) /\ call'[v].id = call[v].id
    BY <1>2, CallKinds DEF MemoryInv, Inserts, Stores, Storing
  <1>4. Inserts(t)' => call'[t].id \notin 1..calls
    BY <1>1, <1>2 DEF Inserts, Stores
  <1>5. ASSUME NEW u \in Threads, u # t
        PROVE  ReadOK(u)'
    <2>1. Reads(u) => \A row \in facts' : row \in facts \/ row.id \notin call[u].present
      BY DEF ReadInv, ReadOK
    <2>2. ReadOK(u)
      BY DEF ReadInv
    <2> QED
      BY <1>1, <1>2, <1>3, <1>4, <1>5, <2>1, <2>2, ReadStays
  <1>6. ReadOK(t)'
    <2> SUFFICES ASSUME Reads(t)' PROVE ReadOK(t)'
      BY DEF ReadOK
    <2>1. ~ Inserts(t)'
      BY DEF Reads, Inserts, Stores, Storing, Retrieving
    <2>2. \A u \in Threads : Inserts(u)' => call'[u].id \notin c.present
      BY <1>3, <2>1
    <2> QED
      BY <1>2, <2>2 DEF ReadOK
  <1> QED
    BY <1>5, <1>6

\* One turn of the scan: the row that the cursor moves to is the only one that
\* was ahead of it and is not any more.
LEMMA ReadScan ==
  ASSUME MemoryInv, ReadInv, NEW t \in Threads, Scan(t)
  PROVE  \A u \in Threads : ReadOK(u)'
  <1> DEFINE next == CHOOSE row \in Ahead(t) : \A r \in Ahead(t) : row.rowid <= r.rowid
             overlap == Overlap(call[t].query, next.text)
             scored == IF overlap = 0 THEN call[t].scored
                       ELSE Append(call[t].scored, [id |-> next.id, overlap |-> overlap])
  <1>c. PICK c : c = [call[t] EXCEPT !.cursor = next.rowid, !.scored = scored]
    OBVIOUS
  <1>1. call[t] # Idle /\ Retrieving(call[t]) /\ call[t].step = "scan" /\ opened
    BY CallKinds DEF Scan, At, MemoryInv
  <1>2. ReaderOK(call[t]) /\ ScanOK(call[t]) /\ ReadOK(t)
    BY <1>1 DEF ReadInv, ReadOK, Reads
  <1>3. \A row \in facts :
          row.rowid \in Nat \ {0} /\ row.id \in Nat /\ row.text \in Texts
    BY DEF ReadInv, RowsInv, RowsOK
  <1>4. next \in Ahead(t) /\ \A r \in Ahead(t) : next.rowid <= r.rowid
    <2> DEFINE rowids == {row.rowid : row \in Ahead(t)}
    <2>1. rowids \in SUBSET Nat /\ rowids # {}
      BY <1>3 DEF Ahead, Scan
    <2>2. PICK n \in rowids : \A m \in rowids : n <= m
      <3> HIDE DEF rowids
      <3> QED
        BY <2>1, LeastNatural
    <2>3. \E row \in Ahead(t) : \A r \in Ahead(t) : row.rowid <= r.rowid
      BY <2>2
    <2> QED
      BY <2>3
  <1> HIDE DEF next
  <1>5. /\ next \in facts /\ next.rowid > call[t].cursor /\ next.rowid \in Nat
        /\ next.text \in Texts /\ next.id \in Nat
        /\ \A r \in facts : r.rowid > call[t].cursor => next.rowid <= r.rowid
    BY <1>3, <1>4 DEF Ahead
  <1>6. overlap \in Nat
    BY <1>2, <1>5, OverlapNat DEF ReaderOK
  <1> HIDE DEF overlap
  <1>7. /\ scored \in Seq(Scores)
        /\ \A k \in 1..Len(call[t].scored) : k \in 1..Len(scored) /\ scored[k] = call[t].scored[k]
        /\ overlap > 0 => Len(scored) \in 1..Len(scored)
                           /\ scored[Len(scored)] = Score(next.id, overlap)
    <2>1. overlap # 0 => [id |-> next.id, overlap |-> overlap] \in Scores
      BY <1>5, <1>6 DEF Scores
    <2>2. call[t].scored \in Seq(Scores)
      BY <1>2 DEF ReaderOK
    <2>3. CASE overlap = 0
      BY <2>2, <2>3, <1>6
    <2>4. CASE overlap # 0
      <3> DEFINE old == call[t].scored
                 x == [id |-> next.id, overlap |-> overlap]
      <3>1. old \in Seq(Scores) /\ x \in Scores /\ scored = Append(old, x) /\ x = Score(next.id, overlap)
        BY <2>1, <2>2, <2>4 DEF Score
      <3> HIDE DEF old, x, scored
      <3>2. /\ scored \in Seq(Scores) /\ Len(scored) = Len(old) + 1 /\ Len(old) \in Nat
            /\ \A k \in 1..Len(old) : scored[k] = old[k]
            /\ scored[Len(old) + 1] = x
        BY <3>1
      <3> QED
        BY <3>1, <3>2 DEF old
    <2> QED
      BY <2>3, <2>4
  <1> HIDE DEF scored
  <1>8. /\ Retrieving(c) /\ c.step = "scan" /\ c.query = call[t].query /\ c.top_k = call[t].top_k
        /\ c.cursor = next.rowid /\ c.scored = scored /\ c.present = call[t].present
    BY <1>c, <1>1 DEF Retrieving
  <1>9. call' = [call EXCEPT ![t] = c]
    BY <1>c DEF Scan, Continue, next, overlap, scored
  <1>10. calls' = calls /\ facts' = facts /\ opened' = opened
    BY DEF Scan, Continue, tableVars
  <1>11. ReaderOK(c)'
    BY <1>2, <1>5, <1>7, <1>8, <1>10 DEF ReaderOK
  <1>12. ScanOK(c)'
    <2> SUFFICES ASSUME NEW row \in facts, row.id \in c.present, row.rowid <= c.cursor,
                        Overlap(c.query, row.text) > 0
                 PROVE  \E k \in 1..Len(c.scored) : c.scored[k] = Score(row.id, Overlap(c.query, row.text))
      BY <1>10 DEF ScanOK
    <2>1. CASE row.rowid <= call[t].cursor
      <3>1. PICK k \in 1..Len(call[t].scored) :
              call[t].scored[k] = Score(row.id, Overlap(c.query, row.text))
        BY <1>2, <1>8, <2>1 DEF ScanOK
      <3> QED
        BY <1>7, <1>8, <3>1
    <2>2. CASE ~ (row.rowid <= call[t].cursor)
      <3>1. row.rowid = next.rowid
        BY <1>2, <1>3, <1>5, <1>8, <2>2 DEF ReaderOK
      <3>2. row = next
        BY <1>5, <3>1 DEF ReadInv, RowsInv, RowsOK
      <3>3. overlap > 0 /\ Overlap(c.query, row.text) = overlap
        BY <1>8, <3>2 DEF overlap
      <3> QED
        BY <1>7, <1>8, <3>2, <3>3
    <2> QED
      BY <2>1, <2>2
  <1>13. \A u \in Threads : u # t /\ Inserts(u) => call[u].id \notin c.present
    BY <1>1, <1>2, <1>8 DEF ReadOK, Reads
  <1>14. ~ Storing(c)'
    BY <1>8 DEF Retrieving, Storing
  <1> QED
    BY <1>8, <1>9, <1>10, <1>11, <1>12, <1>13, <1>14, ReadStep

\* The scan is over: what is cut off is no better than what is returned.
LEMMA ReadSort ==
  ASSUME MemoryInv, ReadInv, NEW t \in Threads, Sort(t)
  PROVE  \A u \in Threads : ReadOK(u)'
  <1> DEFINE old == call[t].scored
             sorted == ByScore(old)
             m == Min({Len(old), call[t].top_k})
             scored == SubSeq(sorted, 1, m)
  <1>c. PICK c : c = [call[t] EXCEPT !.step = "found", !.scored = scored]
    OBVIOUS
  <1>1. call[t] # Idle /\ Retrieving(call[t]) /\ call[t].step = "scan" /\ opened
    BY CallKinds DEF Sort, At, MemoryInv
  <1>2. ReaderOK(call[t]) /\ ScanOK(call[t]) /\ ReadOK(t)
    BY <1>1 DEF ReadInv, ReadOK, Reads
  <1>3. /\ old \in Seq(Scores) /\ Len(old) \in Nat
        /\ call[t].top_k \in Nat
    <2>1. old \in Seq(Scores) /\ call[t].top_k \in TopKs
      BY <1>2 DEF ReaderOK
    <2> HIDE DEF old
    <2>2. call[t].top_k \in Nat
      BY <2>1, MemoryConstants
    <2>3. Len(old) \in Nat
      BY <2>1
    <2> QED
      BY <2>1, <2>2, <2>3
  <1>4. /\ sorted \in Seq(Scores) /\ Len(sorted) = Len(old)
        /\ \A k \in 1..Len(old) : \E j \in 1..Len(old) : sorted[j] = old[k]
        /\ \A j, k \in 1..Len(old) : j < k => sorted[j].overlap >= sorted[k].overlap
    BY <1>3, ByScoreSorts
  <1>5. /\ m \in 0..Len(old) /\ m <= call[t].top_k
        /\ m < Len(old) => m = call[t].top_k
    <2> DEFINE two == {Len(old), call[t].top_k}
    <2>1. \E x \in two : \A y \in two : x <= y
      BY <1>3
    <2>2. m \in two /\ \A y \in two : m <= y
      BY <2>1 DEF Min
    <2> QED
      BY <1>3, <2>2
  <1> HIDE DEF m, sorted
  <1>6. /\ scored \in Seq(Scores) /\ Len(scored) = m
        /\ \A k \in 1..m : scored[k] = sorted[k]
    <2>1. m \in Nat /\ m <= Len(sorted)
      BY <1>3, <1>4, <1>5
    <2>2. \A k \in 1..m : sorted[k] \in Scores
      BY <1>4, <2>1
    <2>3. SubSeq(sorted, 1, m) = [k \in 1..m |-> sorted[k]]
      BY <1>4, <2>1
    <2>4. [k \in 1..m |-> sorted[k]] \in [1..m -> Scores]
      BY <2>2
    <2> QED
      BY <2>1, <2>3, <2>4, SeqFromFunction
  <1> HIDE DEF scored
  <1>8. /\ Retrieving(c) /\ c.step = "found" /\ c.query = call[t].query /\ c.top_k = call[t].top_k
        /\ c.cursor = call[t].cursor /\ c.scored = scored /\ c.present = call[t].present
    BY <1>c, <1>1 DEF Retrieving
  <1>9. call' = [call EXCEPT ![t] = c]
    BY <1>c DEF Sort, Continue, m, scored, sorted
  <1>10. calls' = calls /\ facts' = facts /\ opened' = opened
    BY DEF Sort, Continue, tableVars
  <1>11. ReaderOK(c)'
    BY <1>2, <1>6, <1>8, <1>10 DEF ReaderOK
  <1>12. BestOK(c)'
    <2>1. \A k \in 1..m : k \in 1..Len(old)
      BY <1>3, <1>5
    <2>2. \A j, k \in 1..Len(c.scored) : j < k => c.scored[j].overlap >= c.scored[k].overlap
      BY <1>4, <1>6, <1>8, <2>1
    <2>3. ASSUME NEW row \in facts, row.id \in c.present,
                 \A k \in 1..Len(c.scored) : c.scored[k].id # row.id,
                 Overlap(c.query, row.text) > 0
          PROVE  /\ Len(c.scored) = c.top_k
                 /\ \A k \in 1..Len(c.scored) : c.scored[k].overlap >= Overlap(c.query, row.text)
      <3>1. row.rowid <= call[t].cursor
        <4>1. row.rowid \in Nat
          BY DEF ReadInv, RowsInv, RowsOK
        <4>2. ~ (row.rowid > call[t].cursor)
          BY DEF Sort, Ahead
        <4> QED
          BY <1>2, <4>1, <4>2 DEF ReaderOK
      <3>2. PICK k \in 1..Len(old) : old[k] = Score(row.id, Overlap(c.query, row.text))
        BY <1>2, <1>8, <2>3, <3>1 DEF ScanOK
      <3>3. PICK j \in 1..Len(old) : sorted[j] = Score(row.id, Overlap(c.query, row.text))
        BY <1>4, <3>2
      <3>4. ~ (j \in 1..m)
        BY <1>6, <1>8, <2>3, <3>3 DEF Score
      <3>5. j > m
        BY <1>3, <1>5, <3>4
      <3>6. m = call[t].top_k
        BY <1>3, <1>5, <3>5
      <3>7. \A l \in 1..m : sorted[l].overlap >= sorted[j].overlap
        BY <1>3, <1>4, <1>5, <2>1, <3>5
      <3>8. sorted[j].overlap = Overlap(c.query, row.text)
        BY <3>3 DEF Score
      <3> QED
        BY <1>6, <1>8, <3>6, <3>7, <3>8
    <2> QED
      BY <1>5, <1>6, <1>8, <1>10, <2>2, <2>3 DEF BestOK
  <1>13. \A u \in Threads : u # t /\ Inserts(u) => call[u].id \notin c.present
    BY <1>1, <1>2, <1>8 DEF ReadOK, Reads
  <1>14. ~ Storing(c)'
    BY <1>8 DEF Retrieving, Storing
  <1> QED
    BY <1>8, <1>9, <1>10, <1>11, <1>12, <1>13, <1>14, ReadStep

LEMMA ReadSelect ==
  ASSUME MemoryInv, ReadInv, NEW t \in Threads, Select(t)
  PROVE  \A u \in Threads : ReadOK(u)'
  <1>c. PICK c : c = [call[t] EXCEPT !.step = "scan", !.present = Ids(facts)]
    OBVIOUS
  <1>1. call[t] # Idle /\ Retrieving(call[t]) /\ call[t].step = "select" /\ opened
    BY CallKinds DEF Select, At, MemoryInv
  <1>2. ReaderOK(call[t]) /\ call[t].cursor = 0
    BY <1>1 DEF ReadInv, ReadOK, Reads
  <1>8. /\ Retrieving(c) /\ c.step = "scan" /\ c.query = call[t].query /\ c.top_k = call[t].top_k
        /\ c.cursor = call[t].cursor /\ c.scored = call[t].scored /\ c.present = Ids(facts)
    BY <1>c, <1>1 DEF Retrieving
  <1>9. call' = [call EXCEPT ![t] = c]
    BY <1>c DEF Select, Continue
  <1>10. calls' = calls /\ facts' = facts /\ opened' = opened
    BY DEF Select, Continue, tableVars
  <1>11. ReaderOK(c)'
    BY <1>2, <1>8, <1>10 DEF ReaderOK, MemoryInv, IdsOK
  <1>12. ScanOK(c)'
    <2>1. \A row \in facts : row.rowid \in Nat /\ row.rowid # 0
      BY DEF ReadInv, RowsInv, RowsOK
    <2>2. \A row \in facts : ~ (row.rowid <= c.cursor)
      BY <1>2, <1>8, <2>1
    <2> QED
      BY <2>2, <1>10 DEF ScanOK
  <1>13. \A u \in Threads : u # t /\ Inserts(u) => call[u].id \notin c.present
    BY <1>8 DEF MemoryInv, StoresInv, Inserts
  <1>14. ~ Storing(c)'
    BY <1>8 DEF Retrieving, Storing
  <1> QED
    BY <1>8, <1>9, <1>10, <1>11, <1>12, <1>13, <1>14, ReadStep

\* A thread that is not a reader: it begins, writes or returns.
LEMMA ReadWriter ==
  ASSUME MemoryInv, ReadInv, NEW t \in Threads, NEW c,
         call' = [call EXCEPT ![t] = c],
         calls' \in {calls, calls + 1}, opened' = opened,
         \A row \in facts' : row \in facts \/ (Inserts(t) /\ row.id = call[t].id),
         \/ c = Idle
         \/ c.op # "retrieve" /\ (c.step \in {"delete", "commit"} \/ c.id = calls + 1)
  PROVE  \A u \in Threads : ReadOK(u)'
  <1>1. call'[t] = c
    BY MemoryMoved DEF MemoryInv, MemoryCallsOK
  <1>2. ~ Reads(t)'
    BY <1>1 DEF Reads, Retrieving
  <1>3. c = Idle \/ ~ Storing(c)' \/ c.step = "commit" \/ c.id = calls + 1
    BY DEF Storing
  <1> QED
    BY <1>2, <1>3, ReadStep

LEMMA ReadCall ==
  ASSUME MemoryInv, ReadInv, NEW t \in Threads, MemoryCall(t)
  PROVE  ReadInv'
  <1>1. ASSUME NEW text \in Texts, Store(t, text)
        PROVE  ReadInv'
    <2>c. PICK c : c = [step |-> "insert", op |-> "store", id |-> calls + 1, text |-> text]
      OBVIOUS
    <2>1. /\ call' = [call EXCEPT ![t] = c] /\ calls' = calls + 1 /\ opened' = opened
          /\ facts' = facts /\ committed' = committed
      BY <2>c, <1>1 DEF Store, Begin, tableVars
    <2>2. c.op # "retrieve" /\ c.id = calls + 1
      BY <2>c
    <2> QED
      BY <2>1, <2>2, ReadWriter DEF ReadInv, RowsInv, RowsOK
  <1>2. ASSUME NEW id \in stored, Delete(t, id)
        PROVE  ReadInv'
    <2>c. PICK c : c = [step |-> "delete", op |-> "delete", id |-> id]
      OBVIOUS
    <2>1. /\ call' = [call EXCEPT ![t] = c] /\ calls' = calls + 1 /\ opened' = opened
          /\ facts' = facts /\ committed' = committed
      BY <2>c, <1>2 DEF Delete, Begin, tableVars
    <2>2. c.op # "retrieve" /\ c.step = "delete"
      BY <2>c
    <2> QED
      BY <2>1, <2>2, ReadWriter DEF ReadInv, RowsInv, RowsOK
  <1>3. ASSUME NEW query \in Queries, NEW k \in TopKs, Retrieve(t, query, k)
        PROVE  ReadInv'
    <2>c. PICK c : c = [step |-> IF Words(query) = {} THEN "found" ELSE "select", op |-> "retrieve", query |-> query, top_k |-> k, cursor |-> 0, scored |-> << >>, present |-> {}]
      OBVIOUS
    <2>1. /\ call' = [call EXCEPT ![t] = c] /\ calls' = calls + 1 /\ opened' = opened
          /\ facts' = facts /\ committed' = committed
      BY <2>c, <1>3 DEF Retrieve, Begin, tableVars
    <2>2. /\ c.step \in {"found", "select"} /\ c.op = "retrieve" /\ c.query = query /\ c.top_k = k
          /\ c.cursor = 0 /\ c.scored = << >> /\ c.present = {}
      BY <2>c
    <2>3. ReaderOK(c)'
      BY <2>2 DEF ReaderOK
    <2>4. BestOK(c)'
      BY <2>2, MemoryConstants DEF BestOK
    <2>5. ~ Storing(c)'
      BY <2>2 DEF Storing
    <2>6. \A u \in Threads : ReadOK(u)'
      BY <2>1, <2>2, <2>3, <2>4, <2>5, ReadStep
    <2> QED
      BY <2>1, <2>6 DEF ReadInv, RowsInv, RowsOK
  <1>4. CASE Close(t)
    <2>1. /\ calls' = calls + 1 /\ call' = call /\ opened' = FALSE
          /\ facts' = committed /\ committed' = committed
      BY <1>4 DEF Close
    <2>2. RowsInv'
      BY <2>1 DEF ReadInv, RowsInv, RowsOK
    <2>3. calls \in Nat
      BY DEF MemoryInv, MemoryCallsOK
    <2>4. \A v \in Threads : Inserts(v)' => Inserts(v)
      BY <2>1, CallKinds DEF MemoryInv, Inserts, Stores, Storing
    <2>5. ASSUME NEW u \in Threads, Reads(u)'
          PROVE  ReadOK(u)'
      <3>1. Reads(u) /\ ReaderOK(call[u]) /\ 1..calls \subseteq 1..calls' /\ ReadOK(u)
        BY <2>1, <2>3, <2>5 DEF Reads, Retrieving, ReadInv, ReadOK
      <3>2. ReaderOK(call[u])'
        BY <2>1, <3>1 DEF ReaderOK
      <3> QED
        BY <2>1, <2>4, <3>1, <3>2 DEF ReadOK
    <2>6. \A u \in Threads : ReadOK(u)'
      BY <2>5 DEF ReadOK
    <2> QED
      BY <2>2, <2>6 DEF ReadInv
  <1> QED
    BY <1>1, <1>2, <1>3, <1>4 DEF MemoryCall

LEMMA ReadStepInv ==
  ASSUME MemoryInv, ReadInv,
         [Crash \/ Open \/ \E t \in Threads : MemoryCall(t) \/ MemoryStep(t)]_memoryVars
  PROVE  ReadInv'
  <1> DEFINE Same == facts' = facts /\ committed' = committed
  <1>0. Same => RowsInv'
    BY DEF ReadInv, RowsInv, RowsOK
  <1>1. CASE Crash
    <2>1. RowsInv'
      BY <1>1 DEF Crash, ReadInv, RowsInv, RowsOK
    <2>2. \A u \in Threads : ~ Reads(u)'
      BY <1>1 DEF Crash, Reads
    <2> QED
      BY <2>1, <2>2 DEF ReadInv, ReadOK
  <1>2. CASE Open
    <2>1. \A u \in Threads : ~ Reads(u)'
      BY <1>2 DEF Open, Reads, callerVars
    <2>2. Same
      BY <1>2 DEF Open, tableVars
    <2> QED
      BY <1>0, <2>1, <2>2 DEF ReadInv, ReadOK
  <1>3. ASSUME NEW t \in Threads, MemoryStep(t)
        PROVE  ReadInv'
    <2>1. CASE Insert(t)
      <3> DEFINE row == Row(LastRowid(facts) + 1, call[t].id, call[t].text)
      <3>c. PICK c : c = [call[t] EXCEPT !.step = "commit"]
        OBVIOUS
      <3>1. call[t] # Idle /\ Storing(call[t]) /\ call[t].step = "insert"
        BY <2>1, CallKinds DEF Insert, At, MemoryInv
      <3>2. /\ facts' = facts \cup {row} /\ committed' = committed /\ opened' = opened
            /\ call' = [call EXCEPT ![t] = c] /\ calls' = calls
        BY <3>c, <2>1 DEF Insert, Goto
      <3>3. call[t].id \in Nat /\ call[t].text \in Texts
        BY <3>1 DEF Storing
      <3>4. RowsOK(facts \cup {row})
        BY <3>3, RowsInsert DEF ReadInv, RowsInv
      <3>5. row.id = call[t].id
        BY DEF Row
      <3>6. c.op # "retrieve" /\ c.step = "commit"
        BY <3>c, <3>1 DEF Storing
      <3>7. Inserts(t)
        BY <3>1 DEF Inserts, Stores
      <3> HIDE DEF row
      <3>8. RowsInv'
        BY <3>2, <3>4 DEF ReadInv, RowsInv, RowsOK
      <3>9. \A r \in facts' : r \in facts \/ (Inserts(t) /\ r.id = call[t].id)
        BY <3>2, <3>5, <3>7
      <3> QED
        BY <3>2, <3>6, <3>8, <3>9, ReadWriter DEF ReadInv
    <2>2. CASE DeleteRows(t)
      <3> DEFINE rest == {row \in facts : row.id # call[t].id}
      <3>c. PICK c : c = [step |-> "commit", op |-> "delete", id |-> call[t].id, found |-> call[t].id \in Ids(facts)]
        OBVIOUS
      <3>1. /\ facts' = rest /\ committed' = committed /\ opened' = opened
            /\ call' = [call EXCEPT ![t] = c] /\ calls' = calls
        BY <3>c, <2>2 DEF DeleteRows, Continue
      <3>2. RowsOK(rest)
        BY RowsDelete DEF ReadInv, RowsInv
      <3>3. rest \subseteq facts
        OBVIOUS
      <3>4. c.op # "retrieve" /\ c.step = "commit"
        BY <3>c
      <3> HIDE DEF rest
      <3>5. RowsInv'
        BY <3>1, <3>2 DEF ReadInv, RowsInv, RowsOK
      <3> QED
        BY <3>1, <3>3, <3>4, <3>5, ReadWriter DEF ReadInv
    <2>3. CASE Commit(t)
      <3>1. /\ facts' = facts /\ committed' = facts /\ opened' = opened
            /\ call' = [call EXCEPT ![t] = Idle] /\ calls' = calls
        BY <2>3 DEF Commit, Return
      <3>2. RowsInv'
        BY <3>1 DEF ReadInv, RowsInv, RowsOK
      <3> QED
        BY <3>1, <3>2, ReadWriter DEF ReadInv
    <2>4. CASE Fail(t) \/ RetrieveReturns(t)
      <3>1. /\ facts' = facts /\ committed' = committed /\ opened' = opened
            /\ call' = [call EXCEPT ![t] = Idle] /\ calls' = calls
        BY <2>4 DEF Fail, RetrieveReturns, Return, tableVars
      <3> QED
        BY <3>1, <1>0, ReadWriter DEF ReadInv
    <2>5. CASE Select(t)
      BY <2>5, <1>0, ReadSelect DEF Select, tableVars, ReadInv
    <2>6. CASE Scan(t)
      BY <2>6, <1>0, ReadScan DEF Scan, tableVars, ReadInv
    <2>7. CASE Sort(t)
      BY <2>7, <1>0, ReadSort DEF Sort, tableVars, ReadInv
    <2> QED
      BY <1>3, <2>1, <2>2, <2>3, <2>4, <2>5, <2>6, <2>7 DEF MemoryStep
  <1>4. CASE UNCHANGED memoryVars
    BY <1>4 DEF memoryVars, callerVars, tableVars, ReadInv, RowsInv, RowsOK, ReadOK, Reads,
       Inserts, Stores, Storing, Retrieving, ReaderOK, ScanOK, BestOK
  <1> QED
    BY <1>1, <1>2, <1>3, <1>4, ReadCall

\* retrieve finds the best of what was there all the time, however other threads
\* store and delete while it scans (memory_mock.py, retrieve), for any number of
\* threads, facts and words.
THEOREM RetrieveFindsTheBest == MemorySpec => []BestFactsFound
  <1>1. MemoryInv /\ ReadInv => BestFactsFound
    <2> SUFFICES ASSUME MemoryInv, ReadInv, NEW t \in Threads, opened, At(t, "found")
                 PROVE  LET c == call[t]
                            returned == {c.scored[k].id : k \in DOMAIN c.scored}
                        IN  /\ Len(c.scored) <= c.top_k
                            /\ \A j, k \in DOMAIN c.scored :
                                 j < k => c.scored[j].overlap >= c.scored[k].overlap
                            /\ \A k \in DOMAIN c.scored : c.scored[k].overlap > 0
                            /\ \A row \in facts :
                                 row.id \in c.present \ returned /\ Overlap(c.query, row.text) > 0 =>
                                   /\ Len(c.scored) = c.top_k
                                   /\ \A k \in DOMAIN c.scored :
                                        c.scored[k].overlap >= Overlap(c.query, row.text)
      BY DEF BestFactsFound
    <2> DEFINE c == call[t]
    <2>1. Reads(t) /\ c.step = "found"
      BY CallKinds DEF At, MemoryInv, Reads
    <2>2. ReaderOK(c) /\ BestOK(c)
      BY <2>1 DEF ReadInv, ReadOK
    <2>3. c.scored \in Seq(Scores)
      BY <2>2 DEF ReaderOK
    <2> HIDE DEF c
    <2>4. DOMAIN c.scored = 1..Len(c.scored) /\ \A k \in 1..Len(c.scored) : c.scored[k] \in Scores
      BY <2>3
    <2>5. \A k \in 1..Len(c.scored) : c.scored[k].overlap > 0
      BY <2>4 DEF Scores
    <2> QED
      BY <2>2, <2>4, <2>5 DEF BestOK, c
  <1> QED
    BY <1>1, MemoryInitInv, ReadInitInv, MemoryStepInv, ReadStepInv, PTL DEF MemorySpec

---------------------------------------------------------------------------
(* LLMServer: rules, which are only ever added at the end.                   *)

\* The rules as they are kept.
Kept(rules) == {[r EXCEPT !.keyword = Lower[r.keyword]] : r \in rules}

\* No rule in places 1..n matches; rule i is the first that does.
None(rules, n, prompt) == \A j \in 1..n : ~ Occurs(rules[j].keyword, prompt)
IsFirst(rules, i, prompt) ==
  /\ i \in 1..Len(rules)
  /\ Occurs(rules[i].keyword, prompt)
  /\ None(rules, i - 1, prompt)

\* What the answer of a call says of the rules.
AnswerOK(c) ==
  \/ /\ AskedForTool(c)
     /\ \E i \in 1..Len(tool_rules) :
          IsFirst(tool_rules, i, c.prompt) /\ c.answer = tool_rules[i].tool
  \/ /\ AskedForTool(c) => None(tool_rules, c.tools, c.prompt)
     /\ \/ c.op = "tool_call" /\ c.answer = NoTool
        \/ /\ c.op # "tool_call"
           /\ \/ None(response_rules, c.texts, c.prompt) /\ c.answer = default_response
              \/ \E i \in 1..Len(response_rules) :
                   /\ IsFirst(response_rules, i, c.prompt)
                   /\ c.answer = response_rules[i].response

AskFields == {"op", "prompt", "step", "next", "texts", "tools"}

\* A scan has found nothing before the place where it is; only the scan of the
\* tool rules to their end leads to the other rules.
AskOK(c) ==
  /\ c.step \in {"sent", "created", "tools", "texts", "stream", "reply"}
  /\ DOMAIN c = IF c.step \in {"stream", "reply"} THEN AskFields \cup {"answer"} ELSE AskFields
  /\ c.tools \in 0..Len(tool_rules) /\ c.texts \in 0..Len(response_rules)
  /\ c.step = "sent" => AskedForTool(c)
  /\ c.step = "tools" =>
       /\ AskedForTool(c)
       /\ c.next \in 1..(Len(tool_rules) + 1)
       /\ None(tool_rules, c.next - 1, c.prompt)
  /\ c.step = "texts" =>
       /\ c.op # "tool_call"
       /\ AskedForTool(c) => None(tool_rules, c.tools, c.prompt)
       /\ c.next \in 1..(Len(response_rules) + 1)
       /\ None(response_rules, c.next - 1, c.prompt)
  /\ c.step \in {"stream", "reply"} => AnswerOK(c)

Asks(t) == call[t] # Idle /\ call[t].step # "shutdown"

LLMTypes ==
  /\ call = [t \in Threads |-> call[t]]
  /\ response_rules \in Seq(Kept(Rules)) /\ tool_rules \in Seq(Kept(ToolRules))

LLMInv ==
  /\ LLMTypes
  /\ \A t \in Threads :
       call[t] # Idle => IF Asks(t) THEN AskOK(call[t]) ELSE DOMAIN call[t] = {"step"}

\* A rule that is added leaves the places of the others.
LEMMA RulesGrow ==
  ASSUME NEW S, NEW old \in Seq(S), NEW new \in Seq(S),
         new = old \/ (\E x \in S : new = Append(old, x)), NEW prompt
  PROVE  /\ Len(old) \in Nat /\ Len(new) \in Nat /\ Len(new) >= Len(old)
         /\ \A i \in 1..Len(old) : new[i] = old[i]
         /\ \A n \in 0..Len(old) : None(old, n, prompt) => None(new, n, prompt)
         /\ \A i \in 1..Len(old) : IsFirst(old, i, prompt) => IsFirst(new, i, prompt)
  <1>1. /\ Len(old) \in Nat /\ Len(new) \in Nat /\ Len(new) >= Len(old)
        /\ \A i \in 1..Len(old) : new[i] = old[i]
    OBVIOUS
  <1>2. \A n \in 0..Len(old) : None(old, n, prompt) => None(new, n, prompt)
    BY <1>1 DEF None
  <1> QED
    BY <1>1, <1>2 DEF IsFirst

\* So a call that was right stays right when rules are added.
LEMMA AskStays ==
  ASSUME LLMTypes, LLMTypes', NEW c, AskOK(c),
         tool_rules' = tool_rules \/ (\E x \in Kept(ToolRules) : tool_rules' = Append(tool_rules, x)),
         \/ response_rules' = response_rules
         \/ \E x \in Kept(Rules) : response_rules' = Append(response_rules, x)
  PROVE  AskOK(c)'
  <1>1. /\ Len(tool_rules) \in Nat /\ Len(tool_rules') \in Nat /\ Len(tool_rules') >= Len(tool_rules)
        /\ \A i \in 1..Len(tool_rules) : tool_rules'[i] = tool_rules[i]
        /\ \A n \in 0..Len(tool_rules) :
             None(tool_rules, n, c.prompt) => None(tool_rules', n, c.prompt)
        /\ \A i \in 1..Len(tool_rules) :
             IsFirst(tool_rules, i, c.prompt) => IsFirst(tool_rules', i, c.prompt)
    BY RulesGrow DEF LLMTypes
  <1>2. /\ Len(response_rules) \in Nat /\ Len(response_rules') \in Nat
        /\ Len(response_rules') >= Len(response_rules)
        /\ \A i \in 1..Len(response_rules) : response_rules'[i] = response_rules[i]
        /\ \A n \in 0..Len(response_rules) :
             None(response_rules, n, c.prompt) => None(response_rules', n, c.prompt)
        /\ \A i \in 1..Len(response_rules) :
             IsFirst(response_rules, i, c.prompt) => IsFirst(response_rules', i, c.prompt)
    <2>1. response_rules' = response_rules
          \/ (\E x \in Kept(Rules) : response_rules' = Append(response_rules, x))
      OBVIOUS
    <2>2. response_rules \in Seq(Kept(Rules)) /\ response_rules' \in Seq(Kept(Rules))
      BY DEF LLMTypes
    <2> QED
      BY <2>1, <2>2, RulesGrow
  <1>3. /\ c.tools \in 0..Len(tool_rules) /\ c.texts \in 0..Len(response_rules)
        /\ c.tools \in 0..Len(tool_rules') /\ c.texts \in 0..Len(response_rules')
    BY <1>1, <1>2 DEF AskOK
  <1>4. c.step = "tools" =>
          /\ AskedForTool(c)
          /\ c.next \in 1..(Len(tool_rules') + 1)
          /\ None(tool_rules', c.next - 1, c.prompt)
    BY <1>1 DEF AskOK
  <1>5. c.step = "texts" =>
          /\ c.op # "tool_call"
          /\ AskedForTool(c) => None(tool_rules', c.tools, c.prompt)
          /\ c.next \in 1..(Len(response_rules') + 1)
          /\ None(response_rules', c.next - 1, c.prompt)
    BY <1>1, <1>2, <1>3 DEF AskOK
  <1>6. AnswerOK(c) => AnswerOK(c)'
    <2>1. \A i \in 1..Len(tool_rules) : i \in 1..Len(tool_rules')
      BY <1>1
    <2>2. \A i \in 1..Len(response_rules) : i \in 1..Len(response_rules')
      BY <1>2
    <2> QED
      BY <1>1, <1>2, <1>3, <2>1, <2>2 DEF AnswerOK
  <1> QED
    BY <1>3, <1>4, <1>5, <1>6 DEF AskOK

LEMMA AskSame ==
  ASSUME LLMInv, UNCHANGED call, UNCHANGED ruleVars
  PROVE  LLMInv'
  <1>1. \A d : AskOK(d) => AskOK(d)'
    BY DEF AskOK, AnswerOK, ruleVars
  <1>2. LLMTypes'
    BY DEF LLMInv, LLMTypes, ruleVars
  <1> QED
    BY <1>1, <1>2 DEF LLMInv, Asks

\* A step of the call of thread t: the others are as right as before.
LEMMA AskStep ==
  ASSUME LLMInv, NEW t \in Threads, NEW c, call' = [call EXCEPT ![t] = c],
         UNCHANGED ruleVars, c = Idle \/ c = [step |-> "shutdown"] \/ AskOK(c)
  PROVE  LLMInv'
  <1>1. /\ call' = [u \in Threads |-> call'[u]]
        /\ call'[t] = c
        /\ \A u \in Threads : u # t => call'[u] = call[u]
    BY MemoryMoved DEF LLMInv, LLMTypes
  <1>2. LLMTypes'
    BY <1>1 DEF LLMInv, LLMTypes, ruleVars
  <1>3. \A d : AskOK(d) => AskOK(d)'
    BY DEF AskOK, AnswerOK, ruleVars
  <1> QED
    <2>1. c = [step |-> "shutdown"] => DOMAIN c = {"step"} /\ c.step = "shutdown"
      OBVIOUS
    <2>2. AskOK(c) => c.step # "shutdown"
      BY DEF AskOK
    <2> QED
      BY <1>1, <1>2, <1>3, <2>1, <2>2 DEF LLMInv, Asks

LEMMA LLMInitInv == CallersInit /\ LLMInit => LLMInv
  BY DEF CallersInit, LLMInit, LLMInv, LLMTypes, Asks

LEMMA AskBegins ==
  ASSUME LLMTypes, NEW op, NEW prompt, NEW step \in {"sent", "created", "tools", "texts"},
         step \in {"sent", "tools"} => op \in {"tool_call", "chat", "chat_stream"},
         step = "texts" => op \notin {"tool_call", "chat", "chat_stream"}
  PROVE  AskOK(Asking(op, prompt, step))
  <1>1. Len(tool_rules) \in Nat /\ Len(response_rules) \in Nat
    BY DEF LLMTypes
  <1>c. PICK c : c = Asking(op, prompt, step)
    OBVIOUS
  <1>2. /\ DOMAIN c = AskFields /\ c.step = step /\ c.op = op /\ c.prompt = prompt /\ c.next = 1
        /\ c.tools = Len(tool_rules) /\ c.texts = Len(response_rules)
    BY <1>c DEF Asking, AskFields
  <1>3. None(tool_rules, c.next - 1, c.prompt) /\ None(response_rules, c.next - 1, c.prompt)
    BY <1>2 DEF None
  <1>4. AskedForTool(c) <=> op \in {"tool_call", "chat", "chat_stream"}
    BY <1>2 DEF AskedForTool
  <1>5. /\ c.next \in 1..(Len(tool_rules) + 1) /\ c.next \in 1..(Len(response_rules) + 1)
        /\ c.tools \in 0..Len(tool_rules) /\ c.texts \in 0..Len(response_rules)
    BY <1>1, <1>2
  <1>6. AskOK(c)
    <2>1. /\ c.step = "sent" => AskedForTool(c)
          /\ c.step = "tools" => AskedForTool(c)
          /\ c.step = "texts" => c.op # "tool_call" /\ ~ AskedForTool(c)
          /\ c.step \notin {"stream", "reply"}
      BY <1>2, <1>4
    <2> QED
      BY <1>2, <1>3, <1>5, <2>1 DEF AskOK
  <1> QED
    BY <1>6, <1>c

LEMMA LLMStepInv ==
  ASSUME LLMInv, [\E t \in Threads : LLMCall(t) \/ LLMStep(t)]_llmVars
  PROVE  LLMInv'
  <1>0. LLMTypes
    BY DEF LLMInv
  <1>n. Len(tool_rules) \in Nat /\ Len(response_rules) \in Nat
    BY <1>0 DEF LLMTypes
  <1>1. ASSUME NEW t \in Threads, AddRule(t)
        PROVE  LLMInv'
    <2>1. /\ tool_rules' = tool_rules \/ (\E x \in Kept(ToolRules) : tool_rules' = Append(tool_rules, x))
          /\ \/ response_rules' = response_rules
             \/ \E x \in Kept(Rules) : response_rules' = Append(response_rules, x)
          /\ call' = call
      BY <1>1 DEF AddRule, add_rule, add_tool_rule, Kept
    <2>2. LLMTypes'
      <3>1. tool_rules' \in Seq(Kept(ToolRules))
        BY <1>0, <2>1 DEF LLMTypes
      <3>2. response_rules' \in Seq(Kept(Rules))
        <4>1. response_rules \in Seq(Kept(Rules))
          BY <1>0 DEF LLMTypes
        <4>2. CASE response_rules' = response_rules
          BY <4>1, <4>2
        <4>3. ASSUME NEW x \in Kept(Rules), response_rules' = Append(response_rules, x)
              PROVE  response_rules' \in Seq(Kept(Rules))
          BY <4>1, <4>3
        <4> QED
          BY <2>1, <4>2, <4>3
      <3> QED
        BY <1>0, <2>1, <3>1, <3>2 DEF LLMTypes
    <2>3. \A c : AskOK(c) => AskOK(c)'
      BY <1>0, <2>1, <2>2, AskStays
    <2> QED
      BY <2>1, <2>2, <2>3 DEF LLMInv, Asks
  <1>2. ASSUME NEW t \in Threads, NEW op, NEW prompt, NEW step \in {"sent", "created", "tools", "texts"},
               step \in {"sent", "tools"} => op \in {"tool_call", "chat", "chat_stream"},
               step = "texts" => op \notin {"tool_call", "chat", "chat_stream"},
               call' = [call EXCEPT ![t] = Asking(op, prompt, step)], UNCHANGED ruleVars
        PROVE  LLMInv'
    <2>c. PICK c : c = Asking(op, prompt, step)
      OBVIOUS
    <2>1. AskOK(c)
      BY <1>0, <1>2, <2>c, AskBegins
    <2> QED
      BY <1>2, <2>c, <2>1, AskStep
  <1>3. ASSUME NEW t \in Threads, call' = [call EXCEPT ![t] = Idle], UNCHANGED ruleVars
        PROVE  LLMInv'
    BY <1>3, AskStep
  <1>4. ASSUME NEW t \in Threads, LLMCall(t)
        PROVE  LLMInv'
    <2>1. ASSUME NEW messages \in Conversations, NEW stream \in BOOLEAN, RequestChat(t, messages, stream)
          PROVE  LLMInv'
      <3>1. /\ call' = [call EXCEPT ![t] = Asking(IF stream THEN "chat_stream" ELSE "chat", Prompt(messages), "sent")]
            /\ UNCHANGED ruleVars
        BY <2>1 DEF RequestChat, Begin
      <3> QED
        BY <1>2, <3>1
    <2>2. ASSUME NEW op \in {"complete", "tool_call", "stream"}, NEW prompt \in Prompts, Ask(t, op, prompt)
          PROVE  LLMInv'
      <3> DEFINE step == CASE op = "complete" -> "texts"
                           [] op = "tool_call" -> "tools"
                           [] op = "stream" -> "created"
      <3>1. call' = [call EXCEPT ![t] = Asking(op, prompt, step)] /\ UNCHANGED ruleVars
        BY <2>2 DEF Ask, Begin
      <3>2. /\ step \in {"sent", "created", "tools", "texts"}
            /\ step \in {"sent", "tools"} => op \in {"tool_call", "chat", "chat_stream"}
            /\ step = "texts" => op \notin {"tool_call", "chat", "chat_stream"}
        OBVIOUS
      <3> HIDE DEF step
      <3> QED
        BY <1>2, <3>1, <3>2
    <2>3. CASE StartServer(t) /\ UNCHANGED <<ruleVars, sent>>
      BY <2>3, AskSame DEF StartServer
    <2>4. CASE StopServer(t) /\ UNCHANGED <<ruleVars, sent>>
      <3>c. PICK c : c = [step |-> "shutdown"]
        OBVIOUS
      <3>1. call' = [call EXCEPT ![t] = c] /\ c.step = "shutdown" /\ UNCHANGED ruleVars
        BY <2>4, <3>c DEF StopServer, Begin
      <3> QED
        BY <3>1, <3>c, AskStep
    <2> QED
      BY <1>1, <1>4, <2>1, <2>2, <2>3, <2>4 DEF LLMCall
  <1>5. ASSUME NEW t \in Threads, LLMStep(t)
        PROVE  LLMInv'
    <2>0. \A s \in {"sent", "created", "tools", "texts", "stream", "reply"} :
            At(t, s) => AskOK(call[t]) /\ call[t].step = s
      BY DEF LLMInv, Asks, At
    <2>1. CASE HandleChat(t)
      <3>1. At(t, "sent") /\ UNCHANGED ruleVars
            /\ call' = [call EXCEPT ![t] = Asking(call[t].op, call[t].prompt, "tools")]
        BY <2>1 DEF HandleChat, Accept, Continue
      <3>2. call[t].op \in {"tool_call", "chat", "chat_stream"}
        BY <2>0, <3>1 DEF AskOK, AskedForTool
      <3> QED
        BY <1>2, <3>1, <3>2
    <2>2. CASE FirstDelta(t)
      <3>1. /\ UNCHANGED ruleVars
            /\ call' = [call EXCEPT ![t] = Asking("stream", call[t].prompt, "texts")]
        BY <2>2 DEF FirstDelta, Continue
      <3> QED
        BY <1>2, <3>1
    <2>3. CASE ScanToolRules(t)
      <3> DEFINE c == call[t]
      <3>1. At(t, "tools") /\ UNCHANGED ruleVars
        BY <2>3 DEF ScanToolRules
      <3>2. /\ AskOK(c) /\ AskedForTool(c) /\ c.next \in 1..(Len(tool_rules) + 1)
            /\ None(tool_rules, c.next - 1, c.prompt) /\ DOMAIN c = AskFields
            /\ c.tools \in 0..Len(tool_rules) /\ c.texts \in 0..Len(response_rules)
            /\ c.step = "tools"
        BY <2>0, <3>1 DEF AskOK
      <3>3. CASE c.next > Len(tool_rules)
        <4>1. None(tool_rules, c.tools, c.prompt)
          BY <1>n, <3>2, <3>3 DEF None
        <4>2. CASE c.op = "tool_call"
          <5>d. PICK d : d = Answered(c, "reply", NoTool)
            OBVIOUS
          <5>1. AskOK(d)
            BY <3>2, <4>1, <4>2, <5>d DEF AskOK, AnswerOK, Answered, AskFields, AskedForTool
          <5>2. call' = [call EXCEPT ![t] = d]
            BY <2>3, <3>3, <4>2, <5>d DEF ScanToolRules, Continue
          <5> QED
            BY <3>1, <5>1, <5>2, AskStep
        <4>3. CASE c.op # "tool_call"
          <5>d. PICK d : d = [c EXCEPT !.step = "texts", !.next = 1]
            OBVIOUS
          <5>1. /\ DOMAIN d = AskFields /\ d.step = "texts" /\ d.next = 1 /\ d.op = c.op
                /\ d.prompt = c.prompt /\ d.tools = c.tools /\ d.texts = c.texts
            BY <3>2, <5>d DEF AskFields
          <5>2. AskOK(d)
            BY <1>n, <3>2, <4>1, <4>3, <5>1 DEF AskOK, AskedForTool, None
          <5>3. call' = [call EXCEPT ![t] = d]
            BY <2>3, <3>3, <4>3, <5>d DEF ScanToolRules, Continue
          <5> QED
            BY <3>1, <5>2, <5>3, AskStep
        <4> QED
          BY <4>2, <4>3
      <3>4. CASE ~ (c.next > Len(tool_rules)) /\ Occurs(tool_rules[c.next].keyword, c.prompt)
        <4>d. PICK d : d = Answered(c, "reply", tool_rules[c.next].tool)
          OBVIOUS
        <4>1. /\ d.step = "reply" /\ DOMAIN d = AskFields \cup {"answer"} /\ d.op = c.op
              /\ d.prompt = c.prompt /\ d.tools = c.tools /\ d.texts = c.texts
              /\ d.answer = tool_rules[c.next].tool
          BY <4>d DEF Answered, AskFields
        <4>2. c.next \in 1..Len(tool_rules) /\ IsFirst(tool_rules, c.next, c.prompt)
          BY <1>n, <3>2, <3>4 DEF IsFirst
        <4>3. AnswerOK(d)
          BY <3>2, <4>1, <4>2 DEF AnswerOK, AskedForTool
        <4>4. AskOK(d)
          BY <3>2, <4>1, <4>3 DEF AskOK
        <4>5. call' = [call EXCEPT ![t] = d]
          BY <2>3, <3>4, <4>d DEF ScanToolRules, Continue
        <4> QED
          BY <3>1, <4>4, <4>5, AskStep
      <3>5. CASE ~ (c.next > Len(tool_rules)) /\ ~ Occurs(tool_rules[c.next].keyword, c.prompt)
        <4>d. PICK d : d = [c EXCEPT !.next = @ + 1]
          OBVIOUS
        <4>1. /\ DOMAIN d = AskFields /\ d.step = "tools" /\ d.next = c.next + 1 /\ d.op = c.op
              /\ d.prompt = c.prompt /\ d.tools = c.tools /\ d.texts = c.texts
          BY <3>2, <4>d DEF AskFields
        <4>2. None(tool_rules, c.next, c.prompt) /\ (c.next + 1) - 1 = c.next
              /\ c.next + 1 \in 1..(Len(tool_rules) + 1)
          <5>1. c.next \in 1..Len(tool_rules) /\ (c.next + 1) - 1 = c.next
                /\ c.next + 1 \in 1..(Len(tool_rules) + 1)
            BY <1>n, <3>2, <3>5
          <5>2. \A j \in 1..c.next : j \in 1..(c.next - 1) \/ j = c.next
            BY <5>1
          <5> QED
            BY <3>2, <3>5, <5>1, <5>2 DEF None
        <4>3. AskOK(d)
          BY <3>2, <4>1, <4>2 DEF AskOK, AskedForTool
        <4>4. call' = [call EXCEPT ![t] = d]
          BY <2>3, <3>5, <4>d DEF ScanToolRules, Continue
        <4> QED
          BY <3>1, <4>3, <4>4, AskStep
      <3> QED
        BY <3>3, <3>4, <3>5
    <2>4. CASE ScanResponseRules(t)
      <3> DEFINE c == call[t]
      <3>1. At(t, "texts") /\ UNCHANGED ruleVars
        BY <2>4 DEF ScanResponseRules
      <3>2. /\ AskOK(c) /\ c.op # "tool_call" /\ c.next \in 1..(Len(response_rules) + 1)
            /\ AskedForTool(c) => None(tool_rules, c.tools, c.prompt)
            /\ None(response_rules, c.next - 1, c.prompt) /\ DOMAIN c = AskFields
            /\ c.tools \in 0..Len(tool_rules) /\ c.texts \in 0..Len(response_rules)
            /\ c.step = "texts"
        BY <2>0, <3>1 DEF AskOK
      <3>3. ASSUME NEW answer, NEW reply \in {"stream", "reply"},
                   call' = [call EXCEPT ![t] = [Answered(c, reply, answer) EXCEPT !.next = 1]],
                   \/ None(response_rules, c.texts, c.prompt) /\ answer = default_response
                   \/ \E i \in 1..Len(response_rules) :
                        /\ IsFirst(response_rules, i, c.prompt)
                        /\ answer = response_rules[i].response
            PROVE  LLMInv'
        <4>d. PICK d : d = [Answered(c, reply, answer) EXCEPT !.next = 1]
          OBVIOUS
        <4>1. /\ d.step = reply /\ DOMAIN d = AskFields \cup {"answer"} /\ d.op = c.op
              /\ d.prompt = c.prompt /\ d.tools = c.tools /\ d.texts = c.texts
              /\ d.answer = answer
          BY <4>d DEF Answered, AskFields
        <4>2. AnswerOK(d)
          BY <3>2, <3>3, <4>1 DEF AnswerOK, AskedForTool
        <4>3. AskOK(d)
          BY <3>2, <3>3, <4>1, <4>2 DEF AskOK
        <4> QED
          BY <3>1, <3>3, <4>d, <4>3, AskStep
      <3>r. (IF c.op \in {"stream", "chat_stream"} THEN "stream" ELSE "reply") \in {"stream", "reply"}
        OBVIOUS
      <3>4. CASE c.next > Len(response_rules)
        <4>1. None(response_rules, c.texts, c.prompt)
          BY <1>n, <3>2, <3>4 DEF None
        <4> QED
          BY <2>4, <3>4, <3>r, <4>1, <3>3 DEF ScanResponseRules, Continue
      <3>5. CASE ~ (c.next > Len(response_rules)) /\ Occurs(response_rules[c.next].keyword, c.prompt)
        <4>1. c.next \in 1..Len(response_rules) /\ IsFirst(response_rules, c.next, c.prompt)
          BY <1>n, <3>2, <3>5 DEF IsFirst
        <4> QED
          BY <2>4, <3>5, <3>r, <4>1, <3>3 DEF ScanResponseRules, Continue
      <3>6. CASE ~ (c.next > Len(response_rules)) /\ ~ Occurs(response_rules[c.next].keyword, c.prompt)
        <4>d. PICK d : d = [c EXCEPT !.next = @ + 1]
          OBVIOUS
        <4>1. /\ DOMAIN d = AskFields /\ d.step = "texts" /\ d.next = c.next + 1 /\ d.op = c.op
              /\ d.prompt = c.prompt /\ d.tools = c.tools /\ d.texts = c.texts
          BY <3>2, <4>d DEF AskFields
        <4>2. None(response_rules, c.next, c.prompt) /\ (c.next + 1) - 1 = c.next
              /\ c.next + 1 \in 1..(Len(response_rules) + 1)
          BY <1>n, <3>2, <3>6 DEF None
        <4>3. AskOK(d)
          BY <3>2, <4>1, <4>2 DEF AskOK, AskedForTool
        <4>4. call' = [call EXCEPT ![t] = d]
          BY <2>4, <3>6, <4>d DEF ScanResponseRules, Continue
        <4> QED
          BY <3>1, <4>3, <4>4, AskStep
      <3> QED
        BY <3>4, <3>5, <3>6
    <2>5. CASE SendDelta(t)
      <3> DEFINE c == call[t]
                 step == IF c.next = Len(c.answer) THEN "reply" ELSE "stream"
      <3>d. PICK d : d = [c EXCEPT !.next = @ + 1, !.step = step]
        OBVIOUS
      <3>1. AskOK(c) /\ c.step = "stream" /\ UNCHANGED ruleVars
        BY <2>0, <2>5 DEF SendDelta
      <3>2. step \in {"reply", "stream"}
        OBVIOUS
      <3>3. DOMAIN c = AskFields \cup {"answer"}
        BY <3>1 DEF AskOK
      <3>4. /\ d.step = step /\ DOMAIN d = AskFields \cup {"answer"} /\ d.op = c.op
            /\ d.prompt = c.prompt /\ d.tools = c.tools /\ d.texts = c.texts
            /\ d.answer = c.answer
        BY <3>3, <3>d DEF AskFields
      <3> HIDE DEF step
      <3>5. AnswerOK(d)
        BY <3>1, <3>4 DEF AskOK, AnswerOK, AskedForTool
      <3>6. AskOK(d)
        BY <3>1, <3>2, <3>4, <3>5 DEF AskOK
      <3>7. call' = [call EXCEPT ![t] = d]
        BY <2>5, <3>d DEF SendDelta, Continue, step
      <3> QED
        BY <3>1, <3>6, <3>7, AskStep
    <2>6. CASE (Answer(t) \/ Refuse(t) \/ Shutdown(t)) /\ UNCHANGED <<ruleVars, sent>>
      BY <2>6, <1>3 DEF Answer, Leave, Refuse, Shutdown, Return
    <2> QED
      BY <1>5, <2>1, <2>2, <2>3, <2>4, <2>5, <2>6 DEF LLMStep
  <1>6. CASE UNCHANGED llmVars
    BY <1>6, AskSame DEF llmVars, callerVars
  <1> QED
    BY <1>4, <1>5, <1>6

\* The first match is the one that FirstMatchAnswers chooses.
LEMMA FirstChosen ==
  ASSUME NEW rules, NEW n \in Nat, NEW prompt
  PROVE  /\ None(rules, n, prompt) <=> Matching(rules, n, prompt) = {}
         /\ \A i \in 1..n : IsFirst(rules, i, prompt) =>
              Matching(rules, n, prompt) # {} /\ FirstOf(Matching(rules, n, prompt)) = i
  <1>1. None(rules, n, prompt) <=> Matching(rules, n, prompt) = {}
    BY DEF None, Matching
  <1>2. ASSUME NEW i \in 1..n, IsFirst(rules, i, prompt)
        PROVE  Matching(rules, n, prompt) # {} /\ FirstOf(Matching(rules, n, prompt)) = i
    <2> DEFINE M == Matching(rules, n, prompt)
    <2>1. i \in M /\ \A j \in M : j \in 1..n /\ i <= j
      BY <1>2 DEF IsFirst, None, Matching
    <2> HIDE DEF M
    <2>2. FirstOf(M) \in M /\ \A j \in M : FirstOf(M) <= j
      BY <2>1 DEF FirstOf
    <2>3. FirstOf(M) = i
      <3>1. FirstOf(M) \in 1..n /\ i <= FirstOf(M) /\ FirstOf(M) <= i
        BY <2>1, <2>2
      <3> QED
        BY <3>1
    <2> QED
      BY <2>1, <2>3 DEF M
  <1> QED
    BY <1>1, <1>2

\* The first match wins, tool rules before response rules, whatever rules are
\* added while a call scans (llm_mock.py, complete and tool_call), for any rules.
THEOREM FirstMatchWins == LLMSpec => []FirstMatchAnswers
  <1>1. LLMInv => FirstMatchAnswers
    <2> SUFFICES ASSUME LLMInv PROVE FirstMatchAnswers
      OBVIOUS
    <2>n. Len(tool_rules) \in Nat /\ Len(response_rules) \in Nat
      BY DEF LLMInv, LLMTypes
    <2> DEFINE Right(c, tools, texts, toolsNow, textsNow) ==
                 IF AskedForTool(c) /\ tools # {}
                 THEN c.answer = tool_rules[FirstOf(tools)].tool
                 ELSE \/ /\ AskedForTool(c) /\ toolsNow # {}
                         /\ c.answer = tool_rules[FirstOf(toolsNow)].tool
                      \/ IF c.op = "tool_call" THEN c.answer = NoTool
                         ELSE IF texts # {}
                         THEN c.answer = response_rules[FirstOf(texts)].response
                         ELSE \/ c.answer = default_response
                              \/ /\ textsNow # {}
                                 /\ c.answer = response_rules[FirstOf(textsNow)].response
               All(c) == Right(c, Matching(tool_rules, c.tools, c.prompt),
                               Matching(response_rules, c.texts, c.prompt),
                               Matching(tool_rules, Len(tool_rules), c.prompt),
                               Matching(response_rules, Len(response_rules), c.prompt))
    <2>1. ASSUME NEW t \in Threads, call[t] # Idle, "answer" \in DOMAIN call[t]
          PROVE  All(call[t])
      <3> DEFINE c == call[t]
      <3>1. AskOK(c)
        BY <2>1 DEF LLMInv
      <3>2. AnswerOK(c) /\ c.tools \in 0..Len(tool_rules) /\ c.texts \in 0..Len(response_rules)
        <4>1. "answer" \in DOMAIN c
          BY <2>1
        <4> HIDE DEF c
        <4>2. DOMAIN c # AskFields
          BY <4>1 DEF AskFields
        <4> QED
          BY <3>1, <4>2 DEF AskOK
      <3>k. c.tools \in Nat /\ c.texts \in Nat
        BY <3>2
      <3> HIDE DEF c
      <3>3. ASSUME NEW i \in 1..Len(tool_rules), IsFirst(tool_rules, i, c.prompt)
            PROVE  /\ Matching(tool_rules, c.tools, c.prompt) # {} =>
                        FirstOf(Matching(tool_rules, c.tools, c.prompt)) = i
                   /\ Matching(tool_rules, Len(tool_rules), c.prompt) # {}
                   /\ FirstOf(Matching(tool_rules, Len(tool_rules), c.prompt)) = i
        <4>1. ~ (i \in 1..c.tools) => None(tool_rules, c.tools, c.prompt)
          BY <2>n, <3>2, <3>3 DEF IsFirst, None
        <4> QED
          BY <2>n, <3>k, <3>3, <4>1, FirstChosen
      <3>4. ASSUME NEW i \in 1..Len(response_rules), IsFirst(response_rules, i, c.prompt)
            PROVE  /\ Matching(response_rules, c.texts, c.prompt) # {} =>
                        FirstOf(Matching(response_rules, c.texts, c.prompt)) = i
                   /\ Matching(response_rules, Len(response_rules), c.prompt) # {}
                   /\ FirstOf(Matching(response_rules, Len(response_rules), c.prompt)) = i
        <4>1. ~ (i \in 1..c.texts) => None(response_rules, c.texts, c.prompt)
          BY <2>n, <3>2, <3>4 DEF IsFirst, None
        <4> QED
          BY <2>n, <3>k, <3>4, <4>1, FirstChosen
      <3>5. /\ None(tool_rules, c.tools, c.prompt) => Matching(tool_rules, c.tools, c.prompt) = {}
            /\ None(response_rules, c.texts, c.prompt) => Matching(response_rules, c.texts, c.prompt) = {}
        BY <3>k, FirstChosen
      <3>6. All(c)
        <4>1. CASE /\ AskedForTool(c)
                   /\ \E i \in 1..Len(tool_rules) :
                        IsFirst(tool_rules, i, c.prompt) /\ c.answer = tool_rules[i].tool
          BY <3>3, <4>1
        <4>2. CASE /\ AskedForTool(c) => None(tool_rules, c.tools, c.prompt)
                   /\ c.op = "tool_call" /\ c.answer = NoTool
          BY <3>5, <4>2
        <4>3. CASE /\ AskedForTool(c) => None(tool_rules, c.tools, c.prompt)
                   /\ c.op # "tool_call"
                   /\ None(response_rules, c.texts, c.prompt) /\ c.answer = default_response
          BY <3>5, <4>3
        <4>4. CASE /\ AskedForTool(c) => None(tool_rules, c.tools, c.prompt)
                   /\ c.op # "tool_call"
                   /\ \E i \in 1..Len(response_rules) :
                        /\ IsFirst(response_rules, i, c.prompt)
                        /\ c.answer = response_rules[i].response
          BY <3>4, <3>5, <4>4
        <4> QED
          BY <3>2, <4>1, <4>2, <4>3, <4>4 DEF AnswerOK
      <3> QED
        BY <3>6 DEF c
    <2> QED
      BY <2>1 DEF FirstMatchAnswers
  <1> QED
    BY <1>1, LLMInitInv, LLMStepInv, PTL DEF LLMSpec

---------------------------------------------------------------------------
(* LLMServer: streams.                                                       *)

\* The first m pieces of an answer: words and the spaces between them.
Woven(words, m) == [k \in 1..m |-> IF k % 2 = 1 THEN words[(k + 1) \div 2] ELSE Space]

HasWords(words) == Len(words) \in Nat \ {0}

\* What a caller has received of an answer agrees with the place of its stream.
SentRight(c, s) ==
  /\ c.step \in {"sent", "created", "tools", "texts"} => s = << >>
  /\ c.step = "stream" =>
       /\ HasWords(c.answer) /\ c.next \in 1..Len(c.answer)
       /\ s = Woven(c.answer, 2 * (c.next - 1))
  /\ c.step = "reply" => s = << >> \/ (HasWords(c.answer) /\ s = Joined(c.answer))

SentInv ==
  /\ sent = [t \in Threads |-> sent[t]]
  /\ \A t \in Threads : Asks(t) => SentRight(call[t], sent[t])

LEMMA WovenSeq ==
  ASSUME NEW words, HasWords(words), NEW m \in 0..(2 * Len(words))
  PROVE  /\ Woven(words, m) \in Seq({Space} \cup {words[i] : i \in 1..Len(words)})
         /\ Len(Woven(words, m)) = m
         /\ \A k \in 1..m :
              Woven(words, m)[k] = IF k % 2 = 1 THEN words[(k + 1) \div 2] ELSE Space
  <1> DEFINE S == {Space} \cup {words[i] : i \in 1..Len(words)}
             L == Len(words)
  <1>1. L \in Nat /\ m \in Nat /\ m <= 2 * L
    BY DEF HasWords
  <1>2. \A i \in 1..L : words[i] \in S
    OBVIOUS
  <1>3. Space \in S
    OBVIOUS
  <1> HIDE DEF S, L
  <1>4. \A k \in 1..m : k % 2 = 1 => (k + 1) \div 2 \in 1..L
    BY <1>1
  <1>5. \A k \in 1..m : (IF k % 2 = 1 THEN words[(k + 1) \div 2] ELSE Space) \in S
    BY <1>2, <1>3, <1>4
  <1>6. Woven(words, m) \in [1..m -> S]
    BY <1>5 DEF Woven
  <1>7. Woven(words, m) \in Seq(S) /\ Len(Woven(words, m)) = m
    BY <1>1, <1>6, SeqFromFunction
  <1> QED
    BY <1>7 DEF Woven, S, L

\* A delta adds a word and the space after it; the last word has none.
LEMMA WovenNext ==
  ASSUME NEW words, HasWords(words), NEW n \in 1..Len(words)
  PROVE  Woven(words, 2 * (n - 1)) \o Delta(words, n)
           = IF n < Len(words) THEN Woven(words, 2 * n) ELSE Joined(words)
  <1> DEFINE L == Len(words)
             S == {Space} \cup {words[i] : i \in 1..L}
             m == IF n < L THEN 2 * n ELSE 2 * n - 1
             old == Woven(words, 2 * (n - 1))
             d == Delta(words, n)
             new == Woven(words, m)
  <1>1. L \in Nat /\ n \in Nat /\ 1 <= n /\ n <= L
    BY DEF HasWords
  <1>2. (IF n < Len(words) THEN Woven(words, 2 * n) ELSE Joined(words)) = new
    <2>1. n < L \/ n = L
      BY <1>1
    <2> QED
      BY <2>1 DEF Joined, Woven
  <1>3. 2 * (n - 1) \in 0..(2 * L) /\ m \in 0..(2 * L)
    BY <1>1
  <1>4. /\ old \in Seq(S) /\ Len(old) = 2 * (n - 1)
        /\ \A k \in 1..(2 * (n - 1)) : old[k] = IF k % 2 = 1 THEN words[(k + 1) \div 2] ELSE Space
    BY <1>3, WovenSeq
  <1>5. /\ new \in Seq(S) /\ Len(new) = m
        /\ \A k \in 1..m : new[k] = IF k % 2 = 1 THEN words[(k + 1) \div 2] ELSE Space
    <2> HIDE DEF m
    <2> QED
      BY <1>3, WovenSeq
  <1>6. words[n] \in S /\ Space \in S
    BY <1>1
  <1> HIDE DEF S, old, new
  <1>7. /\ d \in Seq(S) /\ Len(d) = m - 2 * (n - 1)
        /\ d[1] = words[n] /\ (n < L => d[2] = Space)
    <2>1. CASE n < L
      <3>1. d = <<words[n], Space>>
        BY <2>1 DEF Delta
      <3> QED
        BY <1>1, <1>6, <2>1, <3>1
    <2>2. CASE n = L
      <3>1. d = <<words[n]>>
        BY <1>1, <2>2 DEF Delta
      <3> QED
        BY <1>1, <1>6, <2>2, <3>1
    <2> QED
      BY <1>1, <2>1, <2>2
  <1> HIDE DEF d
  <1>8. /\ old \o d \in Seq(S) /\ Len(old \o d) = m
        /\ \A k \in 1..m : (old \o d)[k] = IF k <= 2 * (n - 1) THEN old[k] ELSE d[k - 2 * (n - 1)]
    <2>1. /\ old \o d \in Seq(S)
          /\ Len(old \o d) = Len(old) + Len(d)
          /\ \A k \in 1..(Len(old) + Len(d)) :
               (old \o d)[k] = IF k <= Len(old) THEN old[k] ELSE d[k - Len(old)]
      BY <1>4, <1>7, ConcatProperties
    <2>2. Len(old) + Len(d) = m
      BY <1>1, <1>4, <1>7
    <2> QED
      BY <1>4, <2>1, <2>2
  <1>9. ASSUME NEW k \in 1..m
        PROVE  (old \o d)[k] = new[k]
    <2>1. CASE k <= 2 * (n - 1)
      <3>1. k \in 1..(2 * (n - 1))
        BY <1>1, <2>1
      <3> QED
        BY <1>4, <1>5, <1>8, <2>1, <3>1
    <2>2. CASE k = 2 * n - 1
      <3>1. k % 2 = 1 /\ (k + 1) \div 2 = n /\ k - 2 * (n - 1) = 1 /\ ~ (k <= 2 * (n - 1))
        BY <1>1, <2>2
      <3> QED
        BY <1>5, <1>7, <1>8, <3>1
    <2>3. CASE k = 2 * n
      <3>1. k % 2 # 1 /\ k - 2 * (n - 1) = 2 /\ ~ (k <= 2 * (n - 1)) /\ n < L
        BY <1>1, <2>3
      <3> QED
        BY <1>5, <1>7, <1>8, <3>1
    <2>4. m = 2 * n - 1 \/ m = 2 * n
      OBVIOUS
    <2>5. k \in Nat /\ k <= m
      BY <1>1, <1>9
    <2>6. k <= 2 * (n - 1) \/ k = 2 * n - 1 \/ k = 2 * n
      <3> HIDE DEF m
      <3> QED
        BY <2>4, <2>5
    <2>7. k = 2 * n => n < L
      <3>1. CASE n < L
        BY <3>1
      <3>2. CASE ~ (n < L)
        BY <3>2, <2>5
      <3> QED
        BY <3>1, <3>2
    <2> QED
      BY <2>1, <2>2, <2>3, <2>6
  <1>10. old \o d = new
    <2> HIDE DEF m
    <2> QED
      BY <1>5, <1>8, <1>9, SeqEqual
  <1> QED
    BY <1>2, <1>10 DEF old, d

LEMMA WovenPrefix ==
  ASSUME NEW words, HasWords(words), NEW m \in 0..(2 * Len(words) - 1)
  PROVE  IsPrefix(Woven(words, m), Joined(words))
  <1> DEFINE L == Len(words)
             S == {Space} \cup {words[i] : i \in 1..L}
             s == Woven(words, m)
             j == Woven(words, 2 * L - 1)
  <1>1. L \in Nat /\ m \in Nat /\ m <= 2 * L - 1 /\ m \in 0..(2 * L) /\ 2 * L - 1 \in 0..(2 * L)
    BY DEF HasWords
  <1>2. Joined(words) = j
    BY DEF Joined, Woven
  <1>3. /\ s \in Seq(S) /\ Len(s) = m
        /\ \A k \in 1..m : s[k] = IF k % 2 = 1 THEN words[(k + 1) \div 2] ELSE Space
    BY <1>1, WovenSeq
  <1>4. /\ j \in Seq(S) /\ Len(j) = 2 * L - 1
        /\ \A k \in 1..(2 * L - 1) : j[k] = IF k % 2 = 1 THEN words[(k + 1) \div 2] ELSE Space
    <2>1. PICK l : l = 2 * L - 1
      OBVIOUS
    <2>2. /\ Woven(words, l) \in Seq(S) /\ Len(Woven(words, l)) = l
          /\ \A k \in 1..l : Woven(words, l)[k] = IF k % 2 = 1 THEN words[(k + 1) \div 2] ELSE Space
      BY <1>1, <2>1, WovenSeq
    <2> QED
      BY <2>1, <2>2
  <1> HIDE DEF S, s, j
  <1>5. /\ SubSeq(s, 1, m) = [k \in 1..m |-> s[k]]
        /\ SubSeq(j, 1, m) = [k \in 1..m |-> j[k]]
    BY <1>1, <1>3, <1>4
  <1>6. \A k \in 1..m : s[k] = j[k]
    BY <1>1, <1>3, <1>4
  <1>7. IsPrefix(s, j)
    BY <1>1, <1>3, <1>4, <1>5, <1>6 DEF IsPrefix
  <1> QED
    BY <1>2, <1>7 DEF s

LEMMA SentInitInv == CallersInit /\ LLMInit => SentInv
  BY DEF CallersInit, LLMInit, SentInv, Asks

LEMMA SentStep ==
  ASSUME LLMInv, SentInv, NEW t \in Threads, NEW c, NEW s,
         call' = [call EXCEPT ![t] = c], sent' = [sent EXCEPT ![t] = s],
         c = Idle \/ c.step = "shutdown" \/ SentRight(c, s)
  PROVE  SentInv'
  <1>1. /\ call'[t] = c
        /\ \A u \in Threads : u # t => call'[u] = call[u]
    BY MemoryMoved DEF LLMInv, LLMTypes
  <1>2. /\ sent'[t] = s /\ sent' = [u \in Threads |-> sent'[u]]
        /\ \A u \in Threads : u # t => sent'[u] = sent[u]
    BY DEF SentInv
  <1> QED
    BY <1>1, <1>2 DEF SentInv, Asks

\* Every answer of the rules has a word.
LEMMA AnswersHaveWords ==
  ASSUME LLMTypes
  PROVE  /\ HasWords(default_response)
         /\ \A i \in 1..Len(response_rules) : HasWords(response_rules[i].response)
  <1>1. \A r \in Kept(Rules) : HasWords(r.response)
    <2> SUFFICES ASSUME NEW r \in Rules
                 PROVE  HasWords([r EXCEPT !.keyword = Lower[r.keyword]].response)
      BY DEF Kept
    <2>1. DOMAIN r = {"keyword", "response"} /\ HasWords(r.response)
      BY LLMConstants DEF HasWords
    <2>2. [r EXCEPT !.keyword = Lower[r.keyword]].response = r.response
      BY <2>1
    <2> QED
      BY <2>1, <2>2
  <1>2. \A i \in 1..Len(response_rules) : response_rules[i] \in Kept(Rules)
    BY DEF LLMTypes
  <1>3. HasWords(default_response)
    BY LLMConstants DEF HasWords
  <1> QED
    BY <1>1, <1>2, <1>3

LEMMA SentStepInv ==
  ASSUME LLMInv, SentInv, [\E t \in Threads : LLMCall(t) \/ LLMStep(t)]_llmVars
  PROVE  SentInv'
  <1>0. /\ \A t \in Threads : sent = [sent EXCEPT ![t] = sent[t]]
        /\ \A t \in Threads : Asks(t) => SentRight(call[t], sent[t])
    BY DEF SentInv
  <1>s. ASSUME UNCHANGED call, UNCHANGED sent
        PROVE  SentInv'
    BY <1>s DEF SentInv, Asks
  <1>1. ASSUME NEW t \in Threads, call' = [call EXCEPT ![t] = Idle], UNCHANGED sent
        PROVE  SentInv'
    BY <1>0, <1>1, SentStep
  <1>2. ASSUME NEW t \in Threads, NEW op, NEW prompt, NEW step \in {"sent", "created", "tools", "texts"},
               call' = [call EXCEPT ![t] = Asking(op, prompt, step)],
               sent' = [sent EXCEPT ![t] = << >>]
        PROVE  SentInv'
    <2>c. PICK c : c = Asking(op, prompt, step)
      OBVIOUS
    <2>1. SentRight(c, << >>)
      BY <2>c DEF SentRight, Asking
    <2> QED
      BY <1>2, <2>c, <2>1, SentStep
  <1>3. ASSUME NEW t \in Threads, LLMCall(t)
        PROVE  SentInv'
    <2>1. CASE AddRule(t)
      BY <2>1, <1>s DEF AddRule
    <2>2. ASSUME NEW messages \in Conversations, NEW stream \in BOOLEAN, RequestChat(t, messages, stream)
          PROVE  SentInv'
      BY <2>2, <1>2 DEF RequestChat, Begin
    <2>3. ASSUME NEW op \in {"complete", "tool_call", "stream"}, NEW prompt \in Prompts, Ask(t, op, prompt)
          PROVE  SentInv'
      <3> DEFINE step == CASE op = "complete" -> "texts"
                           [] op = "tool_call" -> "tools"
                           [] op = "stream" -> "created"
      <3>1. step \in {"sent", "created", "tools", "texts"}
        OBVIOUS
      <3>2. /\ call' = [call EXCEPT ![t] = Asking(op, prompt, step)]
            /\ sent' = [sent EXCEPT ![t] = << >>]
        BY <2>3 DEF Ask, Begin
      <3> HIDE DEF step
      <3> QED
        BY <3>1, <3>2, <1>2
    <2>4. CASE StartServer(t) /\ UNCHANGED <<ruleVars, sent>>
      BY <2>4, <1>s DEF StartServer
    <2>5. CASE StopServer(t) /\ UNCHANGED <<ruleVars, sent>>
      <3>c. PICK c : c = [step |-> "shutdown"]
        OBVIOUS
      <3>1. call' = [call EXCEPT ![t] = c] /\ c.step = "shutdown" /\ UNCHANGED sent
        BY <2>5, <3>c DEF StopServer, Begin
      <3> QED
        BY <1>0, <3>1, SentStep
    <2> QED
      BY <1>3, <2>1, <2>2, <2>3, <2>4, <2>5 DEF LLMCall
  <1>4. ASSUME NEW t \in Threads, LLMStep(t)
        PROVE  SentInv'
    <2>0. \A s \in {"sent", "created", "tools", "texts", "stream", "reply"} :
            At(t, s) => AskOK(call[t]) /\ SentRight(call[t], sent[t]) /\ call[t].step = s
      BY <1>0 DEF LLMInv, Asks, At
    <2>e. \A s \in {"sent", "created", "tools", "texts"} :
            At(t, s) => sent[t] = << >> /\ sent = [sent EXCEPT ![t] = << >>]
      BY <1>0, <2>0 DEF SentRight
    <2>1. CASE HandleChat(t)
      <3>1. sent' = [sent EXCEPT ![t] = << >>]
            /\ call' = [call EXCEPT ![t] = Asking(call[t].op, call[t].prompt, "tools")]
        BY <2>1, <2>e DEF HandleChat, Accept, Continue
      <3> QED
        BY <1>2, <3>1
    <2>2. CASE FirstDelta(t)
      <3>1. sent' = [sent EXCEPT ![t] = << >>]
            /\ call' = [call EXCEPT ![t] = Asking("stream", call[t].prompt, "texts")]
        BY <2>2, <2>e DEF FirstDelta, Continue
      <3> QED
        BY <1>2, <3>1
    <2>3. CASE ScanToolRules(t)
      <3> DEFINE c == call[t]
      <3>1. At(t, "tools") /\ sent' = [sent EXCEPT ![t] = << >>] /\ AskOK(c) /\ c.step = "tools"
        BY <2>0, <2>3, <2>e DEF ScanToolRules
      <3>3. \A tool : Answered(c, "reply", tool).step = "reply"
        BY DEF Answered
      <3>4. /\ [c EXCEPT !.step = "texts", !.next = 1].step = "texts"
            /\ [c EXCEPT !.next = @ + 1].step = "tools"
        BY <3>1 DEF AskOK, AskFields
      <3>5. \/ call' = [call EXCEPT ![t] = Answered(c, "reply", NoTool)]
            \/ call' = [call EXCEPT ![t] = [c EXCEPT !.step = "texts", !.next = 1]]
            \/ call' = [call EXCEPT ![t] = Answered(c, "reply", tool_rules[c.next].tool)]
            \/ call' = [call EXCEPT ![t] = [c EXCEPT !.next = @ + 1]]
        BY <2>3 DEF ScanToolRules, Continue
      <3>6. CASE call' = [call EXCEPT ![t] = Answered(c, "reply", NoTool)]
        <4>1. PICK d : d = Answered(c, "reply", NoTool)
          OBVIOUS
        <4>2. d.step \in {"reply", "texts", "tools"}
          BY <3>3, <3>4, <4>1
        <4>3. call' = [call EXCEPT ![t] = d]
          BY <3>6, <4>1
        <4>4. SentRight(d, << >>)
          BY <4>2 DEF SentRight
        <4> QED
          BY <3>1, <4>3, <4>4, SentStep
      <3>7. CASE call' = [call EXCEPT ![t] = [c EXCEPT !.step = "texts", !.next = 1]]
        <4>1. PICK d : d = [c EXCEPT !.step = "texts", !.next = 1]
          OBVIOUS
        <4>2. d.step \in {"reply", "texts", "tools"}
          BY <3>3, <3>4, <4>1
        <4>3. call' = [call EXCEPT ![t] = d]
          BY <3>7, <4>1
        <4>4. SentRight(d, << >>)
          BY <4>2 DEF SentRight
        <4> QED
          BY <3>1, <4>3, <4>4, SentStep
      <3>8. CASE call' = [call EXCEPT ![t] = Answered(c, "reply", tool_rules[c.next].tool)]
        <4>1. PICK d : d = Answered(c, "reply", tool_rules[c.next].tool)
          OBVIOUS
        <4>2. d.step \in {"reply", "texts", "tools"}
          BY <3>3, <3>4, <4>1
        <4>3. call' = [call EXCEPT ![t] = d]
          BY <3>8, <4>1
        <4>4. SentRight(d, << >>)
          BY <4>2 DEF SentRight
        <4> QED
          BY <3>1, <4>3, <4>4, SentStep
      <3>9. CASE call' = [call EXCEPT ![t] = [c EXCEPT !.next = @ + 1]]
        <4>1. PICK d : d = [c EXCEPT !.next = @ + 1]
          OBVIOUS
        <4>2. d.step \in {"reply", "texts", "tools"}
          BY <3>3, <3>4, <4>1
        <4>3. call' = [call EXCEPT ![t] = d]
          BY <3>9, <4>1
        <4>4. SentRight(d, << >>)
          BY <4>2 DEF SentRight
        <4> QED
          BY <3>1, <4>3, <4>4, SentStep
      <3> HIDE DEF c
      <3> QED
        BY <3>5, <3>6, <3>7, <3>8, <3>9
    <2>4. CASE ScanResponseRules(t)
      <3> DEFINE c == call[t]
                 reply == IF c.op \in {"stream", "chat_stream"} THEN "stream" ELSE "reply"
      <3>1. At(t, "texts") /\ sent' = [sent EXCEPT ![t] = << >>] /\ AskOK(c) /\ c.step = "texts"
        BY <2>0, <2>4, <2>e DEF ScanResponseRules
      <3>r. reply \in {"stream", "reply"}
        OBVIOUS
      <3>2. ASSUME NEW answer, HasWords(answer),
                   call' = [call EXCEPT ![t] = [Answered(c, reply, answer) EXCEPT !.next = 1]]
            PROVE  SentInv'
        <4>d. PICK d : d = [Answered(c, reply, answer) EXCEPT !.next = 1]
          OBVIOUS
        <4>1. d.step = reply /\ d.answer = answer /\ d.next = 1
          BY <4>d DEF Answered
        <4>2. Woven(answer, 2 * (d.next - 1)) = << >>
          BY <4>1 DEF Woven
        <4>3. SentRight(d, << >>)
          BY <3>r, <3>2, <4>1, <4>2 DEF SentRight, HasWords
        <4> QED
          BY <3>1, <3>2, <4>d, <4>3, SentStep
      <3>3. ASSUME call' = [call EXCEPT ![t] = [c EXCEPT !.next = @ + 1]]
            PROVE  SentInv'
        <4>d. PICK d : d = [c EXCEPT !.next = @ + 1]
          OBVIOUS
        <4>1. d.step = "texts"
          BY <3>1, <4>d DEF AskOK, AskFields
        <4>2. SentRight(d, << >>)
          BY <4>1 DEF SentRight
        <4> QED
          BY <3>1, <3>3, <4>d, <4>2, SentStep
      <3>4. \/ call' = [call EXCEPT ![t] = [Answered(c, reply, default_response) EXCEPT !.next = 1]]
            \/ /\ ~ (c.next > Len(response_rules))
               /\ call' = [call EXCEPT ![t] = [Answered(c, reply, response_rules[c.next].response) EXCEPT !.next = 1]]
            \/ call' = [call EXCEPT ![t] = [c EXCEPT !.next = @ + 1]]
        BY <2>4 DEF ScanResponseRules, Continue
      <3>5. ~ (c.next > Len(response_rules)) => c.next \in 1..Len(response_rules)
        BY <3>1 DEF AskOK, LLMInv, LLMTypes
      <3>6. HasWords(default_response) /\ (c.next \in 1..Len(response_rules) => HasWords(response_rules[c.next].response))
        BY AnswersHaveWords DEF LLMInv
      <3> HIDE DEF reply
      <3> QED
        BY <3>2, <3>3, <3>4, <3>5, <3>6
    <2>5. CASE SendDelta(t)
      <3> DEFINE c == call[t]
                 step == IF c.next = Len(c.answer) THEN "reply" ELSE "stream"
      <3>d. PICK d : d = [c EXCEPT !.next = @ + 1, !.step = step]
        OBVIOUS
      <3>s. PICK s : s = sent[t] \o Delta(c.answer, c.next)
        OBVIOUS
      <3>1. AskOK(c) /\ SentRight(c, sent[t]) /\ c.step = "stream"
        BY <2>0, <2>5 DEF SendDelta
      <3>2. call' = [call EXCEPT ![t] = d] /\ sent' = [sent EXCEPT ![t] = s]
        BY <2>5, <3>d, <3>s DEF SendDelta, Continue
      <3>3. d.step = step /\ d.answer = c.answer /\ d.next = c.next + 1
        BY <3>1, <3>d DEF AskOK, AskFields
      <3>4. /\ HasWords(c.answer) /\ c.next \in 1..Len(c.answer)
            /\ sent[t] = Woven(c.answer, 2 * (c.next - 1))
        BY <3>1 DEF SentRight
      <3>5. s = IF c.next < Len(c.answer) THEN Woven(c.answer, 2 * c.next) ELSE Joined(c.answer)
        BY <3>4, <3>s, WovenNext
      <3>6. SentRight(d, s)
        <4>1. CASE c.next = Len(c.answer)
          BY <3>3, <3>4, <3>5, <4>1 DEF SentRight, HasWords
        <4>2. CASE c.next < Len(c.answer)
          <5>n. c.next \in Int /\ Len(c.answer) \in Nat /\ c.next >= 1
            BY <3>4 DEF HasWords
          <5>1. (c.next + 1) - 1 = c.next /\ c.next + 1 \in 1..Len(c.answer) /\ c.next # Len(c.answer)
            BY <5>n, <4>2
          <5>2. step = "stream"
            BY <5>1
          <5> QED
            BY <3>3, <3>4, <3>5, <4>2, <5>1, <5>2 DEF SentRight
        <4> QED
          BY <3>4, <4>1, <4>2 DEF HasWords
      <3> QED
        BY <3>2, <3>6, SentStep
    <2>6. CASE (Answer(t) \/ Refuse(t) \/ Shutdown(t)) /\ UNCHANGED <<ruleVars, sent>>
      BY <2>6, <1>1 DEF Answer, Leave, Refuse, Shutdown, Return
    <2> QED
      BY <1>4, <2>1, <2>2, <2>3, <2>4, <2>5, <2>6 DEF LLMStep
  <1>5. CASE UNCHANGED llmVars
    BY <1>5, <1>s DEF llmVars, callerVars
  <1> QED
    BY <1>3, <1>4, <1>5

\* The deltas of a stream make the whole answer, and at every moment a beginning
\* of it (llm_mock.py, stream), for answers of any length and any other calls.
THEOREM DeltasMakeTheAnswer == LLMSpec => []StreamsJoin
  <1>1. LLMInv /\ SentInv => StreamsJoin
    <2> SUFFICES ASSUME LLMInv, SentInv, NEW t \in Threads, sent[t] # << >>, call[t] # Idle,
                        call[t].step \in {"stream", "reply"}
                 PROVE  /\ IsPrefix(sent[t], Joined(call[t].answer))
                        /\ call[t].step = "reply" => sent[t] = Joined(call[t].answer)
      BY DEF StreamsJoin
    <2> DEFINE c == call[t]
               words == c.answer
    <2>1. SentRight(c, sent[t])
      BY DEF SentInv, Asks
    <2>2. CASE c.step = "stream"
      <3>1. /\ HasWords(words) /\ c.next \in 1..Len(words)
            /\ sent[t] = Woven(words, 2 * (c.next - 1))
        BY <2>1, <2>2 DEF SentRight
      <3>2. 2 * (c.next - 1) \in 0..(2 * Len(words) - 1)
        BY <3>1 DEF HasWords
      <3> QED
        BY <2>2, <3>1, <3>2, WovenPrefix
    <2>3. CASE c.step = "reply"
      <3>1. HasWords(words) /\ sent[t] = Joined(words)
        BY <2>1, <2>3 DEF SentRight
      <3>2. 2 * Len(words) - 1 \in 0..(2 * Len(words) - 1)
        BY <3>1 DEF HasWords
      <3>3. Joined(words) = Woven(words, 2 * Len(words) - 1)
        BY DEF Joined, Woven
      <3> HIDE DEF words
      <3>4. PICK m : m = 2 * Len(words) - 1
        OBVIOUS
      <3>5. IsPrefix(Woven(words, m), Joined(words))
        BY <3>1, <3>2, <3>4, WovenPrefix
      <3> QED
        BY <3>1, <3>3, <3>4, <3>5 DEF words
    <2> QED
      BY <2>2, <2>3
  <1> QED
    BY <1>1, LLMInitInv, SentInitInv, LLMStepInv, SentStepInv, PTL DEF LLMSpec

---------------------------------------------------------------------------
(* HomeAssistant: what the log says of the entities.                         *)

\* What the log keeps of a service call.
LogRecords ==
  [entity : {c.entity : c \in ServiceCalls}, service : {c.service : c \in ServiceCalls},
   level : Values, temperature : Values]

\* The steps of a call are those of its service.
StepFits(c) ==
  /\ c.step \in ServiceSteps => c.entity \in Entities
  /\ c.step = "read" => c.service = "toggle"
  /\ c.step = "temperature" => c.service = "set_temperature"
  /\ c.step \in {"state", "brightness", "full"} =>
       \/ c.service \in {"turn_on", "turn_off"}
       \/ c.service = "toggle" /\ c.new_state \in {"on", "off"}

StateRequests ==
  [step : {"sent", "get"}, request : {"state"}, authorized : {TRUE},
   entity : Entities \cup {Absent}]

HomeCallOK(c) ==
  \/ c \in ServiceRecords /\ StepFits(c)
  \/ c \in StateRequests
  \/ c \in [step : {"sent", "reply"}, authorized : {FALSE}]
  \/ DOMAIN c = {"step", "entity", "shown"} /\ c.step = "reply"
  \/ c \in [step : {"shutdown"}]

\* The call c is in the middle of writing part p of entity e.
Writes(c, e, p) ==
  c # Idle /\ c.step \in ServiceSteps /\ c.entity = e /\ PartOf(c) = p

\* The brightness that the call c makes of b.
Target(c, b) ==
  IF c.service = "turn_on" /\ c.level # Absent THEN c.level
  ELSE IF NewState(c) = "off" THEN 0 ELSE IF b = 0 THEN 255 ELSE b

\* The call c has come to its step in an entity that is at x, where the log says
\* that it will be at y.
Underway(c, x, y) ==
  /\ c.step = "read" =>
       /\ y.state = IF x.state = "on" THEN "off" ELSE "on"
       /\ y.brightness = IF x.state = "on" THEN 0
                         ELSE IF x.brightness = 0 THEN 255 ELSE x.brightness
  /\ c.step = "state" => y.state = NewState(c) /\ y.brightness = Target(c, x.brightness)
  /\ c.step = "brightness" => y.state = x.state /\ y.brightness = Target(c, x.brightness)
  /\ c.step = "full" => y.state = x.state /\ y.brightness = 255
  /\ c.step = "temperature" =>
       y.temperature = IF c.temperature = Absent THEN x.temperature ELSE c.temperature

\* A step takes the call from c to d and its entity from x to z, on the way to y; it
\* leaves the other part alone.
Leads(c, x, y, d, z) ==
  /\ d \in ServiceRecords /\ StepFits(d) /\ d.step # "sent"
  /\ d.entity = c.entity /\ PartOf(d) = PartOf(c)
  /\ z \in EntityStates
  /\ \A q \in Parts : q # PartOf(c) => Show(z, q) = Show(x, q)
  /\ Underway(c, x, y) =>
       IF d.step \in ServiceSteps THEN Underway(d, z, y)
       ELSE Show(z, PartOf(c)) = Show(y, PartOf(c))

\* A part that is not torn is written by one call at most, which brings it to what
\* the log says; between the calls it is that.  cs are the calls.
PartRight(cs, x, y, e, p) ==
  /\ \A t, u \in Threads : Writes(cs[t], e, p) /\ Writes(cs[u], e, p) => t = u
  /\ \A t \in Threads : Writes(cs[t], e, p) => Underway(cs[t], x, y)
  /\ (\A t \in Threads : ~ Writes(cs[t], e, p)) => Show(x, p) = Show(y, p)

\* The server handles one request: a client whose request it has received is served.
Received(c) == c # Idle /\ c.step # "sent"

HomeTypes ==
  /\ call = [t \in Threads |-> call[t]]
  /\ entities \in [Entities -> EntityStates]
  /\ service_log \in Seq(LogRecords)
  /\ torn \in [Entities -> SUBSET Parts]
  /\ \A t \in Threads : call[t] # Idle => HomeCallOK(call[t])
  /\ \A t \in Clients : Received(call[t]) => serving = t

PartsInv ==
  \A e \in Entities, p \in Parts :
    p \notin torn[e] => PartRight(call, entities[e], Replay(e), e, p)

HomeInv == HomeTypes /\ PartsInv

---------------------------------------------------------------------------
(* What the log makes of an entity.                                          *)

\* A service call keeps to its part of an entity.
LEMMA EffectIs ==
  ASSUME NEW x \in EntityStates, NEW c \in ServiceRecords \cup LogRecords
  PROVE  /\ Effect(x, c) \in EntityStates
         /\ PartOf(c) = "light" => Effect(x, c).temperature = x.temperature
         /\ PartOf(c) = "climate" => Effect(x, c).state = x.state
                                     /\ Effect(x, c).brightness = x.brightness
         /\ c.service \notin Services => Effect(x, c) = x
  <1>0. /\ x = [state |-> x.state, brightness |-> x.brightness, temperature |-> x.temperature]
        /\ x.state \in {"on", "off", "heat"} /\ {x.brightness, x.temperature} \subseteq Values
    BY DEF EntityStates
  <1>1. /\ x = [state |-> x.state, brightness |-> x.brightness, temperature |-> x.temperature]
        /\ x.state \in {"on", "off", "heat"} /\ {x.brightness, x.temperature} \subseteq Values
        /\ {c.level, c.temperature} \subseteq Values /\ {0, 255} \subseteq Values
    <2>1. {c.level, c.temperature} \subseteq Values
      BY DEF ServiceRecords, LogRecords
    <2>2. {0, 255} \subseteq Values
      BY DEF Values
    <2> QED
      BY <1>0, <2>1, <2>2
  <1>2. CASE c.service = "turn_on" /\ c.level = Absent
    BY <1>1, <1>2 DEF Effect, EntityStates, PartOf, Services
  <1>3. CASE c.service = "turn_on" /\ c.level # Absent
    BY <1>1, <1>3 DEF Effect, EntityStates, PartOf, Services
  <1>4. CASE c.service = "turn_off"
    BY <1>1, <1>4 DEF Effect, EntityStates, PartOf, Services
  <1>5. CASE c.service = "toggle"
    <2>1. CASE x.state = "on"
      BY <2>1, <1>1, <1>5 DEF Effect, EntityStates, PartOf, Services
    <2>2. CASE x.state # "on"
      BY <2>2, <1>1, <1>5 DEF Effect, EntityStates, PartOf, Services
    <2> QED
      BY <2>1, <2>2
  <1>6. CASE c.service = "set_temperature"
    BY <1>1, <1>6 DEF Effect, EntityStates, PartOf, Services
  <1>7. CASE c.service \notin Services
    BY <1>1, <1>7 DEF Effect, EntityStates, PartOf, Services
  <1> QED
    BY <1>2, <1>3, <1>4, <1>5, <1>6, <1>7 DEF Services

\* One call of the log: what it makes of entity e at x.
Applied(x, c, e) == IF c.entity = e THEN Effect(x, c) ELSE x
Replays(g, log, e, n) ==
  /\ g[0] = InitialEntity[e]
  /\ \A k \in 1..n : g[k] = Applied(g[k - 1], log[k], e)

\* The log can be replayed to its end.
LEMMA ReplayExists ==
  ASSUME NEW log \in Seq(LogRecords), NEW e, NEW n \in 0..Len(log)
  PROVE  \E g : g = [k \in 0..n |-> g[k]] /\ Replays(g, log, e, n)
  <1> DEFINE Good(m) == \E g : g = [k \in 0..m |-> g[k]] /\ Replays(g, log, e, m)
             Bad == {m \in 0..n : ~ Good(m)}
  <1>1. SUFFICES ASSUME Bad # {} PROVE FALSE
    OBVIOUS
  <1>2. n \in Nat /\ Bad \in SUBSET Nat
    OBVIOUS
  <1>3. PICK m \in Bad : \A k \in Bad : m <= k
    BY <1>1, <1>2, LeastNatural
  <1>4. m # 0
    <2> DEFINE g == [k \in 0..0 |-> InitialEntity[e]]
    <2>1. g = [k \in 0..0 |-> g[k]] /\ g[0] = InitialEntity[e]
      OBVIOUS
    <2> HIDE DEF g
    <2>2. Good(0)
      BY <2>1 DEF Replays
    <2> QED
      BY <2>2, <1>3
  <1>5. m \in Nat /\ m - 1 \in Nat /\ m - 1 \in 0..n /\ m - 1 \notin Bad
    BY <1>2, <1>3, <1>4
  <1>6. PICK g : g = [k \in 0..(m - 1) |-> g[k]] /\ Replays(g, log, e, m - 1)
    BY <1>5
  <1> DEFINE h == [k \in 0..m |-> IF k = m THEN Applied(g[m - 1], log[m], e) ELSE g[k]]
  <1>7. /\ h = [k \in 0..m |-> h[k]]
        /\ h[m] = Applied(g[m - 1], log[m], e)
        /\ \A k \in 0..(m - 1) : h[k] = g[k]
    BY <1>5
  <1> HIDE DEF h
  <1>8. Replays(h, log, e, m)
    <2>1. h[0] = InitialEntity[e]
      <3>1. 0 \in 0..(m - 1)
        BY <1>5
      <3> QED
        BY <3>1, <1>6, <1>7 DEF Replays
    <2>2. ASSUME NEW k \in 1..m PROVE h[k] = Applied(h[k - 1], log[k], e)
      <3>1. CASE k = m
        <4>1. m - 1 \in 0..(m - 1)
          BY <1>5
        <4> QED
          BY <4>1, <3>1, <1>7
      <3>2. CASE k # m
        <4>1. k \in 0..(m - 1) /\ k \in 1..(m - 1) /\ k - 1 \in 0..(m - 1)
          BY <3>2, <1>5
        <4> QED
          BY <4>1, <1>6, <1>7 DEF Replays
      <3> QED
        BY <3>1, <3>2
    <2> QED
      BY <2>1, <2>2 DEF Replays
  <1>9. Good(m)
    BY <1>7, <1>8
  <1> QED
    BY <1>3, <1>9

\* So the replay that the model chooses is that one.
LEMMA ReplayIs ==
  ASSUME NEW log \in Seq(LogRecords), NEW e
  PROVE  Replays(Replayed(log, e), log, e, Len(log))
  <1> DEFINE Turns(g) == [n \in 0..Len(log) |->
                IF n = 0 THEN InitialEntity[e]
                ELSE IF log[n].entity = e THEN Effect(g[n - 1], log[n]) ELSE g[n - 1]]
  <1>1. Len(log) \in Nat /\ Len(log) \in 0..Len(log)
    OBVIOUS
  <1>2. PICK g : g = [k \in 0..Len(log) |-> g[k]] /\ Replays(g, log, e, Len(log))
    BY <1>1, ReplayExists
  <1>3. g = Turns(g)
    <2>1. ASSUME NEW n \in 0..Len(log) PROVE g[n] = Turns(g)[n]
      <3>1. CASE n = 0
        BY <3>1, <1>2 DEF Replays
      <3>2. CASE n # 0
        <4>1. n \in 1..Len(log)
          BY <3>2, <1>1
        <4> QED
          BY <4>1, <3>2, <1>2 DEF Replays, Applied
      <3> QED
        BY <3>1, <3>2
    <2> QED
      BY <2>1, <1>2
  <1> DEFINE f == Replayed(log, e)
  <1>4. f = CHOOSE h : h = Turns(h)
    BY DEF Replayed
  <1>5. f = Turns(f)
    BY <1>3, <1>4
  <1> HIDE DEF f
  <1>6. f[0] = InitialEntity[e]
    BY <1>1, <1>5
  <1>7. ASSUME NEW k \in 1..Len(log) PROVE f[k] = Applied(f[k - 1], log[k], e)
    <2>1. k \in 0..Len(log) /\ k # 0
      BY <1>1
    <2> QED
      BY <2>1, <1>5 DEF Applied
  <1>8. Replays(f, log, e, Len(log))
    BY <1>6, <1>7 DEF Replays
  <1> QED
    BY <1>8 DEF f

\* Two replays of logs that agree so far agree.
LEMMA ReplaysAgree ==
  ASSUME NEW n \in Nat, NEW log, NEW longer, NEW e, NEW g, NEW h,
         Replays(g, log, e, n), Replays(h, longer, e, n),
         \A k \in 1..n : longer[k] = log[k]
  PROVE  g[n] = h[n]
  <1> DEFINE Bad == {m \in 0..n : g[m] # h[m]}
  <1>1. SUFFICES ASSUME Bad # {} PROVE FALSE
    OBVIOUS
  <1>2. Bad \in SUBSET Nat
    OBVIOUS
  <1>3. PICK m \in Bad : \A k \in Bad : m <= k
    BY <1>1, <1>2, LeastNatural
  <1>4. m # 0
    BY <1>3 DEF Replays
  <1>5. m \in 1..n /\ m - 1 \in 0..n /\ m - 1 \notin Bad
    BY <1>3, <1>4
  <1>6. g[m - 1] = h[m - 1]
    BY <1>5
  <1>7. g[m] = h[m]
    BY <1>5, <1>6 DEF Replays
  <1> QED
    BY <1>3, <1>7

\* One more call in the log takes effect on what the others have made.
LEMMA ReplayOneMore ==
  ASSUME NEW log \in Seq(LogRecords), NEW c \in LogRecords, NEW e
  PROVE  Replayed(Append(log, c), e)[Len(log) + 1] = Applied(Replayed(log, e)[Len(log)], c, e)
  <1> DEFINE longer == Append(log, c)
             n == Len(log)
  <1>1. /\ longer \in Seq(LogRecords) /\ Len(longer) = n + 1 /\ n \in Nat
        /\ longer[n + 1] = c /\ \A k \in 1..n : longer[k] = log[k]
    OBVIOUS
  <1> HIDE DEF longer, n
  <1> DEFINE g == Replayed(log, e)
             h == Replayed(longer, e)
  <1>2. Replays(g, log, e, n)
    BY ReplayIs DEF n
  <1>3. Replays(h, longer, e, n + 1)
    BY <1>1, ReplayIs
  <1> HIDE DEF g, h
  <1>4. Replays(h, longer, e, n)
    BY <1>1, <1>3 DEF Replays
  <1>5. g[n] = h[n]
    BY <1>1, <1>2, <1>4, ReplaysAgree
  <1>6. h[n + 1] = Applied(h[n], c, e)
    <2>1. n + 1 \in 1..(n + 1) /\ (n + 1) - 1 = n
      BY <1>1
    <2> QED
      BY <2>1, <1>1, <1>3 DEF Replays
  <1> QED
    BY <1>5, <1>6 DEF g, h, longer, n

\* The log explains an entity by one of its states.
LEMMA ReplayTyped ==
  ASSUME NEW log \in Seq(LogRecords), NEW e \in Entities
  PROVE  Replayed(log, e)[Len(log)] \in EntityStates
  <1> DEFINE g == Replayed(log, e)
             Bad == {m \in 0..Len(log) : g[m] \notin EntityStates}
  <1>1. Replays(g, log, e, Len(log)) /\ Len(log) \in Nat
    BY ReplayIs
  <1> HIDE DEF g
  <1>2. SUFFICES ASSUME Bad # {} PROVE FALSE
    BY <1>1 DEF g
  <1>3. Bad \in SUBSET Nat
    BY <1>1
  <1>4. PICK m \in Bad : \A k \in Bad : m <= k
    BY <1>2, <1>3, LeastNatural
  <1>5. m # 0
    BY <1>1, <1>4, HomeAssistantConstants DEF Replays
  <1>6. m \in 1..Len(log) /\ m - 1 \in 0..Len(log) /\ m - 1 \notin Bad
    BY <1>1, <1>4, <1>5
  <1>7. g[m - 1] \in EntityStates /\ log[m] \in LogRecords
    BY <1>6
  <1>8. Applied(g[m - 1], log[m], e) \in EntityStates
    BY <1>7, EffectIs DEF Applied
  <1> QED
    BY <1>1, <1>4, <1>6, <1>8 DEF Replays

---------------------------------------------------------------------------
(* The steps of a call in its entity.                                        *)

\* A call at another of its steps.
LEMMA ServiceStep ==
  ASSUME NEW c \in ServiceRecords, NEW step \in {"sent", "append", "done"} \cup ServiceSteps
  PROVE  /\ [c EXCEPT !.step = step] \in ServiceRecords
         /\ [c EXCEPT !.step = step].step = step
         /\ [c EXCEPT !.step = step].entity = c.entity
         /\ [c EXCEPT !.step = step].service = c.service
         /\ [c EXCEPT !.step = step].level = c.level
         /\ [c EXCEPT !.step = step].temperature = c.temperature
         /\ [c EXCEPT !.step = step].new_state = c.new_state
         /\ PartOf([c EXCEPT !.step = step]) = PartOf(c)
         /\ NewState([c EXCEPT !.step = step]) = NewState(c)
         /\ \A b : Target([c EXCEPT !.step = step], b) = Target(c, b)
  <1>1. DOMAIN c = {"step", "request", "authorized", "entity", "service", "level",
                    "temperature", "new_state"}
    BY DEF ServiceRecords
  <1> DEFINE d == [c EXCEPT !.step = step]
  <1>2. d \in ServiceRecords
    BY DEF ServiceRecords
  <1>3. /\ d.step = step /\ d.entity = c.entity /\ d.service = c.service /\ d.level = c.level
        /\ d.temperature = c.temperature /\ d.new_state = c.new_state
    BY <1>1
  <1> HIDE DEF d
  <1>4. PartOf(d) = PartOf(c) /\ NewState(d) = NewState(c)
    BY <1>3 DEF PartOf, NewState
  <1>5. \A b : Target(d, b) = Target(c, b)
    BY <1>3, <1>4 DEF Target
  <1> QED
    BY <1>2, <1>3, <1>4, <1>5 DEF d

\* An entity with one key replaced.
LEMMA KeyReplaced ==
  ASSUME NEW x \in EntityStates
  PROVE  /\ \A s \in {"on", "off"} :
              /\ [x EXCEPT !.state = s] \in EntityStates
              /\ [x EXCEPT !.state = s].state = s
              /\ [x EXCEPT !.state = s].brightness = x.brightness
              /\ [x EXCEPT !.state = s].temperature = x.temperature
         /\ \A b \in Values :
              /\ [x EXCEPT !.brightness = b] \in EntityStates
              /\ [x EXCEPT !.brightness = b].brightness = b
              /\ [x EXCEPT !.brightness = b].state = x.state
              /\ [x EXCEPT !.brightness = b].temperature = x.temperature
         /\ \A v \in Values :
              /\ [x EXCEPT !.temperature = v] \in EntityStates
              /\ [x EXCEPT !.temperature = v].temperature = v
              /\ [x EXCEPT !.temperature = v].state = x.state
              /\ [x EXCEPT !.temperature = v].brightness = x.brightness
  BY DEF EntityStates

\* A call that begins: the log says already where it leads.
LEMMA StartUnderway ==
  ASSUME NEW x \in EntityStates, NEW y \in EntityStates, NEW c \in ServiceRecords,
         FirstStep(c) # "done", Definite(c) \/ Show(x, PartOf(c)) = Show(y, PartOf(c))
  PROVE  /\ c.entity \in Entities /\ FirstStep(c) \in ServiceSteps
         /\ StepFits([c EXCEPT !.step = FirstStep(c)])
         /\ Underway([c EXCEPT !.step = FirstStep(c)], x, Effect(y, c))
  <1>1. c.entity \in Entities /\ c.service \in Services
    BY DEF FirstStep
  <1>2. FirstStep(c) = IF c.service \in {"turn_on", "turn_off"} THEN "state"
                       ELSE IF c.service = "toggle" THEN "read" ELSE "temperature"
    BY <1>1 DEF FirstStep, Services
  <1>3. FirstStep(c) \in ServiceSteps
    BY <1>2 DEF ServiceSteps
  <1> DEFINE d == [c EXCEPT !.step = FirstStep(c)]
  <1>4. /\ d.step = FirstStep(c) /\ d.entity = c.entity /\ d.service = c.service
        /\ d.temperature = c.temperature /\ d.new_state = c.new_state
        /\ NewState(d) = NewState(c) /\ \A b : Target(d, b) = Target(c, b)
    BY <1>3, ServiceStep
  <1> HIDE DEF d
  <1>5. StepFits(d)
    BY <1>1, <1>2, <1>4 DEF StepFits, Services
  <1>6. DOMAIN y = {"state", "brightness", "temperature"}
    BY DEF EntityStates
  <1>s. SUFFICES Underway(d, x, Effect(y, c))
    BY <1>1, <1>3, <1>5 DEF d
  <1>7. CASE c.service = "turn_on"
    <2>1. FirstStep(c) = "state" /\ NewState(c) = "on" /\ PartOf(c) = "light"
      BY <1>7, <1>2 DEF NewState, PartOf
    <2>2. CASE c.level = Absent
      <3>1. x.brightness = y.brightness
        BY <2>1, <2>2, <1>7 DEF Definite, Show
      <3>2. Effect(y, c).state = "on" /\ Effect(y, c).brightness = IF y.brightness = 0 THEN 255 ELSE y.brightness
        BY <2>2, <1>7, <1>6 DEF Effect
      <3> QED
        BY <3>1, <3>2, <2>1, <2>2, <1>4, <1>7 DEF Underway, Target
    <2>3. CASE c.level # Absent
      <3>1. Effect(y, c).state = "on" /\ Effect(y, c).brightness = c.level
        BY <2>3, <1>7, <1>6 DEF Effect
      <3> QED
        BY <3>1, <2>1, <2>3, <1>4, <1>7 DEF Underway, Target
    <2> QED
      BY <2>2, <2>3
  <1>8. CASE c.service = "turn_off"
    <2>1. FirstStep(c) = "state" /\ NewState(c) = "off"
      BY <1>8, <1>2 DEF NewState
    <2>2. Effect(y, c).state = "off" /\ Effect(y, c).brightness = 0
      BY <1>8, <1>6 DEF Effect
    <2> QED
      BY <2>1, <2>2, <1>4, <1>8 DEF Underway, Target
  <1>9. CASE c.service = "toggle"
    <2>1. FirstStep(c) = "read" /\ PartOf(c) = "light" /\ ~ Definite(c)
      BY <1>9, <1>2 DEF PartOf, Definite
    <2>2. x.state = y.state /\ x.brightness = y.brightness
      BY <2>1 DEF Show
    <2>3. CASE y.state = "on"
      <3>1. Effect(y, c).state = "off" /\ Effect(y, c).brightness = 0
        BY <2>3, <1>9, <1>6 DEF Effect
      <3> QED
        BY <3>1, <2>1, <2>2, <2>3, <1>4 DEF Underway
    <2>4. CASE y.state # "on"
      <3>1. Effect(y, c).state = "on" /\ Effect(y, c).brightness = IF y.brightness = 0 THEN 255 ELSE y.brightness
        BY <2>4, <1>9, <1>6 DEF Effect
      <3> QED
        BY <3>1, <2>1, <2>2, <2>4, <1>4 DEF Underway
    <2> QED
      BY <2>3, <2>4
  <1>10. CASE c.service = "set_temperature"
    <2>1. FirstStep(c) = "temperature" /\ PartOf(c) = "climate"
      BY <1>10, <1>2 DEF PartOf
    <2>2. Effect(y, c).temperature = IF c.temperature = Absent THEN y.temperature ELSE c.temperature
      BY <1>10, <1>6 DEF Effect
    <2>3. c.temperature = Absent => x.temperature = y.temperature
      BY <2>1, <1>10 DEF Definite, Show
    <2> QED
      BY <2>1, <2>2, <2>3, <1>4 DEF Underway
  <1> QED
    BY <1>1, <1>7, <1>8, <1>9, <1>10 DEF Services

\* What the services are at their steps.
LEMMA StepServices ==
  ASSUME NEW c \in ServiceRecords, StepFits(c)
  PROVE  /\ c.step \in ServiceSteps => c.entity \in Entities
         /\ c.step = "read" => c.service = "toggle" /\ PartOf(c) = "light"
         /\ c.step = "temperature" => PartOf(c) = "climate"
         /\ c.step \in {"state", "brightness", "full"} =>
              /\ PartOf(c) = "light" /\ NewState(c) \in {"on", "off"}
              /\ StepFits([c EXCEPT !.step = "brightness"])
              /\ StepFits([c EXCEPT !.step = "full"])
         /\ StepFits([c EXCEPT !.step = "done"])
  <1>1. \A step \in {"brightness", "full", "done"} :
          /\ [c EXCEPT !.step = step].step = step
          /\ [c EXCEPT !.step = step].entity = c.entity
          /\ [c EXCEPT !.step = step].service = c.service
          /\ [c EXCEPT !.step = step].new_state = c.new_state
    BY DEF ServiceRecords
  <1>2. /\ c.step \in ServiceSteps => c.entity \in Entities
        /\ c.step = "read" => c.service = "toggle" /\ PartOf(c) = "light"
        /\ c.step = "temperature" => PartOf(c) = "climate"
    BY DEF StepFits, PartOf
  <1>3. StepFits([c EXCEPT !.step = "done"])
    BY <1>1 DEF StepFits, ServiceSteps
  <1>4. ASSUME c.step \in {"state", "brightness", "full"}
        PROVE  /\ PartOf(c) = "light" /\ NewState(c) \in {"on", "off"}
               /\ StepFits([c EXCEPT !.step = "brightness"])
               /\ StepFits([c EXCEPT !.step = "full"])
    <2>1. /\ \/ c.service \in {"turn_on", "turn_off"}
             \/ c.service = "toggle" /\ c.new_state \in {"on", "off"}
          /\ c.entity \in Entities
      BY <1>4 DEF StepFits, ServiceSteps
    <2>2. PartOf(c) = "light" /\ NewState(c) \in {"on", "off"}
      BY <2>1 DEF PartOf, NewState
    <2>3. \A step \in {"brightness", "full"} : StepFits([c EXCEPT !.step = step])
      BY <1>1, <2>1 DEF StepFits
    <2> QED
      BY <2>2, <2>3
  <1> QED
    BY <1>2, <1>3, <1>4

\* toggle reads the state.
LEMMA ReadLeads ==
  ASSUME NEW x \in EntityStates, NEW y, NEW c \in ServiceRecords, StepFits(c), c.step = "read",
         NEW s, s = IF x.state = "on" THEN "off" ELSE "on"
  PROVE  Leads(c, x, y, [c EXCEPT !.step = "state", !.new_state = s], x)
  <1> DEFINE d == [c EXCEPT !.step = "state", !.new_state = s]
  <1>1. d \in ServiceRecords
    BY DEF ServiceRecords, ServiceSteps
  <1>2. d.step = "state" /\ d.entity = c.entity /\ d.service = c.service /\ d.new_state = s
    BY DEF ServiceRecords
  <1>3. c.service = "toggle" /\ c.entity \in Entities
    BY DEF StepFits, ServiceSteps
  <1> HIDE DEF d
  <1>4. StepFits(d) /\ PartOf(d) = PartOf(c)
    BY <1>2, <1>3 DEF StepFits, PartOf
  <1>5. NewState(d) = s
    BY <1>2, <1>3 DEF NewState
  <1>6. Underway(c, x, y) => y.state = s /\ y.brightness = Target(d, x.brightness)
    BY <1>2, <1>3, <1>5 DEF Underway, Target
  <1>7. Underway(c, x, y) => Underway(d, x, y)
    BY <1>2, <1>5, <1>6 DEF Underway
  <1> QED
    BY <1>1, <1>2, <1>4, <1>7 DEF Leads, d, ServiceSteps

\* The state is written.
LEMMA StateLeads ==
  ASSUME NEW x \in EntityStates, NEW y, NEW c \in ServiceRecords, StepFits(c), c.step = "state"
  PROVE  Leads(c, x, y, [c EXCEPT !.step = "brightness"], [x EXCEPT !.state = NewState(c)])
  <1> DEFINE d == [c EXCEPT !.step = "brightness"]
             z == [x EXCEPT !.state = NewState(c)]
  <1>1. /\ d \in ServiceRecords
        /\ d.step = "brightness" /\ d.entity = c.entity /\ d.service = c.service
        /\ PartOf(d) = PartOf(c) /\ \A b : Target(d, b) = Target(c, b)
    BY ServiceStep DEF ServiceSteps
  <1>2. NewState(c) \in {"on", "off"} /\ PartOf(c) = "light" /\ StepFits(d)
    BY StepServices
  <1>3. z \in EntityStates /\ z.state = NewState(c) /\ z.brightness = x.brightness
        /\ z.temperature = x.temperature
    BY <1>2, KeyReplaced
  <1> HIDE DEF d, z
  <1>4. Underway(c, x, y) => Underway(d, z, y)
    BY <1>1, <1>3 DEF Underway
  <1>5. \A q \in Parts : q # PartOf(c) => Show(z, q) = Show(x, q)
    BY <1>2, <1>3 DEF Parts, Show
  <1>6. Leads(c, x, y, d, z)
    BY <1>1, <1>2, <1>3, <1>4, <1>5 DEF Leads, ServiceSteps
  <1> QED
    BY <1>6 DEF d, z

\* The brightness is written, or read and found to be 0.
LEMMA BrightnessLeads ==
  ASSUME NEW x \in EntityStates, NEW y, NEW c \in ServiceRecords, StepFits(c), c.step = "brightness",
         NEW z, NEW next,
         z = [x EXCEPT !.brightness = IF c.service = "turn_on" /\ c.level # Absent THEN c.level
                                      ELSE IF NewState(c) = "off" THEN 0 ELSE x.brightness],
         next = IF ~ (c.service = "turn_on" /\ c.level # Absent) /\ ~ (NewState(c) = "off")
                   /\ x.brightness = 0 THEN "full" ELSE "done"
  PROVE  Leads(c, x, y, [c EXCEPT !.step = next], z)
  <1> DEFINE b == IF c.service = "turn_on" /\ c.level # Absent THEN c.level
                  ELSE IF NewState(c) = "off" THEN 0 ELSE x.brightness
             d == [c EXCEPT !.step = next]
  <1>1. c.level \in Values /\ x.brightness \in Values /\ 0 \in Values
    BY DEF ServiceRecords, EntityStates, Values
  <1>2. b \in Values /\ z = [x EXCEPT !.brightness = b]
    BY <1>1
  <1>3. b = IF next = "full" THEN 0 ELSE Target(c, x.brightness)
    BY DEF Target
  <1>4. next = "full" => Target(c, x.brightness) = 255
    BY DEF Target
  <1> HIDE DEF b
  <1>5. z \in EntityStates /\ z.temperature = x.temperature /\ z.state = x.state /\ z.brightness = b
    <2>1. /\ [x EXCEPT !.brightness = b] \in EntityStates
          /\ [x EXCEPT !.brightness = b].brightness = b
          /\ [x EXCEPT !.brightness = b].state = x.state
          /\ [x EXCEPT !.brightness = b].temperature = x.temperature
      BY <1>2, KeyReplaced
    <2> QED
      BY <1>2, <2>1
  <1>6. next \in {"full", "done"} /\ "full" \in ServiceSteps /\ "done" \notin ServiceSteps
    BY DEF ServiceSteps
  <1>7. /\ d \in ServiceRecords /\ d.step = next /\ d.entity = c.entity /\ PartOf(d) = PartOf(c)
    BY <1>6, ServiceStep
  <1>8. StepFits(d) /\ PartOf(c) = "light"
    BY <1>6, StepServices
  <1> HIDE DEF d
  <1>9. Underway(c, x, y) => y.state = x.state /\ y.brightness = Target(c, x.brightness)
    BY DEF Underway
  <1>10. Underway(c, x, y) => IF next = "full" THEN Underway(d, z, y) ELSE Show(z, "light") = Show(y, "light")
    <2>1. CASE next = "full"
      BY <2>1, <1>4, <1>5, <1>7, <1>9 DEF Underway
    <2>2. CASE next # "full"
      BY <2>2, <1>3, <1>5, <1>9 DEF Show
    <2> QED
      BY <2>1, <2>2
  <1>11. \A q \in Parts : q # PartOf(c) => Show(z, q) = Show(x, q)
    BY <1>5, <1>8 DEF Parts, Show
  <1>12. Leads(c, x, y, d, z)
    BY <1>5, <1>6, <1>7, <1>8, <1>10, <1>11 DEF Leads
  <1> QED
    BY <1>12 DEF d

\* The brightness is found to be 0 when turned on, and written in full.
LEMMA FullLeads ==
  ASSUME NEW x \in EntityStates, NEW y, NEW c \in ServiceRecords, StepFits(c), c.step = "full",
         NEW z, z = [x EXCEPT !.brightness = 255]
  PROVE  Leads(c, x, y, [c EXCEPT !.step = "done"], z)
  <1> DEFINE d == [c EXCEPT !.step = "done"]
  <1>1. d \in ServiceRecords /\ d.step = "done" /\ d.entity = c.entity /\ PartOf(d) = PartOf(c)
    BY ServiceStep
  <1>2. PartOf(c) = "light" /\ StepFits(d)
    BY StepServices
  <1>3. 255 \in Values
    BY DEF Values
  <1>4. z \in EntityStates /\ z.state = x.state /\ z.brightness = 255 /\ z.temperature = x.temperature
    <2>1. /\ [x EXCEPT !.brightness = 255] \in EntityStates
          /\ [x EXCEPT !.brightness = 255].brightness = 255
          /\ [x EXCEPT !.brightness = 255].state = x.state
          /\ [x EXCEPT !.brightness = 255].temperature = x.temperature
      BY <1>3, KeyReplaced
    <2> QED
      BY <2>1
  <1> HIDE DEF d
  <1>5. Underway(c, x, y) => Show(z, PartOf(c)) = Show(y, PartOf(c))
    BY <1>2, <1>4 DEF Underway, Show
  <1>6. \A q \in Parts : q # PartOf(c) => Show(z, q) = Show(x, q)
    BY <1>2, <1>4 DEF Parts, Show
  <1>7. Leads(c, x, y, d, z)
    BY <1>1, <1>2, <1>4, <1>5, <1>6 DEF Leads, ServiceSteps
  <1> QED
    BY <1>7 DEF d

\* The temperature is set, if the call has one.
LEMMA TemperatureLeads ==
  ASSUME NEW x \in EntityStates, NEW y, NEW c \in ServiceRecords, StepFits(c),
         c.step = "temperature", NEW z,
         z = [x EXCEPT !.temperature =
                IF c.temperature = Absent THEN x.temperature ELSE c.temperature]
  PROVE  Leads(c, x, y, [c EXCEPT !.step = "done"], z)
  <1> DEFINE v == IF c.temperature = Absent THEN x.temperature ELSE c.temperature
             d == [c EXCEPT !.step = "done"]
  <1>1. d \in ServiceRecords /\ d.step = "done" /\ d.entity = c.entity /\ PartOf(d) = PartOf(c)
    BY ServiceStep
  <1>2. PartOf(c) = "climate" /\ StepFits(d)
    BY StepServices
  <1>3. v \in Values /\ z = [x EXCEPT !.temperature = v]
    BY DEF ServiceRecords, EntityStates
  <1>4. Underway(c, x, y) => y.temperature = v
    BY DEF Underway
  <1> HIDE DEF d, v
  <1>5. z \in EntityStates /\ z.state = x.state /\ z.brightness = x.brightness /\ z.temperature = v
    <2>1. /\ [x EXCEPT !.temperature = v] \in EntityStates
          /\ [x EXCEPT !.temperature = v].temperature = v
          /\ [x EXCEPT !.temperature = v].state = x.state
          /\ [x EXCEPT !.temperature = v].brightness = x.brightness
      BY <1>3, KeyReplaced
    <2> QED
      BY <1>3, <2>1
  <1>6. Underway(c, x, y) => Show(z, PartOf(c)) = Show(y, PartOf(c))
    BY <1>2, <1>4, <1>5 DEF Show
  <1>7. \A q \in Parts : q # PartOf(c) => Show(z, q) = Show(x, q)
    BY <1>2, <1>5 DEF Parts, Show
  <1>8. Leads(c, x, y, d, z)
    BY <1>1, <1>2, <1>5, <1>6, <1>7 DEF Leads, ServiceSteps
  <1> QED
    BY <1>8 DEF d

---------------------------------------------------------------------------
(* The parts of the entities.                                                *)

\* There are two parts.
LEMMA PartsAre ==
  ASSUME NEW c
  PROVE  PartOf(c) \in Parts /\ Parts = {"light", "climate"}
  BY DEF PartOf, Parts

\* A call that writes is a service call.
LEMMA WritersServe ==
  ASSUME HomeTypes, NEW t \in Threads, NEW e, NEW p, Writes(call[t], e, p)
  PROVE  /\ call[t] \in ServiceRecords /\ StepFits(call[t]) /\ e \in Entities
         /\ call[t].step = "temperature" <=> p = "climate"
  <1>1. HomeCallOK(call[t]) /\ call[t].step \in ServiceSteps /\ call[t].entity = e
    BY DEF HomeTypes, Writes
  <1>2. call[t] \in ServiceRecords /\ StepFits(call[t])
    BY <1>1 DEF HomeCallOK, StateRequests, ServiceSteps
  <1> QED
    BY <1>1, <1>2 DEF Writes, StepFits, PartOf, ServiceSteps

\* A part that no step of its own touches: the same calls write it, the entity and
\* the log show the same of it.
LEMMA PartStays ==
  ASSUME HomeTypes, NEW e \in Entities, NEW p \in Parts, NEW x, NEW y, NEW z, NEW w, NEW cs,
         PartRight(call, x, y, e, p), Show(z, p) = Show(x, p), Show(w, p) = Show(y, p),
         \A u \in Threads : Writes(cs[u], e, p) => cs[u] = call[u],
         \A u \in Threads : Writes(call[u], e, p) => cs[u] = call[u]
  PROVE  PartRight(cs, z, w, e, p)
  <1>1. \A u \in Threads : Writes(cs[u], e, p) <=> Writes(call[u], e, p)
    OBVIOUS
  <1>2. ASSUME NEW u \in Threads, Writes(cs[u], e, p) PROVE Underway(cs[u], z, w)
    <2>1. cs[u] = call[u] /\ Writes(call[u], e, p) /\ Underway(call[u], x, y)
      BY <1>2 DEF PartRight
    <2>2. call[u].step = "temperature" <=> p = "climate"
      BY <2>1, WritersServe
    <2>3. CASE p = "light"
      <3>1. z.state = x.state /\ z.brightness = x.brightness /\ w.state = y.state
            /\ w.brightness = y.brightness
        BY <2>3 DEF Show
      <3>2. call[u].step # "temperature"
        BY <2>2, <2>3
      <3> QED
        BY <3>1, <3>2, <2>1 DEF Underway
    <2>4. CASE p = "climate"
      <3>1. z.temperature = x.temperature /\ w.temperature = y.temperature
        BY <2>4 DEF Show
      <3>2. call[u].step = "temperature"
        BY <2>2, <2>4
      <3> QED
        BY <3>1, <3>2, <2>1 DEF Underway
    <2> QED
      BY <2>3, <2>4 DEF Parts
  <1>3. (\A u \in Threads : ~ Writes(cs[u], e, p)) => Show(z, p) = Show(w, p)
    BY <1>1 DEF PartRight
  <1> QED
    BY <1>1, <1>2, <1>3 DEF PartRight

\* The call that writes the part goes on, or has written it.
LEMMA PartMoves ==
  ASSUME NEW e \in Entities, NEW p \in Parts, NEW x, NEW y, NEW z, NEW cs, NEW t \in Threads,
         PartRight(call, x, y, e, p), Writes(call[t], e, p),
         \A u \in Threads : u # t => cs[u] = call[u],
         IF Writes(cs[t], e, p) THEN Underway(cs[t], z, y) ELSE Show(z, p) = Show(y, p)
  PROVE  PartRight(cs, z, y, e, p)
  <1>1. \A u \in Threads : u # t => ~ Writes(cs[u], e, p)
    BY DEF PartRight
  <1> QED
    BY <1>1 DEF PartRight

---------------------------------------------------------------------------
(* The threads.                                                              *)

\* The calls after a step of t.
LEMMA HomeMoved ==
  ASSUME HomeTypes, NEW t \in Threads, NEW c, call' = [call EXCEPT ![t] = c]
  PROVE  /\ call' = [u \in Threads |-> call'[u]] /\ call'[t] = c
         /\ \A u \in Threads : u # t => call'[u] = call[u]
  BY DEF HomeTypes

\* A call goes to its next step.
LEMMA HomeGoto ==
  ASSUME HomeTypes, NEW t \in Threads, NEW step, call' = [call EXCEPT ![t].step = step]
  PROVE  call' = [call EXCEPT ![t] = [call[t] EXCEPT !.step = step]]
  BY DEF HomeTypes

\* The types after a step of a thread.
LEMMA HomeTypesMove ==
  ASSUME HomeTypes, NEW t \in Threads, NEW c, call' = [call EXCEPT ![t] = c],
         c # Idle => HomeCallOK(c),
         entities' \in [Entities -> EntityStates], service_log' \in Seq(LogRecords),
         torn' \in [Entities -> SUBSET Parts],
         t \in Clients /\ Received(c) => serving' = t,
         serving' = serving \/ \A u \in Clients : u # t => ~ Received(call[u])
  PROVE  HomeTypes'
  <1>1. /\ call' = [u \in Threads |-> call'[u]] /\ call'[t] = c
        /\ \A u \in Threads : u # t => call'[u] = call[u]
    BY HomeMoved
  <1>2. \A u \in Threads : call'[u] # Idle => HomeCallOK(call'[u])
    BY <1>1 DEF HomeTypes
  <1>3. ASSUME NEW u \in Clients, Received(call'[u]) PROVE serving' = u
    <2>1. u \in Threads
      BY ServerConstants
    <2>2. CASE u = t
      BY <2>2, <1>1, <1>3
    <2>3. CASE u # t
      BY <2>1, <2>3, <1>1, <1>3 DEF HomeTypes
    <2> QED
      BY <2>2, <2>3
  <1> QED
    BY <1>1, <1>2, <1>3 DEF HomeTypes, HomeCallOK, Received

\* A step in which no entity is written.
LEMMA HomeQuiet ==
  ASSUME HomeTypes, PartsInv, NEW t \in Threads, NEW c, call' = [call EXCEPT ![t] = c],
         UNCHANGED entityVars,
         call[t] # Idle => call[t].step \notin ServiceSteps,
         c # Idle => c.step \notin ServiceSteps
  PROVE  PartsInv'
  <1>1. /\ call' = [u \in Threads |-> call'[u]] /\ call'[t] = c
        /\ \A u \in Threads : u # t => call'[u] = call[u]
    BY HomeMoved
  <1>2. entities' = entities /\ service_log' = service_log /\ torn' = torn
    BY DEF entityVars
  <1>3. ASSUME NEW e \in Entities, NEW p \in Parts, p \notin torn'[e]
        PROVE  PartRight(call', entities'[e], Replay(e)', e, p)
    <2>1. Replay(e)' = Replay(e)
      BY <1>2 DEF Replay
    <2>2. PartRight(call, entities[e], Replay(e), e, p)
      BY <1>2, <1>3 DEF PartsInv
    <2>3. \A u \in Threads : Writes(call'[u], e, p) => call'[u] = call[u]
      BY <1>1 DEF Writes
    <2>4. \A u \in Threads : Writes(call[u], e, p) => call'[u] = call[u]
      BY <1>1 DEF Writes
    <2> DEFINE x == entities[e]
               y == Replay(e)
               cs == call'
    <2>5. PartRight(call, x, y, e, p) /\ Show(x, p) = Show(x, p) /\ Show(y, p) = Show(y, p)
      BY <2>2
    <2> HIDE DEF x, y, cs
    <2>6. /\ \A u \in Threads : Writes(cs[u], e, p) => cs[u] = call[u]
          /\ \A u \in Threads : Writes(call[u], e, p) => cs[u] = call[u]
      BY <2>3, <2>4 DEF cs
    <2>7. PartRight(cs, x, y, e, p)
      BY <2>5, <2>6, PartStays
    <2> QED
      BY <2>1, <2>7, <1>2 DEF x, y, cs
  <1> QED
    BY <1>3 DEF PartsInv, PartRight, Writes

\* A step of a call in its entity, which it leaves at z.
LEMMA HomeWrites ==
  ASSUME HomeTypes, PartsInv, NEW t \in Threads, NEW e, NEW p, Writes(call[t], e, p),
         NEW d, NEW z, Leads(call[t], entities[e], Replay(e), d, z),
         entities' = [entities EXCEPT ![e] = z], call' = [call EXCEPT ![t] = d],
         service_log' = service_log, torn' = torn
  PROVE  PartsInv'
  <1>1. /\ call' = [u \in Threads |-> call'[u]] /\ call'[t] = d
        /\ \A u \in Threads : u # t => call'[u] = call[u]
    BY HomeMoved
  <1>0. call[t].entity = e /\ PartOf(call[t]) = p
    BY DEF Writes
  <1>l. /\ d \in ServiceRecords /\ d.entity = e /\ PartOf(d) = p
        /\ \A q \in Parts : q # p => Show(z, q) = Show(entities[e], q)
        /\ Underway(call[t], entities[e], Replay(e)) =>
             IF d.step \in ServiceSteps THEN Underway(d, z, Replay(e))
             ELSE Show(z, p) = Show(Replay(e), p)
    BY <1>0 DEF Leads
  <1>2. e \in Entities /\ d # Idle /\ p \in Parts
    BY <1>0, <1>l, WritersServe, HomeAssistantConstants, PartsAre
  <1>3. entities'[e] = z /\ \A f \in Entities : f # e => entities'[f] = entities[f]
    BY <1>2 DEF HomeTypes
  <1>4. \A f, q : Writes(d, f, q) => f = e /\ q = p
    BY <1>l DEF Writes
  <1>5. \A f, q : Writes(call[t], f, q) => f = e /\ q = p
    BY DEF Writes
  <1>6. ASSUME NEW f \in Entities, NEW q \in Parts, q \notin torn'[f]
        PROVE  PartRight(call', entities'[f], Replay(f)', f, q)
    <2> DEFINE x == entities[f]
               y == Replay(f)
               w == entities'[f]
               cs == call'
    <2>1. Replay(f)' = y
      BY DEF Replay
    <2>2. PartRight(call, x, y, f, q)
      BY <1>6 DEF PartsInv
    <2>3. cs[t] = d /\ \A u \in Threads : u # t => cs[u] = call[u]
      BY <1>1
    <2>4. CASE f = e /\ q = p
      <3>1. w = z /\ Writes(call[t], f, q)
        BY <2>4, <1>3
      <3>2. Writes(cs[t], f, q) <=> d.step \in ServiceSteps
        BY <2>3, <2>4, <1>2, <1>l DEF Writes
      <3>3. Underway(call[t], x, y)
        BY <3>1, <2>2 DEF PartRight
      <3>4. IF Writes(cs[t], f, q) THEN Underway(cs[t], w, y) ELSE Show(w, q) = Show(y, q)
        BY <3>1, <3>2, <3>3, <2>3, <2>4, <1>l
      <3> HIDE DEF x, y, w, cs
      <3>5. PartRight(cs, w, y, f, q)
        BY <3>1, <3>4, <2>2, <2>3, PartMoves
      <3> QED
        BY <3>5, <2>1 DEF w, cs
    <2>5. CASE f # e \/ q # p
      <3>1. Show(w, q) = Show(x, q) /\ Show(y, q) = Show(y, q)
        BY <2>5, <1>3, <1>l
      <3>2. \A u \in Threads : Writes(cs[u], f, q) => cs[u] = call[u]
        BY <2>3, <2>5, <1>4
      <3>3. \A u \in Threads : Writes(call[u], f, q) => cs[u] = call[u]
        BY <2>3, <2>5, <1>5
      <3> HIDE DEF x, y, w, cs
      <3>4. PartRight(cs, w, y, f, q)
        BY <3>1, <3>2, <3>3, <2>2, PartStays
      <3> QED
        BY <3>4, <2>1 DEF w, cs
    <2> QED
      BY <2>4, <2>5
  <1> QED
    BY <1>6 DEF PartsInv, PartRight, Writes, Underway

\* The log keeps of a call all that its effect depends on.
LEMMA EffectLogged ==
  ASSUME NEW c \in ServiceRecords
  PROVE  /\ Logged(c) \in LogRecords /\ Logged(c).entity = c.entity
         /\ Logged(c).service = c.service
         /\ PartOf(Logged(c)) = PartOf(c) /\ \A x : Effect(x, Logged(c)) = Effect(x, c)
  <1>1. /\ Logged(c).entity = c.entity /\ Logged(c).service = c.service
        /\ Logged(c).level = c.level /\ Logged(c).temperature = c.temperature
    BY DEF Logged
  <1>2. Logged(c) \in LogRecords
    BY DEF Logged, LogRecords, ServiceRecords
  <1> QED
    BY <1>1, <1>2 DEF PartOf, Effect

\* The log grows by a call: what it makes of each entity.
LEMMA ReplayGrows ==
  ASSUME HomeTypes, NEW c \in ServiceRecords, service_log' = Append(service_log, Logged(c)),
         NEW e \in Entities
  PROVE  /\ Replay(e) \in EntityStates
         /\ Replay(e)' = IF c.entity = e THEN Effect(Replay(e), c) ELSE Replay(e)
  <1>1. service_log \in Seq(LogRecords) /\ Logged(c) \in LogRecords
    BY EffectLogged DEF HomeTypes
  <1>2. Replay(e) \in EntityStates
    BY <1>1, ReplayTyped DEF Replay
  <1>3. Len(service_log') = Len(service_log) + 1
    BY <1>1
  <1>4. Replayed(service_log', e)[Len(service_log')] = Applied(Replay(e), Logged(c), e)
    BY <1>1, <1>3, ReplayOneMore DEF Replay
  <1>5. Replay(e)' = Applied(Replay(e), Logged(c), e)
    BY <1>4 DEF Replay
  <1> QED
    BY <1>2, <1>5, EffectLogged DEF Applied

\* A call at "append" is a service call.
LEMMA AppenderServes ==
  ASSUME HomeTypes, NEW t \in Threads, At(t, "append")
  PROVE  call[t] \in ServiceRecords
  <1>1. HomeCallOK(call[t]) /\ call[t].step = "append"
    BY DEF HomeTypes, At
  <1> QED
    BY <1>1 DEF HomeCallOK, StateRequests

\* Where a service call goes from the log.
LEMMA FirstSteps ==
  ASSUME NEW c \in ServiceRecords
  PROVE  /\ FirstStep(c) \in {"sent", "append", "done"} \cup ServiceSteps
         /\ FirstStep(c) = "done" \/ FirstStep(c) \in ServiceSteps
         /\ StepFits([c EXCEPT !.step = FirstStep(c)])
         /\ FirstStep(c) = "done" => c.entity \notin Entities \/ c.service \notin Services
         /\ "done" \notin ServiceSteps
  <1>1. "done" \notin ServiceSteps /\ {"state", "read", "temperature"} \subseteq ServiceSteps
    BY DEF ServiceSteps
  <1>2. CASE c.entity \notin Entities \/ c.service \notin Services
    <2>1. FirstStep(c) = "done"
      BY <1>2 DEF FirstStep
    <2>2. [c EXCEPT !.step = "done"].step = "done"
      BY ServiceStep
    <2> QED
      BY <1>1, <1>2, <2>1, <2>2 DEF StepFits
  <1>3. CASE c.entity \in Entities /\ c.service \in Services
    <2>1. FirstStep(c) = IF c.service \in {"turn_on", "turn_off"} THEN "state"
                         ELSE IF c.service = "toggle" THEN "read" ELSE "temperature"
      BY <1>3 DEF FirstStep, Services
    <2>2. FirstStep(c) \in ServiceSteps /\ FirstStep(c) # "done"
      BY <1>1, <2>1
    <2>3. /\ [c EXCEPT !.step = FirstStep(c)].step = FirstStep(c)
          /\ [c EXCEPT !.step = FirstStep(c)].entity = c.entity
          /\ [c EXCEPT !.step = FirstStep(c)].service = c.service
      BY <2>2, ServiceStep
    <2>4. StepFits([c EXCEPT !.step = FirstStep(c)])
      BY <2>1, <2>3, <1>3 DEF StepFits, Services
    <2> QED
      BY <1>1, <2>2, <2>4
  <1> QED
    BY <1>2, <1>3

\* Who begins to write a part that is not torn then is alone: of two requests the
\* server handles one, and a direct call that meets another tears the part.
LEMMA AppendAlone ==
  ASSUME HomeTypes, NEW t \in Threads, AppendLog(t), NEW c, c = call[t],
         FirstStep(c) # "done", PartOf(c) \notin torn'[c.entity]
  PROVE  /\ \A u \in Threads : ~ Writes(call[u], c.entity, PartOf(c))
         /\ Definite(c) \/ PartOf(c) \notin torn[c.entity]
  <1>1. c.entity \in Entities /\ c # Idle /\ c.step = "append"
    BY DEF FirstStep, AppendLog, At
  <1> DEFINE met == {u \in Threads : Running(u, c.entity, PartOf(c))}
  <1>2. torn'[c.entity] = IF met # {}
                          THEN IF met \cup {t} \subseteq Clients THEN torn[c.entity]
                               ELSE torn[c.entity] \cup {PartOf(c)}
                          ELSE IF Definite(c) THEN torn[c.entity] \ {PartOf(c)} ELSE torn[c.entity]
    BY <1>1 DEF AppendLog, HomeTypes
  <1>3. met = {}
    <2> SUFFICES ASSUME met # {} PROVE FALSE
      OBVIOUS
    <2>1. met \cup {t} \subseteq Clients
      BY <1>2
    <2>2. PICK u \in met : TRUE
      OBVIOUS
    <2>3. u \in Clients /\ Received(call[u]) /\ u # t
      BY <1>1, <2>1, <2>2 DEF Running, Received, ServiceSteps
    <2>4. t \in Clients /\ Received(call[t])
      BY <1>1, <2>1 DEF Received
    <2>5. serving = u /\ serving = t
      BY <2>3, <2>4 DEF HomeTypes
    <2> QED
      BY <2>3, <2>5
  <1>4. \A u \in Threads : ~ Writes(call[u], c.entity, PartOf(c))
    BY <1>3 DEF Running, Writes
  <1> QED
    BY <1>2, <1>3, <1>4

\* A call is logged.
LEMMA AppendInv ==
  ASSUME HomeInv, NEW t \in Threads, AppendLog(t)
  PROVE  HomeInv'
  <1> USE DEF HomeInv
  <1> DEFINE c == call[t]
             d == [c EXCEPT !.step = FirstStep(c)]
  <1>1. /\ At(t, "append") /\ service_log' = Append(service_log, Logged(c)) /\ entities' = entities
        /\ call' = [call EXCEPT ![t].step = FirstStep(c)] /\ serving' = serving
    BY DEF AppendLog, Goto, serverVars
  <1>2. c \in ServiceRecords /\ c # Idle /\ c.step = "append"
    BY <1>1, AppenderServes DEF At
  <1>3. call' = [call EXCEPT ![t] = d]
    BY <1>1, HomeGoto
  <1>4. d \in ServiceRecords /\ StepFits(d) /\ d.step = FirstStep(c) /\ d.entity = c.entity
        /\ PartOf(d) = PartOf(c)
    BY <1>2, FirstSteps, ServiceStep
  <1>5. d # Idle
    BY <1>4, HomeAssistantConstants
  <1>6. torn' \in [Entities -> SUBSET Parts]
    <2>1. PartOf(c) \in Parts
      BY PartsAre
    <2>2. CASE FirstStep(c) = "done"
      BY <2>2 DEF AppendLog, HomeTypes
    <2>3. CASE FirstStep(c) # "done"
      <3>1. PICK S : torn' = [torn EXCEPT ![c.entity] = S] /\ S \subseteq torn[c.entity] \cup {PartOf(c)}
        <4> DEFINE met == {u \in Threads : Running(u, c.entity, PartOf(c))}
                   S == IF met # {}
                        THEN IF met \cup {t} \subseteq Clients THEN torn[c.entity]
                             ELSE torn[c.entity] \cup {PartOf(c)}
                        ELSE IF Definite(c) THEN torn[c.entity] \ {PartOf(c)} ELSE torn[c.entity]
        <4>1. torn' = [torn EXCEPT ![c.entity] = S]
          BY <2>3 DEF AppendLog, HomeTypes
        <4>2. S \subseteq torn[c.entity] \cup {PartOf(c)}
          OBVIOUS
        <4> QED
          BY <4>1, <4>2
      <3>2. c.entity \in Entities
        BY <2>3 DEF FirstStep
      <3>3. torn[c.entity] \subseteq Parts
        BY <3>2 DEF HomeTypes
      <3> QED
        BY <3>1, <3>2, <3>3, <2>1 DEF HomeTypes
    <2> QED
      BY <2>2, <2>3
  <1>7. service_log' \in Seq(LogRecords)
    BY <1>1, <1>2, EffectLogged DEF HomeTypes
  <1>8. t \in Clients /\ Received(d) => serving' = t
    BY <1>1, <1>2 DEF HomeTypes, Received
  <1>9. HomeTypes'
    <2>1. d # Idle => HomeCallOK(d)
      BY <1>4 DEF HomeCallOK
    <2>2. entities' \in [Entities -> EntityStates]
      BY <1>1 DEF HomeTypes
    <2> HIDE DEF d
    <2> QED
      BY <1>1, <1>3, <1>6, <1>7, <1>8, <2>1, <2>2, HomeTypesMove
  <1>10. \A e \in Entities : /\ Replay(e) \in EntityStates
                             /\ Replay(e)' = IF c.entity = e THEN Effect(Replay(e), c) ELSE Replay(e)
    BY <1>1, <1>2, ReplayGrows
  <1>11. /\ call'[t] = d /\ \A u \in Threads : u # t => call'[u] = call[u]
    BY <1>3, HomeMoved
  <1>12. \A e, p : ~ Writes(call[t], e, p)
    BY <1>2 DEF Writes, ServiceSteps
  <1>13. ASSUME NEW e \in Entities, NEW p \in Parts, p \notin torn'[e]
         PROVE  PartRight(call', entities'[e], Replay(e)', e, p)
    <2> DEFINE x == entities[e]
               y == Replay(e)
               w == Replay(e)'
               cs == call'
    <2>1. entities'[e] = x /\ x \in EntityStates /\ y \in EntityStates
      BY <1>1, <1>10 DEF HomeTypes
    <2>2. CASE e = c.entity /\ p = PartOf(c) /\ FirstStep(c) # "done"
      <3>1. /\ \A u \in Threads : ~ Writes(call[u], e, p)
            /\ Definite(c) \/ p \notin torn[e]
        BY <2>2, <1>13, AppendAlone
      <3>2. Definite(c) \/ Show(x, p) = Show(y, p)
        BY <3>1 DEF PartsInv, PartRight
      <3>3. w = Effect(y, c)
        BY <2>2, <1>10
      <3> HIDE DEF x, y, w
      <3>4. Underway([c EXCEPT !.step = FirstStep(c)], x, Effect(y, c))
        BY <3>2, <2>1, <2>2, <1>2, StartUnderway
      <3>5. Underway(d, x, w)
        BY <3>3, <3>4
      <3> HIDE DEF d
      <3>6. \A u \in Threads : Writes(cs[u], e, p) => u = t
        BY <1>11, <3>1
      <3>7. Writes(cs[t], e, p)
        BY <1>4, <1>5, <1>11, <2>2, FirstSteps, <1>2 DEF Writes
      <3>8. cs[t] = d
        BY <1>11
      <3> HIDE DEF cs
      <3>9. PartRight(cs, x, w, e, p)
        BY <3>5, <3>6, <3>7, <3>8 DEF PartRight
      <3> QED
        BY <3>9, <2>1 DEF x, w, cs
    <2>3. CASE ~ (e = c.entity /\ p = PartOf(c) /\ FirstStep(c) # "done")
      <3>1. p \notin torn[e]
        <4>1. CASE FirstStep(c) = "done"
          BY <4>1, <1>13 DEF AppendLog
        <4>2. CASE FirstStep(c) # "done" /\ e # c.entity
          BY <4>2, <1>13 DEF AppendLog, HomeTypes
        <4>3. CASE FirstStep(c) # "done" /\ e = c.entity
          <5> DEFINE met == {u \in Threads : Running(u, c.entity, PartOf(c))}
          <5>1. torn'[c.entity] = IF met # {}
                          THEN IF met \cup {t} \subseteq Clients THEN torn[c.entity]
                               ELSE torn[c.entity] \cup {PartOf(c)}
                          ELSE IF Definite(c) THEN torn[c.entity] \ {PartOf(c)} ELSE torn[c.entity]
            BY <4>3 DEF AppendLog, HomeTypes
          <5> QED
            BY <5>1, <4>3, <2>3, <1>13
        <4> QED
          BY <4>1, <4>2, <4>3
      <3>2. PartRight(call, x, y, e, p)
        BY <3>1 DEF PartsInv
      <3>3. Show(w, p) = Show(y, p)
        <4>1. CASE c.entity # e
          BY <4>1, <1>10
        <4>2. CASE c.entity = e
          <5>1. w = Effect(y, c)
            BY <4>2, <1>10
          <5> HIDE DEF y, w
          <5>2. /\ PartOf(c) = "light" => Effect(y, c).temperature = y.temperature
                /\ PartOf(c) = "climate" => Effect(y, c).state = y.state
                                            /\ Effect(y, c).brightness = y.brightness
                /\ c.service \notin Services => Effect(y, c) = y
            BY <1>2, <2>1, EffectIs
          <5>3. CASE FirstStep(c) = "done"
            BY <5>1, <5>2, <5>3, <4>2, <1>2, FirstSteps
          <5>4. CASE p # PartOf(c)
            BY <5>1, <5>2, <5>4, PartsAre DEF Show
          <5> QED
            BY <5>3, <5>4, <4>2, <2>3
        <4> QED
          BY <4>1, <4>2
      <3>4. \A u \in Threads : Writes(call[u], e, p) => cs[u] = call[u]
        BY <1>11, <1>12
      <3>5. \A u \in Threads : Writes(cs[u], e, p) => cs[u] = call[u]
        <4>1. ~ Writes(d, e, p)
          BY <2>3, <1>4, <1>2, FirstSteps DEF Writes
        <4> QED
          BY <4>1, <1>11
      <3>6. Show(x, p) = Show(x, p)
        OBVIOUS
      <3> HIDE DEF x, y, w, cs
      <3>7. PartRight(cs, x, w, e, p)
        BY <3>2, <3>3, <3>4, <3>5, <3>6, PartStays
      <3> QED
        BY <3>7, <2>1 DEF x, w, cs
    <2> QED
      BY <2>2, <2>3
  <1>14. PartsInv'
    BY <1>13 DEF PartsInv, PartRight, Writes
  <1> QED
    BY <1>9, <1>14

---------------------------------------------------------------------------
(* Every step keeps the invariant.                                           *)

\* The entities as they are at the beginning, which the empty log explains.
LEMMA HomeInitInv == CallersInit /\ ServerInit /\ HAInit => HomeInv
  <1> SUFFICES ASSUME CallersInit, ServerInit, HAInit PROVE HomeInv
    OBVIOUS
  <1>1. \A t \in Threads : call[t] = Idle
    BY DEF CallersInit
  <1>2. \A t \in Clients : call[t] = Idle
    BY <1>1, ServerConstants
  <1>3. HomeTypes
    BY <1>1, <1>2, HomeAssistantConstants DEF CallersInit, HAInit, HomeTypes, Received
  <1>4. ASSUME NEW e \in Entities PROVE Replay(e) = entities[e]
    <2>1. << >> \in Seq(LogRecords) /\ Len(<< >>) = 0
      OBVIOUS
    <2>2. Replays(Replayed(<< >>, e), << >>, e, 0)
      BY <2>1, ReplayIs
    <2>3. Replayed(<< >>, e)[0] = InitialEntity[e]
      BY <2>2 DEF Replays
    <2>4. service_log = << >> /\ entities = InitialEntity
      BY DEF HAInit
    <2> QED
      BY <2>1, <2>3, <2>4 DEF Replay
  <1>5. PartsInv
    BY <1>1, <1>4 DEF PartsInv, PartRight, Writes
  <1> QED
    BY <1>3, <1>5 DEF HomeInv

\* Nothing that the invariant is about has changed.
LEMMA HomeStutter ==
  ASSUME HomeInv, UNCHANGED <<call, serving, entityVars>>
  PROVE  HomeInv'
  <1> USE DEF HomeInv
  <1>1. call' = call /\ serving' = serving /\ entities' = entities /\ service_log' = service_log
        /\ torn' = torn
    BY DEF entityVars
  <1>2. HomeTypes'
    BY <1>1 DEF HomeTypes, HomeCallOK, Received
  <1>3. PartsInv'
    BY <1>1 DEF PartsInv, PartRight, Writes, Replay, Underway
  <1> QED
    BY <1>2, <1>3

\* A step of a thread that writes no entity.
LEMMA HomeQuietInv ==
  ASSUME HomeInv, NEW t \in Threads, NEW c, call' = [call EXCEPT ![t] = c],
         UNCHANGED entityVars,
         call[t] # Idle => call[t].step \notin ServiceSteps,
         c # Idle => c.step \notin ServiceSteps /\ HomeCallOK(c),
         t \in Clients /\ Received(c) => serving' = t,
         serving' = serving \/ \A u \in Clients : u # t => ~ Received(call[u])
  PROVE  HomeInv'
  <1>1. HomeTypes /\ PartsInv
    BY DEF HomeInv
  <1>2. /\ entities' \in [Entities -> EntityStates] /\ service_log' \in Seq(LogRecords)
        /\ torn' \in [Entities -> SUBSET Parts]
    BY <1>1 DEF HomeTypes, entityVars
  <1>3. HomeTypes'
    <2>1. c # Idle => HomeCallOK(c)
      OBVIOUS
    <2> QED
      BY <1>1, <1>2, <2>1, HomeTypesMove
  <1>4. PartsInv'
    <2>1. c # Idle => c.step \notin ServiceSteps
      OBVIOUS
    <2> QED
      BY <1>1, <2>1, HomeQuiet
  <1> QED
    BY <1>3, <1>4 DEF HomeInv

\* A thread makes a call.
LEMMA HomeCallInv ==
  ASSUME HomeInv, NEW t \in Threads, HACall(t)
  PROVE  HomeInv'
  <1> USE DEF HomeInv
  <1>1. \/ UNCHANGED <<call, serving, entityVars>>
        \/ \E c : /\ call[t] = Idle /\ call' = [call EXCEPT ![t] = c]
                  /\ UNCHANGED <<serving, entityVars>>
                  /\ c # Idle => c.step \notin ServiceSteps /\ HomeCallOK(c)
                  /\ t \in Clients => ~ Received(c)
    <2>1. ASSUME NEW c \in ServiceCalls, NEW step \in {"sent", "append"}
          PROVE  /\ ServiceCall(c, step) \in ServiceRecords /\ StepFits(ServiceCall(c, step))
                 /\ ServiceCall(c, step).step = step
                 /\ step \notin ServiceSteps
      <3>1. ServiceCall(c, step).step = step /\ step \notin ServiceSteps
        BY DEF ServiceCall, ServiceSteps
      <3>2. c.level \in Values /\ c.temperature \in Values
        BY HomeAssistantConstants
      <3>3. ServiceCall(c, step) \in ServiceRecords
        BY <3>2 DEF ServiceCall, ServiceRecords
      <3>4. StepFits(ServiceCall(c, step))
        BY <3>1 DEF StepFits, ServiceSteps
      <3> QED
        BY <3>1, <3>3, <3>4
    <2>2. ASSUME NEW c \in ServiceCalls, RequestService(t, c) PROVE <1>1!2
      <3> DEFINE d == ServiceCall(c, "sent")
      <3>1. d \in ServiceRecords /\ StepFits(d) /\ d.step = "sent" /\ d.step \notin ServiceSteps
        BY <2>1
      <3>2. HomeCallOK(d) /\ ~ Received(d)
        BY <3>1 DEF HomeCallOK, Received
      <3>3. call[t] = Idle /\ call' = [call EXCEPT ![t] = d] /\ UNCHANGED <<serving, entityVars>>
        BY <2>2 DEF RequestService, Begin, serverVars
      <3> HIDE DEF d
      <3> QED
        BY <3>1, <3>2, <3>3
    <2>3. ASSUME NEW c \in ServiceCalls, CallService(t, c) PROVE <1>1!2
      <3> DEFINE d == ServiceCall(c, "append")
      <3>1. d \in ServiceRecords /\ StepFits(d) /\ d.step \notin ServiceSteps
        BY <2>1
      <3>2. HomeCallOK(d)
        BY <3>1 DEF HomeCallOK
      <3>3. call[t] = Idle /\ call' = [call EXCEPT ![t] = d] /\ UNCHANGED <<serving, entityVars>>
            /\ t \notin Clients
        BY <2>3 DEF CallService, Begin, serverVars, Direct
      <3> HIDE DEF d
      <3> QED
        BY <3>1, <3>2, <3>3
    <2>4. ASSUME RequestUnauthorized(t) PROVE <1>1!2
      <3> DEFINE d == [step |-> "sent", authorized |-> FALSE]
      <3>1. HomeCallOK(d) /\ ~ Received(d) /\ d.step \notin ServiceSteps
        BY DEF HomeCallOK, Received, ServiceSteps
      <3>2. call[t] = Idle /\ call' = [call EXCEPT ![t] = d] /\ UNCHANGED <<serving, entityVars>>
        BY <2>4 DEF RequestUnauthorized, Begin, serverVars
      <3> HIDE DEF d
      <3> QED
        BY <3>1, <3>2
    <2>5. ASSUME NEW e \in Entities \cup {Absent}, RequestState(t, e) PROVE <1>1!2
      <3> DEFINE d == [step |-> "sent", request |-> "state", authorized |-> TRUE, entity |-> e]
      <3>1. HomeCallOK(d) /\ ~ Received(d) /\ d.step \notin ServiceSteps
        BY DEF HomeCallOK, Received, ServiceSteps, StateRequests
      <3>2. call[t] = Idle /\ call' = [call EXCEPT ![t] = d] /\ UNCHANGED <<serving, entityVars>>
        BY <2>5 DEF RequestState, Begin, serverVars
      <3> HIDE DEF d
      <3> QED
        BY <3>1, <3>2
    <2>6. ASSUME StartServer(t), UNCHANGED entityVars PROVE <1>1!1
      BY <2>6 DEF StartServer
    <2>7. ASSUME StopServer(t), UNCHANGED entityVars PROVE <1>1!2
      <3> DEFINE d == [step |-> "shutdown"]
      <3>1. HomeCallOK(d) /\ d.step \notin ServiceSteps
        BY DEF HomeCallOK, ServiceSteps
      <3>2. call[t] = Idle /\ call' = [call EXCEPT ![t] = d] /\ UNCHANGED <<serving, entityVars>>
            /\ t \notin Clients
        BY <2>7 DEF StopServer, Begin, serverVars, Direct
      <3> HIDE DEF d
      <3> QED
        BY <3>1, <3>2
    <2> QED
      BY <2>2, <2>3, <2>4, <2>5, <2>6, <2>7 DEF HACall
  <1>2. CASE UNCHANGED <<call, serving, entityVars>>
    BY <1>2, HomeStutter
  <1>3. CASE <1>1!2
    <2> PICK c : /\ call[t] = Idle /\ call' = [call EXCEPT ![t] = c]
                 /\ UNCHANGED <<serving, entityVars>>
                 /\ c # Idle => c.step \notin ServiceSteps /\ HomeCallOK(c)
                 /\ t \in Clients => ~ Received(c)
      BY <1>3
    <2>1. call[t] # Idle => call[t].step \notin ServiceSteps
      OBVIOUS
    <2>2. t \in Clients /\ Received(c) => serving' = t
      OBVIOUS
    <2>3. serving' = serving \/ \A u \in Clients : u # t => ~ Received(call[u])
      OBVIOUS
    <2> QED
      BY <2>1, <2>2, <2>3, HomeQuietInv
  <1> QED
    BY <1>1, <1>2, <1>3

\* The answer to a client frees the server.
LEMMA LeaveInv ==
  ASSUME HomeInv, NEW t \in Threads, Leave(t), UNCHANGED entityVars,
         call[t] # Idle, call[t].step \notin ServiceSteps \cup {"sent"}
  PROVE  HomeInv'
  <1>1. call' = [call EXCEPT ![t] = Idle] /\ serving' = IF t \in Clients THEN NoThread ELSE serving
    BY DEF Leave, Return
  <1>2. serving' = serving \/ \A u \in Clients : u # t => ~ Received(call[u])
    <2>1. CASE t \in Clients
      <3>1. serving = t
        BY <2>1 DEF HomeInv, HomeTypes, Received
      <3> QED
        BY <3>1 DEF HomeInv, HomeTypes
    <2>2. CASE t \notin Clients
      BY <2>2, <1>1
    <2> QED
      BY <2>1, <2>2
  <1> DEFINE c == Idle
  <1>3. call' = [call EXCEPT ![t] = c] /\ c = Idle
    BY <1>1
  <1> HIDE DEF c
  <1>4. call[t] # Idle => call[t].step \notin ServiceSteps
    OBVIOUS
  <1>5. c # Idle => c.step \notin ServiceSteps /\ HomeCallOK(c)
    BY <1>3
  <1>6. t \in Clients /\ Received(c) => serving' = t
    BY <1>3 DEF Received
  <1> QED
    BY <1>2, <1>3, <1>4, <1>5, <1>6, HomeQuietInv

\* A call in the middle of its service.
LEMMA ServiceWrites ==
  ASSUME HomeInv, NEW t \in Threads, NEW step \in ServiceSteps, At(t, step)
  PROVE  /\ call[t] \in ServiceRecords /\ StepFits(call[t]) /\ call[t].step = step
         /\ call[t].entity \in Entities
         /\ Writes(call[t], call[t].entity, PartOf(call[t]))
  <1>1. HomeCallOK(call[t]) /\ call[t].step \in ServiceSteps /\ call[t] # Idle
    BY DEF HomeInv, HomeTypes, At
  <1>2. call[t] \in ServiceRecords /\ StepFits(call[t])
    BY <1>1 DEF HomeCallOK, StateRequests, ServiceSteps
  <1> QED
    BY <1>1, <1>2 DEF Writes, StepFits, At

\* It leaves its entity at z and goes on as d.
LEMMA HomeWritesInv ==
  ASSUME HomeInv, NEW t \in Threads, NEW step \in ServiceSteps, At(t, step), NEW e, e = call[t].entity,
         NEW d, NEW z, Leads(call[t], entities[e], Replay(e), d, z),
         entities' = [entities EXCEPT ![e] = z], call' = [call EXCEPT ![t] = d],
         UNCHANGED <<serverVars, service_log, torn>>
  PROVE  HomeInv'
  <1>1. HomeTypes /\ PartsInv /\ e \in Entities
        /\ Writes(call[t], e, PartOf(call[t])) /\ call[t] # Idle /\ call[t].step # "sent"
    BY ServiceWrites DEF HomeInv, Writes, ServiceSteps
  <1>2. serving' = serving /\ service_log' = service_log /\ torn' = torn
    BY DEF serverVars
  <1>3. z \in EntityStates /\ d \in ServiceRecords /\ StepFits(d)
    BY DEF Leads
  <1>4. entities' \in [Entities -> EntityStates] /\ service_log' \in Seq(LogRecords)
        /\ torn' \in [Entities -> SUBSET Parts]
    BY <1>1, <1>2, <1>3 DEF HomeTypes
  <1>5. t \in Clients /\ Received(d) => serving' = t
    BY <1>1, <1>2 DEF HomeTypes, Received
  <1>6. HomeTypes'
    <2>1. d # Idle => HomeCallOK(d)
      BY <1>3 DEF HomeCallOK
    <2>2. serving' = serving \/ \A u \in Clients : u # t => ~ Received(call[u])
      BY <1>2
    <2> QED
      BY <1>1, <1>4, <1>5, <2>1, <2>2, HomeTypesMove
  <1>7. PartsInv'
    BY <1>1, <1>2, HomeWrites
  <1> QED
    BY <1>6, <1>7 DEF HomeInv

\* A call takes a step in its entity.
LEMMA ServiceStepInv ==
  ASSUME HomeInv, NEW t \in Threads,
         ReadState(t) \/ WriteState(t) \/ Brightness(t) \/ FullBrightness(t) \/ SetTemperature(t)
  PROVE  HomeInv'
  <1> DEFINE c == call[t]
             e == c.entity
             x == entities[e]
             y == Replay(e)
  <1>1. PICK step \in ServiceSteps : At(t, step)
    BY DEF ReadState, WriteState, Brightness, FullBrightness, SetTemperature, ServiceSteps
  <1>2. c \in ServiceRecords /\ StepFits(c) /\ e \in Entities /\ c.step = step
    BY <1>1, ServiceWrites
  <1>3. entities \in [Entities -> EntityStates] /\ HomeTypes /\ x \in EntityStates
    BY <1>2 DEF HomeInv, HomeTypes
  <1>4. SUFFICES \E d, z : /\ Leads(c, x, y, d, z)
                           /\ entities' = [entities EXCEPT ![e] = z]
                           /\ call' = [call EXCEPT ![t] = d]
                           /\ UNCHANGED <<serverVars, service_log, torn>>
    <2>1. PICK d, z : /\ Leads(c, x, y, d, z)
                      /\ entities' = [entities EXCEPT ![e] = z]
                      /\ call' = [call EXCEPT ![t] = d]
                      /\ UNCHANGED <<serverVars, service_log, torn>>
      BY <1>4
    <2> QED
      BY <1>1, <2>1, HomeWritesInv
  <1>5. CASE ReadState(t)
    <2> DEFINE s == IF x.state = "on" THEN "off" ELSE "on"
               d == [c EXCEPT !.step = "state", !.new_state = s]
    <2>1. c.step = "read" /\ call' = [call EXCEPT ![t] = d] /\ entities' = entities
          /\ UNCHANGED <<serverVars, service_log, torn>>
      BY <1>5 DEF ReadState, Continue, entityVars, At
    <2>2. entities' = [entities EXCEPT ![e] = x]
      BY <2>1, <1>3
    <2>3. s = IF x.state = "on" THEN "off" ELSE "on"
      OBVIOUS
    <2> HIDE DEF s, c, x, y
    <2>4. Leads(c, x, y, d, x)
      BY <1>2, <1>3, <2>1, <2>3, ReadLeads
    <2> QED
      BY <2>1, <2>2, <2>4
  <1>6. CASE WriteState(t)
    <2> DEFINE z == [x EXCEPT !.state = NewState(c)]
               d == [c EXCEPT !.step = "brightness"]
    <2>1. c.step = "state" /\ call' = [call EXCEPT ![t].step = "brightness"]
          /\ entities' = [entities EXCEPT ![e].state = NewState(c)]
          /\ UNCHANGED <<serverVars, service_log, torn>>
      BY <1>6 DEF WriteState, Goto, At
    <2>2. call' = [call EXCEPT ![t] = d] /\ entities' = [entities EXCEPT ![e] = z]
      BY <2>1, <1>3, HomeGoto
    <2> HIDE DEF c, x, y
    <2>3. Leads(c, x, y, d, z)
      BY <1>2, <1>3, <2>1, StateLeads
    <2> QED
      BY <2>1, <2>2, <2>3
  <1>7. CASE Brightness(t)
    <2> DEFINE z == [x EXCEPT !.brightness = IF c.service = "turn_on" /\ c.level # Absent THEN c.level
                                             ELSE IF NewState(c) = "off" THEN 0 ELSE x.brightness]
               next == IF ~ (c.service = "turn_on" /\ c.level # Absent) /\ ~ (NewState(c) = "off")
                          /\ x.brightness = 0 THEN "full" ELSE "done"
               d == [c EXCEPT !.step = next]
    <2>1. c.step = "brightness" /\ call' = [call EXCEPT ![t].step = next]
          /\ UNCHANGED <<serverVars, service_log, torn>>
      BY <1>7 DEF Brightness, Goto, At
    <2>2. call' = [call EXCEPT ![t] = d]
      BY <2>1, <1>3, HomeGoto
    <2>3. entities' = [entities EXCEPT ![e] = z]
      BY <1>3, <1>7 DEF Brightness
    <2>4. /\ z = [x EXCEPT !.brightness = IF c.service = "turn_on" /\ c.level # Absent THEN c.level
                                          ELSE IF NewState(c) = "off" THEN 0 ELSE x.brightness]
          /\ next = IF ~ (c.service = "turn_on" /\ c.level # Absent) /\ ~ (NewState(c) = "off")
                       /\ x.brightness = 0 THEN "full" ELSE "done"
      OBVIOUS
    <2> HIDE DEF c, x, y, z, next
    <2>5. Leads(c, x, y, d, z)
      BY <1>2, <1>3, <2>1, <2>4, BrightnessLeads
    <2> QED
      BY <2>1, <2>2, <2>3, <2>5
  <1>8. CASE FullBrightness(t)
    <2> DEFINE z == [x EXCEPT !.brightness = 255]
               d == [c EXCEPT !.step = "done"]
    <2>1. c.step = "full" /\ call' = [call EXCEPT ![t].step = "done"]
          /\ entities' = [entities EXCEPT ![e].brightness = 255]
          /\ UNCHANGED <<serverVars, service_log, torn>>
      BY <1>8 DEF FullBrightness, Goto, At
    <2>2. call' = [call EXCEPT ![t] = d] /\ entities' = [entities EXCEPT ![e] = z]
      BY <2>1, <1>3, HomeGoto
    <2>3. z = [x EXCEPT !.brightness = 255]
      OBVIOUS
    <2> HIDE DEF c, x, y, z
    <2>4. Leads(c, x, y, d, z)
      BY <1>2, <1>3, <2>1, <2>3, FullLeads
    <2> QED
      BY <2>1, <2>2, <2>4
  <1>9. CASE SetTemperature(t)
    <2> DEFINE z == [x EXCEPT !.temperature =
                       IF c.temperature = Absent THEN x.temperature ELSE c.temperature]
               d == [c EXCEPT !.step = "done"]
    <2>1. c.step = "temperature" /\ call' = [call EXCEPT ![t].step = "done"]
          /\ UNCHANGED <<serverVars, service_log, torn>>
      BY <1>9 DEF SetTemperature, Goto, At
    <2>2. call' = [call EXCEPT ![t] = d]
      BY <2>1, <1>3, HomeGoto
    <2>3. entities' = [entities EXCEPT ![e] = z]
      BY <1>3, <1>9 DEF SetTemperature
    <2>4. z = [x EXCEPT !.temperature =
                 IF c.temperature = Absent THEN x.temperature ELSE c.temperature]
      OBVIOUS
    <2> HIDE DEF c, x, y, z
    <2>5. Leads(c, x, y, d, z)
      BY <1>2, <1>3, <2>1, <2>4, TemperatureLeads
    <2> QED
      BY <2>1, <2>2, <2>3, <2>5
  <1> QED
    BY <1>5, <1>6, <1>7, <1>8, <1>9

---------------------------------------------------------------------------
(* The server and its requests.                                              *)

\* A request that the server turns to goes to its route, or is refused at once.
LEMMA RequestRouted ==
  ASSUME HomeInv, NEW t \in Threads, HandleRequest(t)
  PROVE  HomeInv'
  <1> DEFINE c == call[t]
             step == IF c.authorized THEN IF c.request = "service" THEN "append" ELSE "get"
                     ELSE "reply"
             d == [c EXCEPT !.step = step]
  <1>1. /\ t \in Clients /\ c # Idle /\ c.step = "sent" /\ serving = NoThread /\ serving' = t
        /\ call' = [call EXCEPT ![t].step = step] /\ UNCHANGED entityVars
    BY DEF HandleRequest, Accept, At, Goto
  <1>2. HomeTypes /\ HomeCallOK(c)
    BY <1>1 DEF HomeInv, HomeTypes
  <1>3. call' = [call EXCEPT ![t] = d]
    BY <1>1, <1>2, HomeGoto
  <1>4. d.step \notin ServiceSteps /\ HomeCallOK(d)
    <2>1. CASE c \in ServiceRecords
      <3>1. step = "append"
        BY <2>1 DEF ServiceRecords
      <3>2. d \in ServiceRecords /\ d.step = "append"
        BY <2>1, <3>1, ServiceStep
      <3>3. d.step \notin ServiceSteps
        BY <3>2 DEF ServiceSteps
      <3>4. StepFits(d)
        BY <3>2, <3>3 DEF StepFits
      <3> QED
        BY <3>2, <3>3, <3>4 DEF HomeCallOK
    <2>2. CASE c \in StateRequests
      <3>1. step = "get"
        BY <2>2 DEF StateRequests
      <3>2. [c EXCEPT !.step = "get"] \in StateRequests /\ [c EXCEPT !.step = "get"].step = "get"
        BY <2>2 DEF StateRequests
      <3> QED
        BY <3>1, <3>2 DEF HomeCallOK, ServiceSteps
    <2>3. CASE c \in [step : {"sent", "reply"}, authorized : {FALSE}]
      <3>1. step = "reply"
        BY <2>3
      <3>2. /\ [c EXCEPT !.step = "reply"] \in [step : {"sent", "reply"}, authorized : {FALSE}]
            /\ [c EXCEPT !.step = "reply"].step = "reply"
        BY <2>3
      <3> QED
        BY <3>1, <3>2 DEF HomeCallOK, ServiceSteps
    <2> QED
      BY <1>1, <1>2, <2>1, <2>2, <2>3 DEF HomeCallOK
  <1>5. ASSUME NEW u \in Clients, u # t PROVE ~ Received(call[u])
    <2>1. u # NoThread
      BY ServerConstants
    <2> QED
      BY <2>1, <1>1, <1>2 DEF HomeTypes
  <1>6. call[t] # Idle => call[t].step \notin ServiceSteps
    BY <1>1 DEF ServiceSteps
  <1> HIDE DEF c, d, step
  <1>7. d # Idle => d.step \notin ServiceSteps /\ HomeCallOK(d)
    BY <1>4
  <1>8. t \in Clients /\ Received(d) => serving' = t
    BY <1>1
  <1>9. serving' = serving \/ \A u \in Clients : u # t => ~ Received(call[u])
    BY <1>5
  <1>10. UNCHANGED entityVars
    BY <1>1
  <1> QED
    BY <1>3, <1>6, <1>7, <1>8, <1>9, <1>10, HomeQuietInv

\* The state of an entity is read for a reply.
LEMMA StateReplied ==
  ASSUME HomeInv, NEW t \in Threads, GetState(t)
  PROVE  HomeInv'
  <1> DEFINE c == call[t]
             d == [step |-> "reply", entity |-> c.entity,
                   shown |-> IF c.entity \in Entities THEN entities[c.entity] ELSE Absent]
  <1>1. /\ c # Idle /\ c.step = "get" /\ serving' = serving
        /\ call' = [call EXCEPT ![t] = d] /\ UNCHANGED entityVars
    BY DEF GetState, At, Continue, serverVars
  <1>2. call[t] # Idle => call[t].step \notin ServiceSteps
    BY <1>1 DEF ServiceSteps
  <1>3. d # Idle => d.step \notin ServiceSteps /\ HomeCallOK(d)
    BY DEF HomeCallOK, ServiceSteps
  <1>4. t \in Clients /\ Received(d) => serving' = t
    BY <1>1 DEF HomeInv, HomeTypes, Received
  <1> HIDE DEF c, d
  <1>5. serving' = serving \/ \A u \in Clients : u # t => ~ Received(call[u])
    BY <1>1
  <1>6. UNCHANGED entityVars
    BY <1>1
  <1> QED
    BY <1>1, <1>2, <1>3, <1>4, <1>5, <1>6, HomeQuietInv

\* A connection that fails, a server that has stopped: the call returns, and the
\* server was not handling it.
LEMMA ReturnInv ==
  ASSUME HomeInv, NEW t \in Threads, Return(t), serving' = serving, UNCHANGED entityVars,
         NEW step \in {"sent", "shutdown"}, At(t, step)
  PROVE  HomeInv'
  <1> DEFINE c == Idle
  <1>1. call' = [call EXCEPT ![t] = c] /\ c = Idle
    BY DEF Return
  <1> HIDE DEF c
  <1>2. call[t] # Idle => call[t].step \notin ServiceSteps
    BY DEF At, ServiceSteps
  <1>3. c # Idle => c.step \notin ServiceSteps /\ HomeCallOK(c)
    BY <1>1
  <1>4. t \in Clients /\ Received(c) => serving' = t
    BY <1>1 DEF Received
  <1>5. serving' = serving \/ \A u \in Clients : u # t => ~ Received(call[u])
    OBVIOUS
  <1> QED
    BY <1>1, <1>2, <1>3, <1>4, <1>5, HomeQuietInv

\* Any step.
LEMMA HomeStepInv ==
  ASSUME HomeInv, [\E t \in Threads : HACall(t) \/ HAStep(t)]_haVars
  PROVE  HomeInv'
  <1>1. CASE UNCHANGED haVars
    BY <1>1, HomeStutter DEF haVars, callerVars, serverVars, entityVars
  <1>2. ASSUME NEW t \in Threads, HACall(t) PROVE HomeInv'
    BY <1>2, HomeCallInv
  <1>3. ASSUME NEW t \in Threads, HAStep(t) PROVE HomeInv'
    <2>1. CASE HandleRequest(t)
      BY <2>1, RequestRouted
    <2>2. CASE GetState(t)
      BY <2>2, StateReplied
    <2>3. CASE Answer(t) /\ UNCHANGED entityVars
      <3>1. /\ Leave(t) /\ UNCHANGED entityVars /\ call[t] # Idle
            /\ call[t].step \notin ServiceSteps \cup {"sent"}
        BY <2>3 DEF Answer, At, ServiceSteps
      <3> QED
        BY <3>1, LeaveInv
    <2>4. CASE Refuse(t) /\ UNCHANGED entityVars
      <3>1. At(t, "sent") /\ Return(t) /\ serving' = serving /\ UNCHANGED entityVars
        BY <2>4 DEF Refuse, serverVars
      <3> QED
        BY <3>1, ReturnInv
    <2>5. CASE Shutdown(t) /\ UNCHANGED entityVars
      <3>1. At(t, "shutdown") /\ Return(t) /\ serving' = serving /\ UNCHANGED entityVars
        BY <2>5 DEF Shutdown
      <3> QED
        BY <3>1, ReturnInv
    <2>6. CASE AppendLog(t)
      BY <2>6, AppendInv
    <2>7. CASE ReadState(t) \/ WriteState(t) \/ Brightness(t) \/ FullBrightness(t) \/ SetTemperature(t)
      BY <2>7, ServiceStepInv
    <2>8. CASE ServiceDone(t)
      <3>1. /\ Leave(t) /\ UNCHANGED entityVars /\ call[t] # Idle
            /\ call[t].step \notin ServiceSteps \cup {"sent"}
        BY <2>8 DEF ServiceDone, At, ServiceSteps
      <3> QED
        BY <3>1, LeaveInv
    <2> QED
      BY <1>3, <2>1, <2>2, <2>3, <2>4, <2>5, <2>6, <2>7, <2>8 DEF HAStep
  <1> QED
    BY <1>1, <1>2, <1>3

\* service_log explains the entities (ha_mock.py, call_service), for any number of
\* threads and calls: a part that nobody is writing is what the logged calls make of
\* it one after another, unless overlapping calls, one of them direct, have torn it.
THEOREM LogExplainsEntities == HASpec => []LogExplains
  <1>1. HomeInv => LogExplains
    <2> SUFFICES ASSUME HomeInv, NEW e \in Entities, NEW p \in Parts,
                        \A t \in Threads : ~ Running(t, e, p), p \notin torn[e]
                 PROVE  Show(entities[e], p) = Show(Replay(e), p)
      BY DEF LogExplains, Explained
    <2>1. PartRight(call, entities[e], Replay(e), e, p)
      BY DEF HomeInv, PartsInv
    <2>2. \A t \in Threads : ~ Writes(call[t], e, p)
      BY DEF Running, Writes
    <2> QED
      BY <2>1, <2>2 DEF PartRight
  <1> QED
    BY <1>1, HomeInitInv, HomeStepInv, PTL DEF HASpec

\* Only GetState takes a call from "get" to its reply.
LEMMA OnlyGetReplies ==
  ASSUME HomeInv, NEW t \in Threads, HACall(t) \/ HAStep(t),
         NEW u \in Threads, At(u, "get"), call'[u].step = "reply"
  PROVE  u = t /\ GetState(t)
  <1>1. HomeTypes /\ call[u] # Idle /\ call[u].step = "get"
    BY DEF HomeInv, At
  <1>2. u = t
    <2> SUFFICES ASSUME u # t PROVE FALSE
      OBVIOUS
    <2>1. \A c : [call EXCEPT ![t] = c][u] = call[u]
      BY <1>1 DEF HomeTypes
    <2>2. \A step : [call EXCEPT ![t].step = step][u] = call[u]
      BY <1>1 DEF HomeTypes
    <2>3. call'[u] = call[u]
      <3>1. CASE HACall(t)
        BY <3>1, <2>1 DEF HACall, RequestService, CallService, RequestUnauthorized, RequestState,
             StartServer, StopServer, Begin
      <3>2. CASE HAStep(t)
        BY <3>2, <2>1, <2>2 DEF HAStep, HandleRequest, GetState, Answer, Refuse, Shutdown, AppendLog,
             ReadState, WriteState, Brightness, FullBrightness, SetTemperature, ServiceDone,
             Leave, Return, Goto, Continue
      <3> QED
        BY <3>1, <3>2
    <2> QED
      BY <2>3, <1>1
  <1>3. ~ HACall(t)
    BY <1>1, <1>2 DEF HACall, RequestService, CallService, RequestUnauthorized, RequestState,
         StartServer, StopServer, Begin
  <1> QED
    BY <1>1, <1>2, <1>3 DEF HAStep, HandleRequest, Answer, Refuse, Shutdown, AppendLog,
         ReadState, WriteState, Brightness, FullBrightness, SetTemperature, ServiceDone, Accept, At

\* A reply shows what the log explains (ha_mock.py, the GET route), for any number of
\* threads and calls: while a client's request is handled no other client's call is
\* under way, and those answered before are in the log and in the entities.
THEOREM RepliesShowWholeCalls == HASpec => RepliesAreWhole
  <1>1. ASSUME HomeInv, NEW t \in Clients, NEW e \in Entities, NEW p \in Parts,
               [\E u \in Threads : HACall(u) \/ HAStep(u)]_haVars,
               At(t, "get"), call[t].entity = e, call'[t].step = "reply"
        PROVE  Explained(e, p, call'[t].shown)
    <2>1. t \in Threads /\ HomeTypes /\ call[t] # Idle /\ call[t].step = "get"
      BY <1>1, ServerConstants DEF HomeInv, At
    <2>2. call' # call
      BY <1>1, <2>1
    <2>3. PICK v \in Threads : HACall(v) \/ HAStep(v)
      BY <1>1, <2>2 DEF haVars, callerVars
    <2>4. GetState(t)
      BY <1>1, <2>1, <2>3, OnlyGetReplies
    <2>5. call'[t].shown = entities[e]
      BY <1>1, <2>1, <2>4 DEF GetState, Continue, HomeTypes
    <2>6. SUFFICES ASSUME p \notin torn[e], \A u \in Direct : ~ Running(u, e, p)
                   PROVE  Show(entities[e], p) = Show(Replay(e), p)
      BY <2>5 DEF Explained
    <2>7. ASSUME NEW u \in Threads PROVE ~ Writes(call[u], e, p)
      <3>1. CASE u \in Direct
        BY <3>1, <2>6 DEF Running, Writes
      <3>2. CASE u \in Clients
        <4>1. serving = t
          BY <1>1, <2>1 DEF HomeTypes, Received
        <4>2. Writes(call[u], e, p) => Received(call[u])
          BY DEF Writes, Received, ServiceSteps
        <4>3. Writes(call[u], e, p) => u = t
          BY <3>2, <4>1, <4>2, <2>1 DEF HomeTypes
        <4> QED
          BY <4>3, <2>1 DEF Writes, ServiceSteps
      <3> QED
        BY <3>1, <3>2 DEF Direct
    <2>8. PartRight(call, entities[e], Replay(e), e, p)
      BY <1>1, <2>6 DEF HomeInv, PartsInv
    <2> QED
      BY <2>7, <2>8 DEF PartRight
  <1>2. HomeInv /\ [\E t \in Threads : HACall(t) \/ HAStep(t)]_haVars
        => [\A t \in Clients, e \in Entities, p \in Parts :
              At(t, "get") /\ call[t].entity = e /\ call'[t].step = "reply"
              => Explained(e, p, call'[t].shown)]_haVars
    BY <1>1
  <1> QED
    BY <1>2, HomeInitInv, HomeStepInv, PTL DEF HASpec, RepliesAreWhole
=============================================================================
