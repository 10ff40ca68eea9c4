---------------------------- MODULE MemoryStore ----------------------------
(***************************************************************************)
(* simulation/layer2/memory_mock.py: facts in an SQLite file, stored, found   *)
(* by keywords and deleted by threads that share one connection.  A statement *)
(* and the commit after it are two steps; whichever thread commits, commits   *)
(* what all of them have written.  SQLite is external: one statement at a      *)
(* time, rows scanned in the order of their rowids, a new row after the last. *)
(***************************************************************************)
EXTENDS Callers, SequencesExt, FiniteSetsExt

CONSTANTS
  Tokens,     \* what split() yields, punctuation and capitals included
  WordOf,     \* each token in lower case without punctuation, NoWord if none is left
  NoWord,
  Texts, Queries,   \* sets of tokens
  TopKs,
  MaxCrashes

ASSUME MemoryConstants ==
  /\ NoWord \in Range(WordOf) /\ DOMAIN WordOf = Tokens
  /\ Texts \cup Queries \subseteq SUBSET Tokens
  /\ \A tokens \in Texts \cup Queries : IsFiniteSet(tokens)
  /\ TopKs \subseteq Nat /\ MaxCrashes \in Nat

VARIABLES
  facts,      \* the table as the connection sees it
  committed,  \* the table in the file
  opened,     \* the connection is open
  crashes,
  stored,     \* history: the ids store has returned
  deleted,    \* history: the ids for which delete has returned True, in order
  struck      \* history: the ids a DELETE statement has been about

tableVars == <<facts, committed>>
historyVars == <<stored, deleted, struck>>
memoryVars == <<callerVars, tableVars, opened, crashes, historyVars>>

Row(rowid, id, text) == [rowid |-> rowid, id |-> id, text |-> text]
Ids(table) == {row.id : row \in table}
LastRowid(table) == Max({0} \cup {row.rowid : row \in table})
Words(tokens) == {WordOf[k] : k \in tokens} \ {NoWord}
Overlap(query, text) == Cardinality(Words(query) \cap Words(text))

---------------------------------------------------------------------------
\* uuid4 never repeats: the number of the call is the id.
Store(t, text) ==
  /\ Begin(t, [step |-> "insert", op |-> "store", id |-> calls + 1, text |-> text])
  /\ UNCHANGED <<tableVars, opened, crashes, historyVars>>

Delete(t, id) ==
  /\ Begin(t, [step |-> "delete", op |-> "delete", id |-> id])
  /\ UNCHANGED <<tableVars, opened, crashes, historyVars>>

\* A query without a word returns [] at once.
Retrieve(t, query, top_k) ==
  /\ Begin(t, [step |-> IF Words(query) = {} THEN "found" ELSE "select",
               op |-> "retrieve", query |-> query, top_k |-> top_k,
               cursor |-> 0, scored |-> << >>, present |-> {}])
  /\ UNCHANGED <<tableVars, opened, crashes, historyVars>>

\* sqlite3 refuses to work on a closed connection; and when two threads each
\* find no transaction open, both begin one, and the second is refused.
Refused(t) ==
  \/ ~ opened
  \/ /\ call[t].step \in {"insert", "delete"}
     /\ \E u \in Threads \ {t} : call[u] # Idle /\ call[u].op # "retrieve"

Fail(t) ==
  /\ \E s \in {"insert", "delete", "commit", "select", "scan"} : At(t, s)
  /\ Refused(t)
  /\ Return(t)
  /\ UNCHANGED <<tableVars, opened, crashes, historyVars>>

Insert(t) ==
  /\ At(t, "insert") /\ opened
  /\ facts' = facts \cup {Row(LastRowid(facts) + 1, call[t].id, call[t].text)}
  /\ Goto(t, "commit")
  /\ UNCHANGED <<committed, opened, crashes, historyVars>>

\* Variant with a bug: whether the row is there is asked when the call begins.
DeleteRowsAsked(t) ==
  /\ At(t, "delete") /\ opened
  /\ facts' = {row \in facts : row.id # call[t].id}
  /\ Continue(t, [step |-> "commit", op |-> "delete", id |-> call[t].id,
                  found |-> call[t].id \in stored])
  /\ struck' = struck \cup {call[t].id}
  /\ UNCHANGED <<committed, opened, crashes, stored, deleted>>

\* DELETE, whose cursor keeps the number of rows it has deleted.
DeleteRows(t) ==
  /\ At(t, "delete") /\ opened
  /\ facts' = {row \in facts : row.id # call[t].id}
  /\ Continue(t, [step |-> "commit", op |-> "delete", id |-> call[t].id,
                  found |-> call[t].id \in Ids(facts)])
  /\ struck' = struck \cup {call[t].id}
  /\ UNCHANGED <<committed, opened, crashes, stored, deleted>>

Told(t) ==
  IF call[t].op = "store"
  THEN stored' = stored \cup {call[t].id} /\ UNCHANGED deleted
  ELSE /\ deleted' = IF call[t].found THEN Append(deleted, call[t].id) ELSE deleted
       /\ UNCHANGED stored

\* Variant with a bug: store does not commit.
CommitDeletes(t) ==
  /\ At(t, "commit") /\ opened
  /\ committed' = IF call[t].op = "delete" THEN facts ELSE committed
  /\ Told(t)
  /\ Return(t)
  /\ UNCHANGED <<facts, opened, crashes, struck>>

\* commit, and the return of the id or of rowcount > 0.
Commit(t) ==
  /\ At(t, "commit") /\ opened
  /\ committed' = facts
  /\ Told(t)
  /\ Return(t)
  /\ UNCHANGED <<facts, opened, crashes, struck>>

\* The SELECT is executed: present is history, the facts there are then.
Select(t) ==
  /\ At(t, "select") /\ opened
  /\ Continue(t, [call[t] EXCEPT !.step = "scan", !.present = Ids(facts)])
  /\ UNCHANGED <<tableVars, opened, crashes, historyVars>>

\* The rows the cursor has not reached.
Ahead(t) == {row \in facts : row.rowid > call[t].cursor}

\* Variant with a bug: the scan ends with the first top_k matches.
ScanFirstMatches(t) ==
  LET c == call[t]
      next == CHOOSE row \in Ahead(t) : \A r \in Ahead(t) : row.rowid <= r.rowid
      overlap == Overlap(c.query, next.text)
  IN
  /\ At(t, "scan") /\ opened /\ Ahead(t) # {}
  /\ Continue(t, [c EXCEPT !.cursor = IF Len(c.scored) < c.top_k THEN next.rowid
                                      ELSE LastRowid(facts),
       !.scored = IF overlap = 0 \/ Len(@) >= c.top_k THEN @
                  ELSE Append(@, [id |-> next.id, overlap |-> overlap])])
  /\ UNCHANGED <<tableVars, opened, crashes, historyVars>>

\* One turn of the loop: rows that share no word with the query are skipped.
Scan(t) ==
  LET c == call[t]
      next == CHOOSE row \in Ahead(t) : \A r \in Ahead(t) : row.rowid <= r.rowid
      overlap == Overlap(c.query, next.text)
  IN
  /\ At(t, "scan") /\ opened /\ Ahead(t) # {}
  /\ Continue(t, [c EXCEPT !.cursor = next.rowid,
       !.scored = IF overlap = 0 THEN @
                  ELSE Append(@, [id |-> next.id, overlap |-> overlap])])
  /\ UNCHANGED <<tableVars, opened, crashes, historyVars>>

\* The score divides the overlap by the number of words of the query; the sort
\* is stable and descending; the first top_k are returned.
ByScore(scored) ==
  LET before(a, b) == \/ scored[a].overlap > scored[b].overlap
                      \/ scored[a].overlap = scored[b].overlap /\ a < b
      orders == {f \in [DOMAIN scored -> DOMAIN scored] : Range(f) = DOMAIN scored}
      order == CHOOSE f \in orders :
                 \A j, k \in DOMAIN scored : j < k => before(f[j], f[k])
  IN  [k \in DOMAIN scored |-> scored[order[k]]]

Sort(t) ==
  LET c == call[t] IN
  /\ At(t, "scan") /\ opened /\ Ahead(t) = {}
  /\ Continue(t, [c EXCEPT !.step = "found",
       !.scored = SubSeq(ByScore(@), 1, Min({Len(@), c.top_k}))])
  /\ UNCHANGED <<tableVars, opened, crashes, historyVars>>

RetrieveReturns(t) ==
  /\ At(t, "found") /\ Return(t)
  /\ UNCHANGED <<tableVars, opened, crashes, historyVars>>

---------------------------------------------------------------------------
\* close rolls back what is not committed; calls in flight then fail.
Close(t) ==
  /\ opened /\ call[t] = Idle /\ calls < MaxCalls
  /\ calls' = calls + 1
  /\ opened' = FALSE /\ facts' = committed
  /\ UNCHANGED <<call, committed, crashes, historyVars>>

\* The file is opened again, by a new object.
Open ==
  /\ ~ opened /\ \A t \in Threads : call[t] = Idle
  /\ opened' = TRUE
  /\ UNCHANGED <<callerVars, tableVars, crashes, historyVars>>

\* The process dies and starts again on the same file.
Crash ==
  /\ crashes < MaxCrashes
  /\ crashes' = crashes + 1
  /\ call' = [t \in Threads |-> Idle]
  /\ facts' = committed /\ opened' = TRUE
  /\ UNCHANGED <<calls, committed, historyVars>>

MemoryInit ==
  /\ facts = {} /\ committed = {}
  /\ opened = TRUE /\ crashes = 0
  /\ stored = {} /\ deleted = << >> /\ struck = {}

MemoryCall(t) ==
  \/ \E text \in Texts : Store(t, text)
  \/ \E id \in stored : Delete(t, id)
  \/ \E query \in Queries, k \in TopKs : Retrieve(t, query, k)
  \/ Close(t)

MemoryStep(t) ==
  \/ Insert(t) \/ DeleteRows(t) \/ Commit(t) \/ Fail(t)
  \/ Select(t) \/ Scan(t) \/ Sort(t) \/ RetrieveReturns(t)

MemorySpec ==
  /\ CallersInit /\ MemoryInit
  /\ [][Crash \/ Open \/ \E t \in Threads : MemoryCall(t) \/ MemoryStep(t)]_memoryVars

---------------------------------------------------------------------------
\* An id that store has returned is the id of a fact in the file, whatever
\* crashes, closes or fails afterwards, until a delete of it has begun its work;
\* no call about another fact takes it away.
StoredSurvives == stored \ struck \subseteq Ids(committed)

\* "Returns true if found and deleted": of several deletes of one fact at most
\* one returns True, and a fact for which one did never comes back.
DeletedOnce ==
  /\ IsInjective(deleted)
  /\ Range(deleted) \cap Ids(committed) = {}

\* retrieve returns at most top_k facts, best first, each sharing a word with
\* the query.  A fact that was there all the time and is not returned is no
\* better than any that is, and nothing is left out while there is room, however
\* other threads store and delete during the scan.
BestFactsFound ==
  \A t \in Threads :
    opened /\ At(t, "found") =>
      LET c == call[t]
          returned == {c.scored[k].id : k \in DOMAIN c.scored}
      IN  /\ Len(c.scored) <= c.top_k
          /\ \A j, k \in DOMAIN c.scored : j < k => c.scored[j].overlap >= c.scored[k].overlap
          /\ \A k \in DOMAIN c.scored : c.scored[k].overlap > 0
          /\ \A row \in facts :
               row.id \in c.present \ returned /\ Overlap(c.query, row.text) > 0 =>
                 /\ Len(c.scored) = c.top_k
                 /\ \A k \in DOMAIN c.scored :
                      c.scored[k].overlap >= Overlap(c.query, row.text)
=============================================================================
