---------------------------- MODULE TrackerProofs ----------------------------
(***************************************************************************)
(* Proofs about SimulationStatus, whose listeners may call the tracker again   *)
(* from inside their callbacks, for any number of threads, interfaces,        *)
(* implementations, listeners and calls, and any depth of nesting.           *)
(***************************************************************************)
EXTENDS SimulationStatus, BasicLemmas

USE TrackerConstants

---------------------------------------------------------------------------
\* A table of tables with one entry replaced: what a listener has heard.
LEMMA UpdateTyped ==
  ASSUME NEW A, NEW B, NEW C, NEW h \in [A -> [B -> C]],
         NEW a \in A, NEW b \in B, NEW c \in C
  PROVE  [h EXCEPT ![a][b] = c] \in [A -> [B -> C]]
  OBVIOUS

\* A frame whose loop has moved on to the next listener.
LEMMA NextFrameTyped ==
  ASSUME NEW E, NEW L, NEW f \in [event : E, list : L, next : Nat \ {0}]
  PROVE  [f EXCEPT !.next = @ + 1] \in [event : E, list : L, next : Nat \ {0}]
  OBVIOUS

---------------------------------------------------------------------------
\* What the operators of the tracker return.
LEMMA RecordsTyped == \A m \in Implementations : StatusRecord(m) \in Records
  BY DEF Records

\* What StatusEvent builds is an event.
LEMMA EventsTyped ==
  ASSUME NEW c \in {"registered", "swapped", "unregistered"}, NEW i \in Interfaces,
         NEW s \in Records \cup {NoRecord}, NEW p \in Records \cup {NoRecord}
  PROVE  StatusEvent(c, i, s, p) \in Events
  BY DEF StatusEvent, Events

---------------------------------------------------------------------------
\* _emit pushes a well-typed frame.
LEMMA EmitTypeOK ==
  ASSUME TrackerTypeOK, NEW t \in Threads, NEW e \in Events, emit(t, e)
  PROVE  /\ owner' \in Threads
         /\ frames' \in Seq([event : Events, list : 1..Len(lists), next : Nat \ {0}])
  BY DEF TrackerTypeOK, emit

\* The swap handler keeps the types of the tracker.
LEMMA HandlerTypeOK ==
  ASSUME TrackerTypeOK, NEW t \in Threads, NEW i \in Interfaces, NEW old \in Implementations,
         NEW new \in Implementations, handler(t, i, old, new), calls' \in 0..MaxCalls
  PROVE  TrackerTypeOK'
  <1>1. StatusEvent("swapped", i, StatusRecord(new), StatusRecord(old)) \in Events
    BY RecordsTyped, EventsTyped
  <1>2. QED
    BY <1>1, EmitTypeOK, RecordsTyped DEF TrackerTypeOK, handler

\* register keeps the types of the tracker.
LEMMA RegisterTypeOK ==
  ASSUME TrackerTypeOK, NEW t \in Threads, NEW i \in Interfaces,
         NEW m \in Implementations, register(t, i, m), calls' \in 0..MaxCalls
  PROVE  TrackerTypeOK'
  <1>1. StatusEvent("registered", i, StatusRecord(m), NoRecord) \in Events
    BY RecordsTyped, EventsTyped
  <1>2. QED
    BY <1>1, EmitTypeOK, RecordsTyped DEF TrackerTypeOK, register

\* unregister keeps the types of the tracker.
LEMMA UnregisterTypeOK ==
  ASSUME TrackerTypeOK, NEW t \in Threads, NEW i \in Interfaces, unregister(t, i),
         calls' \in 0..MaxCalls
  PROVE  TrackerTypeOK'
  <1>1. StatusEvent("unregistered", i, NoRecord, NoRecord) \in Events
    BY EventsTyped
  <1>2. QED
    BY <1>1, EmitTypeOK DEF TrackerTypeOK, unregister

\* remove_listener binds _listeners to a sequence of listeners.
LEMMA RebindTyped ==
  ASSUME NEW l, lists \in Seq(Seq(Listeners)), lists # << >>, rebind_without(l)
  PROVE  /\ lists' \in Seq(Seq(Listeners))
         /\ Len(lists') = Len(lists) + 1
         /\ \A k \in 1..Len(lists) : lists'[k] = lists[k]
         /\ Members(lists'[Len(lists')]) \subseteq Members(lists[Len(lists)])
  <1> DEFINE cur == current_listeners
             kept == {k \in 1..Len(cur) : cur[k] # l \/ l \in BoundMethods}
             new(f) == [j \in 1..Cardinality(kept) |-> cur[f[j]]]
  <1>1. cur \in Seq(Listeners) /\ cur = lists[Len(lists)]
    BY DEF current_listeners
  <1>2. Cardinality(kept) \in Nat
    <2>1. IsFiniteSet(1..Len(cur))
      BY <1>1, FS_Interval
    <2>2. kept \subseteq 1..Len(cur)
      OBVIOUS
    <2>3. QED
      BY <2>1, <2>2, FS_Subset, FS_CardinalityType
  <1>3. PICK f \in Enumerations(kept) : lists' = Append(lists, new(f))
    BY DEF rebind_without
  <1>4. f \in [1..Cardinality(kept) -> kept]
    BY <1>3 DEF Enumerations
  <1>5. \A j \in 1..Cardinality(kept) : f[j] \in 1..Len(cur)
    BY <1>4
  <1> HIDE DEF kept
  <1>6. new(f) \in Seq(Listeners) /\ Len(new(f)) = Cardinality(kept)
    <2>1. \A j \in 1..Cardinality(kept) : cur[f[j]] \in Listeners
      BY <1>1, <1>5
    <2>2. new(f) \in [1..Cardinality(kept) -> Listeners]
      BY <2>1
    <2>3. QED
      BY <1>2, <2>2, SeqFromFunction
  <1>7. Members(new(f)) \subseteq Members(cur)
    BY <1>5, <1>6 DEF Members
  <1> HIDE DEF new, kept, cur
  <1>8. QED
    BY <1>1, <1>3, <1>6, <1>7

\* add_listener keeps the types of the tracker.
LEMMA AddTypeOK ==
  ASSUME TrackerTypeOK, NEW t \in Threads, NEW l \in Listeners, add_listener(t, l),
         calls' \in 0..MaxCalls
  PROVE  TrackerTypeOK'
  <1>1. current_listeners \in Seq(Listeners) /\ Len(lists) \in Nat \ {0}
    BY DEF TrackerTypeOK, current_listeners
  <1>2. lists' \in Seq(Seq(Listeners)) /\ Len(lists') = Len(lists)
    BY <1>1 DEF TrackerTypeOK, add_listener, current_listeners
  <1>3. QED
    BY <1>1, <1>2 DEF TrackerTypeOK, add_listener

\* remove_listener keeps the types of the tracker.
LEMMA RemoveTypeOK ==
  ASSUME TrackerTypeOK, NEW t \in Threads, NEW l \in Listeners, remove_listener(t, l),
         calls' \in 0..MaxCalls
  PROVE  TrackerTypeOK'
  <1>1. current_listeners \in Seq(Listeners) /\ Len(lists) \in Nat \ {0}
    BY DEF TrackerTypeOK, current_listeners
  <1>2. lists' \in Seq(Seq(Listeners)) /\ Len(lists') = Len(lists) + 1
    BY RebindTyped DEF TrackerTypeOK, remove_listener
  <1>3. frames \in Seq([event : Events, list : 1..Len(lists'), next : Nat \ {0}])
    <2> DEFINE F == [event : Events, list : 1..Len(lists), next : Nat \ {0}]
               G == [event : Events, list : 1..Len(lists'), next : Nat \ {0}]
    <2>1. F \subseteq G
      BY <1>1, <1>2
    <2>2. frames \in Seq(F)
      BY DEF TrackerTypeOK
    <2> HIDE DEF F, G
    <2>3. frames \in Seq(G)
      BY <2>1, <2>2, SeqMonotonic
    <2>4. QED
      BY <2>3 DEF G
  <1>4. QED
    BY <1>1, <1>2, <1>3 DEF TrackerTypeOK, remove_listener

\* One turn of the loop of _emit keeps the types of the tracker.
LEMMA DeliverTypeOK ==
  ASSUME TrackerTypeOK, NEW t \in Threads, Deliver(t)
  PROVE  TrackerTypeOK'
  <1> DEFINE l == lists[Frame.list][Frame.next]
             i == Frame.event.interface
             c == Frame.event.status
             F == [event : Events, list : 1..Len(lists), next : Nat \ {0}]
  <1>1. frames \in Seq(F) /\ Len(frames) \in Nat \ {0} /\ Frame \in F
    BY SeqLast DEF TrackerTypeOK, Deliver, Frame
  <1>2. l \in Listeners
    <2>1. lists[Frame.list] \in Seq(Listeners)
      BY <1>1 DEF TrackerTypeOK
    <2>2. Frame.next \in 1..Len(lists[Frame.list])
      BY <1>1, <2>1 DEF Deliver
    <2>3. QED
      BY <2>1, <2>2
  <1>3. frames' = [frames EXCEPT ![Len(frames)] = [Frame EXCEPT !.next = @ + 1]]
    BY DEF Deliver, Frame
  <1>4. frames' \in Seq(F)
    <2>1. [Frame EXCEPT !.next = @ + 1] \in F
      <3> DEFINE L == 1..Len(lists)
      <3> HIDE DEF L
      <3>1. Frame \in [event : Events, list : L, next : Nat \ {0}]
        BY <1>1 DEF L
      <3>2. QED
        BY <3>1, NextFrameTyped DEF L
    <2>2. Len(frames) \in 1..Len(frames)
      BY <1>1
    <2> HIDE DEF F
    <2>3. QED
      BY <1>1, <1>3, <2>1, <2>2, SeqUpdate
  <1>5. i \in Interfaces /\ c \in Records \cup {NoRecord}
    BY <1>1 DEF Events
  <1>6. heard' = heard \/ heard' = [heard EXCEPT ![l][i] = c]
    BY DEF Deliver
  <1> HIDE DEF l, i, c
  <1>7. heard' \in [Listeners -> [Interfaces -> Records \cup {NoRecord, Unknown}]]
    <2> DEFINE C == Records \cup {NoRecord, Unknown}
    <2>1. heard \in [Listeners -> [Interfaces -> C]]
      BY DEF TrackerTypeOK
    <2>2. c \in C
      BY <1>5
    <2> HIDE DEF C
    <2>3. [heard EXCEPT ![l][i] = c] \in [Listeners -> [Interfaces -> C]]
      BY <1>2, <1>5, <2>1, <2>2, UpdateTyped
    <2>4. QED
      BY <1>6, <2>1, <2>3 DEF C
  <1>8. QED
    BY <1>4, <1>7 DEF TrackerTypeOK, Deliver

\* The end of the loop of _emit keeps the types of the tracker.
LEMMA EmitDoneTypeOK ==
  ASSUME TrackerTypeOK, NEW t \in Threads, EmitDone(t)
  PROVE  TrackerTypeOK'
  <1>1. frames' \in Seq([event : Events, list : 1..Len(lists), next : Nat \ {0}])
    BY SeqFront DEF TrackerTypeOK, EmitDone
  <1>2. QED
    BY <1>1 DEF TrackerTypeOK, EmitDone

\* The positions of a list in increasing order leave none out.
LEMMA EnumerationOnto ==
  ASSUME NEW n \in Nat, NEW P \in SUBSET (1..n), NEW f \in Enumerations(P)
  PROVE  Cardinality(P) \in 0..n /\ P = {f[j] : j \in 1..Cardinality(P)}
  <1> DEFINE m == Cardinality(P)
             N == 1..n
             M == 1..m
  <1>1. IsFiniteSet(N) /\ Cardinality(N) = n
    BY FS_Interval
  <1>2. P \in SUBSET N
    OBVIOUS
  <1> HIDE DEF N
  <1>3. IsFiniteSet(P) /\ m <= n
    BY <1>1, <1>2, FS_Subset
  <1>4. m \in Nat
    BY <1>3, FS_CardinalityType
  <1>5. f \in [M -> P] /\ \A j, k \in M : j < k => f[j] < f[k]
    BY DEF Enumerations
  <1> HIDE DEF m
  <1>6. IsFiniteSet(M) /\ Cardinality(M) = m
    BY <1>4, FS_Interval
  <1>7. \A j, k \in M : f[j] = f[k] => j = k
    <2> TAKE j, k \in M
    <2>1. f[j] \in 1..n /\ f[k] \in 1..n
      BY <1>5
    <2>2. j < k \/ k < j \/ j = k
      BY <1>4
    <2> QED
      BY <1>5, <2>1, <2>2
  <1> HIDE DEF M
  <1>8. f \in Injection(M, P)
    BY <1>5, <1>7 DEF Injection, IsInjective
  <1>9. f \in Surjection(M, P)
    BY <1>3, <1>6, <1>8, FS_Injection DEF m
  <1>10. P = {f[j] : j \in M}
    BY <1>5, <1>9 DEF Surjection
  <1> QED
    BY <1>3, <1>4, <1>10 DEF m, M

\* The members of a list with one more listener.
LEMMA MembersOfAppend ==
  ASSUME NEW S, NEW s \in Seq(S), NEW x \in S
  PROVE  Members(Append(s, x)) = Members(s) \cup {x}
  <1>1. /\ Len(s) \in Nat /\ Len(Append(s, x)) = Len(s) + 1
        /\ Append(s, x)[Len(s) + 1] = x
        /\ \A k \in 1..Len(s) : Append(s, x)[k] = s[k]
    OBVIOUS
  <1>2. \A k \in 1..(Len(s) + 1) : k \in 1..Len(s) \/ k = Len(s) + 1
    BY <1>1
  <1>3. 1..Len(s) \subseteq 1..(Len(s) + 1) /\ Len(s) + 1 \in 1..(Len(s) + 1)
    BY <1>1
  <1> DEFINE r == Append(s, x)
  <1> HIDE DEF r
  <1>4. {r[k] : k \in 1..Len(r)} = {s[k] : k \in 1..Len(s)} \cup {x}
    BY <1>1, <1>2, <1>3 DEF r
  <1>5. QED
    BY <1>4 DEF Members, r

\* Counting a call stays within the bound.
LEMMA CountTyped == TrackerTypeOK /\ CountCall => calls' \in 0..MaxCalls
  BY DEF TrackerTypeOK, CountCall

\* Every step of the tracker keeps its types.
LEMMA TrackerStepTypeOK ==
  ASSUME TrackerTypeOK, [TrackerNext]_trackerVars
  PROVE  TrackerTypeOK'
  <1>1. ASSUME NEW t \in Threads, Register(t) PROVE TrackerTypeOK'
    BY <1>1, CountTyped, RegisterTypeOK DEF Register
  <1>2. ASSUME NEW t \in Threads, Unregister(t) PROVE TrackerTypeOK'
    BY <1>2, CountTyped, UnregisterTypeOK DEF Unregister
  <1>3. ASSUME NEW t \in Threads, AddListener(t) PROVE TrackerTypeOK'
    BY <1>3, CountTyped, AddTypeOK DEF AddListener
  <1>4. ASSUME NEW t \in Threads, RemoveListener(t) PROVE TrackerTypeOK'
    BY <1>4, CountTyped, RemoveTypeOK DEF RemoveListener
  <1>5. ASSUME NEW t \in Threads, Deliver(t) \/ EmitDone(t) PROVE TrackerTypeOK'
    BY <1>5, DeliverTypeOK, EmitDoneTypeOK
  <1>6. CASE UNCHANGED trackerVars
    BY <1>6 DEF TrackerTypeOK, trackerVars
  <1> QED
    BY <1>1, <1>2, <1>3, <1>4, <1>5, <1>6 DEF TrackerNext, TrackerAtRest

\* The tracker starts well-typed.
LEMMA TrackerInitTypeOK == TrackerInit => TrackerTypeOK
  BY DEF TrackerInit, TrackerTypeOK, Members

\* The registry, the lists, the running loops and what each listener has heard
\* keep their types however deep the calls of the tracker nest.
THEOREM TrackerTypesHold == TrackerSpec => []TrackerTypeOK
  BY TrackerInitTypeOK, TrackerStepTypeOK, PTL DEF TrackerSpec

---------------------------------------------------------------------------
\* Without bound methods, remove_listener takes out every occurrence, so that the
\* listeners of the current list are wanted.
LEMMA GoneFromList ==
  ASSUME TrackerTypeOK, NEW l \in Listeners, rebind_without(l), l \notin BoundMethods
  PROVE  l \notin Members(lists'[Len(lists')])
  <1> DEFINE cur == current_listeners
             kept == {k \in 1..Len(cur) : cur[k] # l \/ l \in BoundMethods}
             new(f) == [j \in 1..Cardinality(kept) |-> cur[f[j]]]
  <1>1. cur \in Seq(Listeners) /\ Len(cur) \in Nat
    BY DEF TrackerTypeOK, current_listeners
  <1>2. PICK f \in Enumerations(kept) : lists' = Append(lists, new(f))
    BY DEF rebind_without
  <1>3. kept \in SUBSET (1..Len(cur)) /\ \A k \in kept : cur[k] # l
    OBVIOUS
  <1> HIDE DEF kept
  <1>4. f \in [1..Cardinality(kept) -> kept] /\ Cardinality(kept) \in Nat
    <2>1. Cardinality(kept) \in 0..Len(cur)
      BY <1>1, <1>2, <1>3, EnumerationOnto
    <2>2. f \in [1..Cardinality(kept) -> kept]
      BY <1>2 DEF Enumerations
    <2> QED
      BY <2>1, <2>2
  <1>5. \A j \in 1..Cardinality(kept) : new(f)[j] # l
    BY <1>3, <1>4
  <1>6. Len(new(f)) = Cardinality(kept)
    BY <1>4
  <1> HIDE DEF new
  <1>7. lists'[Len(lists')] = new(f)
    BY <1>2 DEF TrackerTypeOK
  <1> QED
    BY <1>5, <1>6, <1>7 DEF Members

\* The others stay.
LEMMA KeptInList ==
  ASSUME TrackerTypeOK, NEW l \in Listeners, rebind_without(l),
         NEW k \in 1..Len(current_listeners), current_listeners[k] # l
  PROVE  current_listeners[k] \in Members(lists'[Len(lists')])
  <1> DEFINE cur == current_listeners
             kept == {q \in 1..Len(cur) : cur[q] # l \/ l \in BoundMethods}
             new(f) == [q \in 1..Cardinality(kept) |-> cur[f[q]]]
             N == Cardinality(kept)
  <1>1. cur \in Seq(Listeners) /\ Len(cur) \in Nat
    BY DEF TrackerTypeOK, current_listeners
  <1>2. PICK f \in Enumerations(kept) : lists' = Append(lists, new(f))
    BY DEF rebind_without
  <1>3. kept \in SUBSET (1..Len(cur)) /\ k \in kept
    OBVIOUS
  <1> HIDE DEF kept
  <1>4. N \in 0..Len(cur) /\ kept = {f[q] : q \in 1..N}
    <2>1. f \in Enumerations(kept)
      BY <1>2
    <2> HIDE DEF new
    <2> QED
      BY <1>1, <1>3, <2>1, EnumerationOnto
  <1>5. Len(new(f)) = N /\ \A q \in 1..N : new(f)[q] = cur[f[q]]
    BY <1>4
  <1>6. PICK q \in 1..N : f[q] = k
    BY <1>3, <1>4
  <1> HIDE DEF new, N
  <1>7. lists'[Len(lists')] = new(f)
    BY <1>2 DEF TrackerTypeOK
  <1> QED
    BY <1>5, <1>6, <1>7 DEF Members

\* What remove_listener leaves is in the order in which it was.
LEMMA OrderKept ==
  ASSUME TrackerTypeOK, NEW l \in Listeners, rebind_without(l),
         NEW j \in 1..Len(current_listeners), NEW k \in 1..Len(current_listeners), j < k,
         current_listeners[j] # l,
         current_listeners[k] \in Members(lists'[Len(lists')])
  PROVE  \E m, n \in 1..Len(lists'[Len(lists')]) :
           /\ m < n
           /\ lists'[Len(lists')][m] = current_listeners[j]
           /\ lists'[Len(lists')][n] = current_listeners[k]
  <1> DEFINE cur == current_listeners
             kept == {q \in 1..Len(cur) : cur[q] # l \/ l \in BoundMethods}
             new(f) == [q \in 1..Cardinality(kept) |-> cur[f[q]]]
             N == Cardinality(kept)
  <1>1. cur \in Seq(Listeners) /\ Len(cur) \in Nat
    BY DEF TrackerTypeOK, current_listeners
  <1>2. PICK f \in Enumerations(kept) : lists' = Append(lists, new(f))
    BY DEF rebind_without
  <1>3. kept \in SUBSET (1..Len(cur)) /\ j \in kept
        /\ \A q \in 1..Len(cur) : q \in kept <=> cur[q] # l \/ l \in BoundMethods
    OBVIOUS
  <1> HIDE DEF kept
  <1>4. /\ f \in [1..N -> kept] /\ N \in Nat /\ kept = {f[q] : q \in 1..N}
        /\ \A p, q \in 1..N : p < q => f[p] < f[q]
    <2>1. N \in 0..Len(cur) /\ kept = {f[q] : q \in 1..N}
      BY <1>1, <1>2, <1>3, EnumerationOnto
    <2>2. f \in [1..N -> kept] /\ \A p, q \in 1..N : p < q => f[p] < f[q]
      BY <1>2 DEF Enumerations
    <2> QED
      BY <2>1, <2>2
  <1>5. Len(new(f)) = N /\ \A q \in 1..N : new(f)[q] = cur[f[q]]
    BY <1>4
  <1> HIDE DEF new, N
  <1>6. lists'[Len(lists')] = new(f)
    BY <1>2 DEF TrackerTypeOK
  <1>7. PICK q \in 1..N : new(f)[q] = cur[k]
    BY <1>5, <1>6 DEF Members
  <1>8. k \in kept
    BY <1>3, <1>4, <1>5, <1>7
  <1>9. PICK m \in 1..N : f[m] = j
    BY <1>3, <1>4
  <1>10. PICK n \in 1..N : f[n] = k
    BY <1>4, <1>8
  <1>11. m < n
    <2>1. m < n \/ m = n \/ n < m
      BY <1>4
    <2>2. m # n /\ ~ (k < j)
      BY <1>1, <1>9, <1>10
    <2>3. ~ (n < m)
      BY <1>4, <1>9, <1>10, <2>2
    <2> QED
      BY <2>1, <2>2, <2>3
  <1> QED
    BY <1>5, <1>6, <1>9, <1>10, <1>11

\* Editing the list: the listeners of the current one are wanted.
LEMMA WantedKept ==
  ASSUME BoundMethods = {}, TrackerTypeOK, RemovedListenersAreGone, [TrackerNext]_trackerVars
  PROVE  RemovedListenersAreGone'
  <1> USE DEF RemovedListenersAreGone
  <1>1. ASSUME NEW t \in Threads, NEW l \in Listeners, add_listener(t, l)
        PROVE  RemovedListenersAreGone'
    <2>1. current_listeners \in Seq(Listeners)
          /\ current_listeners' = Append(current_listeners, l)
      BY <1>1 DEF TrackerTypeOK, add_listener, current_listeners
    <2> QED
      BY <1>1, <2>1, MembersOfAppend DEF add_listener
  <1>2. ASSUME NEW t \in Threads, NEW l \in Listeners, remove_listener(t, l)
        PROVE  RemovedListenersAreGone'
    <2>1. Members(current_listeners') \subseteq Members(current_listeners)
          /\ l \notin Members(current_listeners')
      BY <1>2, RebindTyped, GoneFromList
      DEF TrackerTypeOK, remove_listener, current_listeners
    <2> QED
      BY <1>2, <2>1 DEF remove_listener, Members
  <1>3. CASE UNCHANGED <<lists, wanted>>
    BY <1>3 DEF current_listeners, Members
  <1> QED
    BY <1>1, <1>2, <1>3
    DEF TrackerNext, TrackerAtRest, trackerVars, Register, register, Unregister, unregister,
        AddListener, RemoveListener, Deliver, EmitDone

\* If no listener is a bound method, a listener hears only while it is wanted, or
\* from a loop that was already running over the list it was in when a callback
\* removed it.
THEOREM OnlyTheWantedHear ==
  ASSUME BoundMethods = {}
  PROVE  TrackerSpec => OnlyWantedHear
  <1> DEFINE Told(l) ==
        \/ l \in wanted'
        \/ \E k \in 1..Len(frames) :
             frames[k].list # Len(lists) /\ l \in Members(lists[frames[k].list])
  <1>1. TrackerInit => RemovedListenersAreGone
    BY DEF TrackerInit, RemovedListenersAreGone, current_listeners
  <1>2. TrackerTypeOK /\ RemovedListenersAreGone /\ [TrackerNext]_trackerVars
          => [\A l \in Listeners : heard'[l] # heard[l] => Told(l)]_trackerVars
    <2> SUFFICES ASSUME TrackerTypeOK, RemovedListenersAreGone, [TrackerNext]_trackerVars,
                        NEW l \in Listeners, heard'[l] # heard[l]
                 PROVE  Told(l)
      BY DEF trackerVars
    <2>1. ASSUME NEW t \in Threads, NEW m \in Listeners, add_listener(t, m)
          PROVE  Told(l)
      BY <2>1 DEF add_listener, TrackerTypeOK
    <2>2. ASSUME NEW t \in Threads, Deliver(t)
          PROVE  Told(l)
      <3> DEFINE told == lists[Frame.list][Frame.next]
                 F == [event : Events, list : 1..Len(lists), next : Nat \ {0}]
      <3>1. frames \in Seq(F) /\ Len(frames) \in Nat \ {0} /\ Frame \in F
        BY <2>2, SeqLast DEF TrackerTypeOK, Deliver, Frame
      <3>2. lists[Frame.list] \in Seq(Listeners) /\ Frame.next \in 1..Len(lists[Frame.list])
        <4>1. lists[Frame.list] \in Seq(Listeners)
          BY <3>1 DEF TrackerTypeOK
        <4> QED
          BY <2>2, <3>1, <4>1 DEF Deliver
      <3>3. l = told
        BY <2>2 DEF TrackerTypeOK, Deliver
      <3>4. l \in Members(lists[Frame.list])
        BY <3>2, <3>3 DEF Members
      <3>5. CASE Frame.list = Len(lists)
        BY <2>2, <3>4, <3>5 DEF RemovedListenersAreGone, current_listeners, Deliver
      <3>6. CASE Frame.list # Len(lists)
        BY <3>1, <3>4, <3>6 DEF Frame
      <3> QED
        BY <3>5, <3>6
    <2>3. CASE UNCHANGED heard
      BY <2>3
    <2> QED
      BY <2>1, <2>2, <2>3
      DEF TrackerNext, TrackerAtRest, trackerVars, Register, register, Unregister, unregister,
          AddListener, RemoveListener, remove_listener, EmitDone
  <1> QED
    BY <1>1, <1>2, TrackerInitTypeOK, TrackerStepTypeOK, WantedKept, PTL
    DEF TrackerSpec, OnlyWantedHear

---------------------------------------------------------------------------
\* Why the views settle although a callback may publish.  A loop of _emit is
\* innermost and announces what the registry says, or a publishing listener has had
\* its turn in it: those it tells from then on are placed after that listener.  The
\* order of two listeners is the same in every list that holds both.
PublisherBefore(a, k) == \E j \in 1..Len(lists[a]) : j < k /\ lists[a][j] \in Publishing

StackInv ==
  /\ owner = NoThread <=> frames = << >>
  /\ \A k \in 1..Len(frames) :
       /\ frames[k].next <= Len(lists[frames[k].list]) + 1
       /\ \/ k = Len(frames) /\ frames[k].event.status = interfaces[frames[k].event.interface]
          \/ PublisherBefore(frames[k].list, frames[k].next)

OrderInv ==
  \A a \in 1..Len(lists) : \A k \in 1..Len(lists[a]) :
    /\ lists[a][k] \in Publishing => \E p \in Publishing : p \in Members(current_listeners)
    /\ PublisherBefore(a, k) /\ lists[a][k] \in Members(current_listeners) =>
         lists[a][k] \in Overtaken

Pending(l, i) ==
  /\ frames # << >> /\ i = Frame.event.interface
  /\ Frame.event.status = interfaces[i]
  /\ \E k \in 1..Len(lists[Frame.list]) : k >= Frame.next /\ lists[Frame.list][k] = l

SettleInv ==
  \A l \in Members(current_listeners) \ (Faulty \cup Overtaken) : \A i \in Interfaces :
    heard[l][i] \in {interfaces[i], Unknown} \/ Pending(l, i)

NestInv == TrackerTypeOK /\ StackInv /\ OrderInv /\ SettleInv

\* Who is overtaken, by position.
LEMMA OvertakenAt ==
  ASSUME TrackerTypeOK, NEW l
  PROVE  l \in Overtaken <=>
           \E k \in 1..Len(current_listeners) :
             current_listeners[k] = l /\ PublisherBefore(Len(lists), k)
  <1>1. current_listeners \in Seq(Listeners) /\ Len(current_listeners) \in Nat
        /\ lists[Len(lists)] = current_listeners
    BY DEF TrackerTypeOK, current_listeners
  <1>2. \A k \in 1..Len(current_listeners) :
          (\E j \in 1..(k - 1) : current_listeners[j] \in Publishing)
            <=> PublisherBefore(Len(lists), k)
    BY <1>1 DEF PublisherBefore
  <1> QED
    BY <1>2 DEF Overtaken

\* The same of the next state.
LEMMA OvertakenAtNext ==
  ASSUME TrackerTypeOK', NEW l
  PROVE  l \in Overtaken' <=>
           \E k \in 1..Len(current_listeners') :
             current_listeners'[k] = l /\ PublisherBefore(Len(lists), k)'
  <1>1. current_listeners' \in Seq(Listeners) /\ Len(current_listeners') \in Nat
        /\ lists'[Len(lists')] = current_listeners'
    BY DEF TrackerTypeOK, current_listeners
  <1>2. \A k \in 1..Len(current_listeners') :
          (\E j \in 1..(k - 1) : current_listeners'[j] \in Publishing)
            <=> PublisherBefore(Len(lists), k)'
    BY <1>1 DEF PublisherBefore
  <1> QED
    BY <1>2 DEF Overtaken

\* The running loop is over a list, at a position of it or just past its end.
LEMMA InnermostFrame ==
  ASSUME TrackerTypeOK, StackInv, frames # << >>
  PROVE  /\ Len(frames) \in Nat \ {0}
         /\ Frame \in [event : Events, list : 1..Len(lists), next : Nat \ {0}]
         /\ lists[Frame.list] \in Seq(Listeners)
         /\ Frame.next <= Len(lists[Frame.list]) + 1
         /\ \/ Frame.event.status = interfaces[Frame.event.interface]
            \/ PublisherBefore(Frame.list, Frame.next)
  <1> DEFINE F == [event : Events, list : 1..Len(lists), next : Nat \ {0}]
  <1>1. frames \in Seq(F)
    BY DEF TrackerTypeOK
  <1> HIDE DEF F
  <1>2. Len(frames) \in Nat \ {0} /\ Frame \in F
    BY <1>1, SeqLast DEF Frame
  <1>3. lists[Frame.list] \in Seq(Listeners)
    BY <1>2 DEF TrackerTypeOK, F
  <1> QED
    BY <1>2, <1>3 DEF StackInv, Frame, F

\* Those a loop tells after a publishing listener had its turn are overtaken.
LEMMA LaterIsOvertaken ==
  ASSUME NestInv, NEW a \in 1..Len(lists), NEW n \in Nat, PublisherBefore(a, n),
         NEW k \in 1..Len(lists[a]), k >= n, lists[a][k] \in Members(current_listeners)
  PROVE  lists[a][k] \in Overtaken
  <1>1. lists[a] \in Seq(Listeners)
    BY DEF NestInv, TrackerTypeOK
  <1>2. PublisherBefore(a, k)
    BY <1>1 DEF PublisherBefore
  <1> QED
    BY <1>2 DEF NestInv, OrderInv

\* register and unregister, from the application or from inside a callback: the
\* new loop announces what the registry says to all, and the loops it interrupts
\* have only overtaken listeners left to tell.
LEMMA EmitNestInv ==
  ASSUME NestInv, TrackerTypeOK', NEW t \in Threads, MayEnter(t, Publishing),
         NEW c, NEW p, NEW i \in Interfaces, NEW r,
         interfaces' = [interfaces EXCEPT ![i] = r],
         emit(t, StatusEvent(c, i, r, p)), UNCHANGED <<lists, heard>>
  PROVE  NestInv'
  <1> USE DEF NestInv
  <1> DEFINE new == [event |-> StatusEvent(c, i, r, p), list |-> Len(lists), next |-> 1]
             n == Len(frames)
  <1>1. /\ frames' = Append(frames, new) /\ n \in Nat /\ Len(frames') = n + 1
        /\ frames'[n + 1] = new /\ \A k \in 1..n : frames'[k] = frames[k]
        /\ owner' = t /\ owner' # NoThread
        /\ frames' # << >>
    <2>1. frames' = Append(frames, new) /\ owner' = t /\ owner' # NoThread
      BY DEF emit
    <2> DEFINE F == [event : Events, list : 1..Len(lists), next : Nat \ {0}]
    <2>2. frames \in Seq(F)
      BY DEF TrackerTypeOK
    <2> HIDE DEF new, F
    <2> QED
      BY <2>1, <2>2, SeqPush
  <1>2. Frame' = new
    BY <1>1 DEF Frame
  <1>3. new.event.interface = i /\ new.event.status = r /\ new.list = Len(lists) /\ new.next = 1
    BY DEF StatusEvent
  <1>4. interfaces'[i] = r /\ \A j \in Interfaces \ {i} : interfaces'[j] = interfaces[j]
    BY DEF TrackerTypeOK
  <1>5. current_listeners \in Seq(Listeners) /\ current_listeners' = current_listeners
        /\ lists[Len(lists)] = current_listeners /\ Overtaken' = Overtaken
        /\ Len(current_listeners) \in Nat
    BY DEF TrackerTypeOK, current_listeners, Overtaken
  <1>6. \A k \in 1..n : PublisherBefore(frames[k].list, frames[k].next)
    <2> TAKE k \in 1..n
    <2>1. CASE k # n
      BY <2>1 DEF StackInv
    <2>2. CASE k = n
      <3>1. frames # << >> /\ Frame = frames[k]
        BY <2>2, <1>1 DEF Frame
      <3>2. Frame.next > 1 /\ Called \in Publishing
        BY <3>1 DEF MayEnter, StackInv
      <3>3. Frame.next - 1 \in 1..Len(lists[Frame.list]) /\ Frame.next - 1 < Frame.next
        BY <3>1, <3>2, InnermostFrame
      <3> QED
        BY <3>1, <3>2, <3>3 DEF Called, PublisherBefore
    <2> QED
      BY <2>1, <2>2
  <1> HIDE DEF new
  <1>7. StackInv'
    <2>1. \A k \in 1..n : frames[k].next <= Len(lists[frames[k].list]) + 1
      BY DEF StackInv
    <2>2. \A k \in 1..n : PublisherBefore(frames[k].list, frames[k].next)'
      BY <1>1, <1>6 DEF PublisherBefore
    <2>3. \A k \in 1..(n + 1) : k \in 1..n \/ k = n + 1
      BY <1>1
    <2>4. new.next <= Len(lists[new.list]) + 1
      BY <1>3, <1>5
    <2> QED
      BY <1>1, <1>3, <1>4, <2>1, <2>2, <2>3, <2>4 DEF StackInv
  <1>8. OrderInv'
    BY <1>5 DEF OrderInv, PublisherBefore, Members
  <1>9. SettleInv'
    <2> SUFFICES ASSUME NEW l \in Members(current_listeners) \ (Faulty \cup Overtaken),
                        NEW j \in Interfaces
                 PROVE  heard[l][j] \in {interfaces'[j], Unknown} \/ Pending(l, j)'
      BY <1>5 DEF SettleInv, Members
    <2>1. CASE j = i
      <3>1. PICK k \in 1..Len(current_listeners) : current_listeners[k] = l
        BY DEF Members
      <3> QED
        BY <1>1, <1>2, <1>3, <1>4, <1>5, <2>1, <3>1 DEF Pending
    <2>2. CASE j # i
      <3>1. ~ Pending(l, j)
        <4> SUFFICES ASSUME Pending(l, j) PROVE FALSE
          OBVIOUS
        <4>1. frames # << >> /\ PublisherBefore(Frame.list, Frame.next)
          BY <1>1, <1>6 DEF Pending, Frame
        <4>2. PICK k \in 1..Len(lists[Frame.list]) : k >= Frame.next /\ lists[Frame.list][k] = l
          BY DEF Pending
        <4> QED
          BY <4>1, <4>2, InnermostFrame, LaterIsOvertaken
      <3> QED
        BY <1>4, <2>2, <3>1 DEF SettleInv
    <2> QED
      BY <2>1, <2>2
  <1> QED
    BY <1>7, <1>8, <1>9

\* One turn of the loop: a listener that is not overtaken hears what the registry
\* says.
LEMMA DeliverNestInv ==
  ASSUME NestInv, TrackerTypeOK', NEW t \in Threads, Deliver(t)
  PROVE  NestInv'
  <1> USE DEF NestInv
  <1> DEFINE told == lists[Frame.list][Frame.next]
             i == Frame.event.interface
             s == Frame.event.status
             n == Len(frames)
             F == [event : Events, list : 1..Len(lists), next : Nat \ {0}]
  <1>1. /\ frames # << >> /\ owner = t /\ owner' = t /\ n \in Nat \ {0}
        /\ Frame \in F /\ lists[Frame.list] \in Seq(Listeners)
        /\ Frame.next \in 1..Len(lists[Frame.list])
        /\ UNCHANGED <<interfaces, lists>>
    BY InnermostFrame DEF Deliver
  <1>2. /\ n \in 1..n /\ Len(frames') = n /\ frames' # << >> /\ Frame = frames[n]
        /\ Frame' = [Frame EXCEPT !.next = @ + 1] /\ frames'[n] = Frame'
        /\ \A k \in 1..n : k # n => frames'[k] = frames[k]
    <2>1. frames \in Seq(F) /\ frames' = [frames EXCEPT ![n] = [Frame EXCEPT !.next = @ + 1]]
      BY DEF Deliver, TrackerTypeOK, Frame
    <2> DEFINE g == [Frame EXCEPT !.next = @ + 1]
    <2> HIDE DEF F, g
    <2>2. Len(frames') = n /\ frames'[n] = g /\ \A k \in 1..n : k # n => frames'[k] = frames[k]
      BY <1>1, <2>1 DEF g
    <2>3. Frame' = g
      BY <2>2 DEF Frame
    <2> QED
      BY <1>1, <2>2, <2>3 DEF g, Frame
  <1>3. /\ Frame'.next = Frame.next + 1 /\ Frame'.event = Frame.event
        /\ Frame'.list = Frame.list
    BY <1>1, <1>2
  <1>4. /\ current_listeners' = current_listeners /\ Overtaken' = Overtaken
        /\ Members(current_listeners)' = Members(current_listeners)
    BY <1>1 DEF current_listeners, Overtaken, Members
  <1>5. told \in Listeners /\ i \in Interfaces
        /\ \/ heard' = [heard EXCEPT ![told][i] = s]
           \/ told \in Faulty /\ heard' = heard
    BY <1>1 DEF Deliver, Events
  <1> HIDE DEF F, told, i, s
  <1>6. StackInv'
    <2>1. \A k \in 1..n : k # n => PublisherBefore(frames[k].list, frames[k].next)
                            /\ frames[k].next <= Len(lists[frames[k].list]) + 1
      BY DEF StackInv
    <2>2. \A k \in 1..n : k # n => PublisherBefore(frames[k].list, frames[k].next)'
      BY <1>1, <1>2, <2>1 DEF PublisherBefore
    <2>3. PublisherBefore(Frame.list, Frame.next) => PublisherBefore(Frame.list, Frame.next)'
      BY <1>1, <1>2, <1>3 DEF PublisherBefore, F
    <2>4. Frame.event.status = interfaces[Frame.event.interface]
            \/ PublisherBefore(Frame.list, Frame.next)
      BY <1>1, InnermostFrame
    <2>5. Frame'.next <= Len(lists[Frame.list]) + 1
      BY <1>1, <1>3
    <2>6. owner' # NoThread
      BY <1>1
    <2>7. \A k \in 1..n : k # n =>
            /\ frames'[k].next <= Len(lists'[frames'[k].list]) + 1
            /\ PublisherBefore(frames[k].list, frames[k].next)' /\ frames'[k] = frames[k]
      BY <1>1, <1>2, <2>1, <2>2
    <2>8. /\ frames'[n].next <= Len(lists'[frames'[n].list]) + 1
          /\ \/ frames'[n].event.status = interfaces'[frames'[n].event.interface]
             \/ PublisherBefore(Frame.list, Frame.next)'
      BY <1>1, <1>2, <1>3, <2>3, <2>4, <2>5
    <2> QED
      BY <1>1, <1>2, <2>6, <2>7, <2>8 DEF StackInv
  <1>7. OrderInv'
    BY <1>1, <1>4 DEF OrderInv, PublisherBefore
  <1>8. SettleInv'
    <2> SUFFICES ASSUME NEW l \in Members(current_listeners) \ (Faulty \cup Overtaken),
                        NEW j \in Interfaces
                 PROVE  heard'[l][j] \in {interfaces[j], Unknown} \/ Pending(l, j)'
      BY <1>1, <1>4 DEF SettleInv
    <2>1. CASE l = told /\ j = i
      <3>1. ~ PublisherBefore(Frame.list, Frame.next)
        BY <1>1, <2>1, LaterIsOvertaken DEF told, F
      <3>2. s = interfaces[i]
        BY <1>1, <3>1, InnermostFrame DEF s, i
      <3> QED
        BY <1>5, <2>1, <3>2 DEF TrackerTypeOK
    <2>2. CASE ~ (l = told /\ j = i)
      <3>1. heard'[l][j] = heard[l][j]
        <4>1. l \in Listeners
          BY DEF Members, current_listeners, TrackerTypeOK
        <4> QED
          BY <1>5, <2>2, <4>1 DEF TrackerTypeOK
      <3>2. Pending(l, j) => Pending(l, j)'
        <4> SUFFICES ASSUME Pending(l, j) PROVE Pending(l, j)'
          OBVIOUS
        <4>1. j = i /\ s = interfaces[j]
          BY DEF Pending, i, s
        <4>2. PICK k \in 1..Len(lists[Frame.list]) : k >= Frame.next /\ lists[Frame.list][k] = l
          BY DEF Pending
        <4>3. k >= Frame.next + 1
          BY <1>1, <2>2, <4>1, <4>2 DEF told, F
        <4> QED
          BY <1>1, <1>2, <1>3, <4>1, <4>2, <4>3 DEF Pending, i, s
      <3> QED
        BY <3>1, <3>2 DEF SettleInv
    <2> QED
      BY <2>1, <2>2
  <1> QED
    BY <1>6, <1>7, <1>8

\* The end of the loop: all have been told, and the loop it had interrupted, if any,
\* goes on.
LEMMA EmitDoneNestInv ==
  ASSUME NestInv, TrackerTypeOK', NEW t \in Threads, EmitDone(t)
  PROVE  NestInv'
  <1> USE DEF NestInv
  <1> DEFINE n == Len(frames)
  <1>1. /\ frames # << >> /\ owner = t /\ n \in Nat \ {0}
        /\ Frame.next > Len(lists[Frame.list]) /\ Frame.next \in Nat
        /\ lists[Frame.list] \in Seq(Listeners)
        /\ UNCHANGED <<interfaces, lists, heard>>
    BY InnermostFrame DEF EmitDone
  <1>2. /\ Len(frames') = n - 1 /\ \A k \in 1..(n - 1) : frames'[k] = frames[k]
        /\ frames' = << >> <=> n = 1
    <2> DEFINE F == [event : Events, list : 1..Len(lists), next : Nat \ {0}]
               m == n - 1
    <2>1. frames \in Seq(F) /\ frames' = SubSeq(frames, 1, m) /\ m \in Nat
      BY <1>1 DEF EmitDone, TrackerTypeOK
    <2> HIDE DEF F
    <2>2. frames' \in Seq(F) /\ Len(frames') = m
      BY <1>1, <2>1, SeqFront
    <2>3. \A k \in 1..m : frames'[k] = frames[k]
      BY <2>1, <2>2
    <2>4. frames' = << >> <=> m = 0
      <3> HIDE DEF m
      <3> QED
        BY <2>2, EmptySeq
    <2> QED
      BY <1>1, <2>2, <2>3, <2>4
  <1>3. /\ current_listeners' = current_listeners /\ Overtaken' = Overtaken
        /\ Members(current_listeners)' = Members(current_listeners)
    BY <1>1 DEF current_listeners, Overtaken, Members
  <1>4. owner' = NoThread <=> frames' = << >>
    BY <1>1, <1>2 DEF EmitDone
  <1>5. StackInv'
    <2>1. \A k \in 1..(n - 1) : PublisherBefore(frames[k].list, frames[k].next)
                              /\ frames[k].next <= Len(lists[frames[k].list]) + 1
      BY <1>1 DEF StackInv
    <2>2. \A k \in 1..(n - 1) : PublisherBefore(frames[k].list, frames[k].next)'
      BY <1>1, <1>2, <2>1 DEF PublisherBefore
    <2> QED
      BY <1>1, <1>2, <1>4, <2>1, <2>2 DEF StackInv
  <1>6. OrderInv'
    BY <1>1, <1>3 DEF OrderInv, PublisherBefore
  <1>7. \A l, i : ~ Pending(l, i)
    BY <1>1 DEF Pending
  <1>8. SettleInv'
    BY <1>1, <1>3, <1>7 DEF SettleInv
  <1> QED
    BY <1>5, <1>6, <1>8

\* A list that keeps what it held and in which an overtaken listener stays so.
LEMMA EditNestInv ==
  ASSUME NestInv, TrackerTypeOK', UNCHANGED <<interfaces, owner, frames>>,
         Len(lists') >= Len(lists),
         \A a \in 1..Len(lists) :
           /\ Len(lists'[a]) >= Len(lists[a])
           /\ \A k \in 1..Len(lists[a]) : lists'[a][k] = lists[a][k],
         OrderInv',
         \A l \in Members(current_listeners') \ (Faulty \cup Overtaken') :
           \/ l \notin Members(current_listeners)
              /\ heard'[l] = [i \in Interfaces |-> Unknown]
           \/ l \in Members(current_listeners) \ Overtaken /\ heard'[l] = heard[l]
  PROVE  NestInv'
  <1> USE DEF NestInv
  <1>0. \A a \in 1..Len(lists) : Len(lists[a]) \in Nat /\ Len(lists'[a]) \in Nat
        /\ a \in 1..Len(lists') /\ Len(lists) \in Nat /\ Len(lists') \in Nat
    <2>1. lists \in Seq(Seq(Listeners)) /\ lists' \in Seq(Seq(Listeners))
      BY DEF TrackerTypeOK
    <2> QED
      BY <2>1
  <1>1. \A k \in 1..Len(frames) : frames[k].list \in 1..Len(lists) /\ frames[k].next \in Nat
    <2> DEFINE F == [event : Events, list : 1..Len(lists), next : Nat \ {0}]
    <2>1. frames \in Seq(F)
      BY DEF TrackerTypeOK
    <2> HIDE DEF F
    <2>2. \A k \in 1..Len(frames) : frames[k] \in F
      BY <2>1
    <2> QED
      BY <2>2 DEF F
  <1>2. \A a \in 1..Len(lists), n \in Nat : PublisherBefore(a, n) => PublisherBefore(a, n)'
    <2> SUFFICES ASSUME NEW a \in 1..Len(lists), NEW n \in Nat, PublisherBefore(a, n)
                 PROVE  PublisherBefore(a, n)'
      OBVIOUS
    <2>1. PICK j \in 1..Len(lists[a]) : j < n /\ lists[a][j] \in Publishing
      BY DEF PublisherBefore
    <2>2. j \in 1..Len(lists'[a]) /\ lists'[a][j] = lists[a][j]
      BY <1>0
    <2> QED
      BY <2>1, <2>2 DEF PublisherBefore
  <1>3. StackInv'
    <2>1. \A k \in 1..Len(frames) : frames[k].next <= Len(lists'[frames[k].list]) + 1
      <3> TAKE k \in 1..Len(frames)
      <3> DEFINE a == frames[k].list
                 n == frames[k].next
      <3>1. a \in 1..Len(lists) /\ n \in Nat /\ n <= Len(lists[a]) + 1
        BY <1>1 DEF StackInv
      <3> HIDE DEF a, n
      <3>2. Len(lists'[a]) >= Len(lists[a]) /\ Len(lists[a]) \in Nat /\ Len(lists'[a]) \in Nat
        BY <1>0, <3>1
      <3>3. n <= Len(lists'[a]) + 1
        BY <3>1, <3>2
      <3> QED
        BY <3>3 DEF a, n
    <2>2. \A k \in 1..Len(frames) :
            PublisherBefore(frames[k].list, frames[k].next)
              => PublisherBefore(frames[k].list, frames[k].next)'
      BY <1>1, <1>2
    <2> QED
      BY <2>1, <2>2 DEF StackInv
  <1>4. SettleInv'
    <2> SUFFICES ASSUME NEW l \in Members(current_listeners') \ (Faulty \cup Overtaken'),
                        NEW i \in Interfaces
                 PROVE  heard'[l][i] \in {interfaces[i], Unknown} \/ Pending(l, i)'
      BY DEF SettleInv, Members
    <2>1. CASE heard'[l] = [j \in Interfaces |-> Unknown]
      BY <2>1
    <2>2. CASE l \in Members(current_listeners) \ Overtaken /\ heard'[l] = heard[l]
      <3>1. Pending(l, i) => Pending(l, i)'
        <4> SUFFICES ASSUME Pending(l, i) PROVE Pending(l, i)'
          OBVIOUS
        <4>1. Frame.list \in 1..Len(lists) /\ Frame' = Frame /\ frames' # << >>
          BY InnermostFrame DEF Pending, Frame
        <4>2. PICK k \in 1..Len(lists[Frame.list]) : k >= Frame.next /\ lists[Frame.list][k] = l
          BY DEF Pending
        <4>3. k \in 1..Len(lists'[Frame.list]) /\ lists'[Frame.list][k] = l
          BY <1>0, <4>1, <4>2
        <4> QED
          BY <4>1, <4>2, <4>3 DEF Pending
      <3> QED
        BY <2>2, <3>1 DEF SettleInv
    <2> QED
      BY <2>1, <2>2
  <1> QED
    BY <1>3, <1>4

\* add_listener: the newcomer is placed last, after every publishing listener.
LEMMA AddNestInv ==
  ASSUME NestInv, TrackerTypeOK', NEW t \in Threads, NEW l \in Listeners, add_listener(t, l)
  PROVE  NestInv'
  <1> USE DEF NestInv
  <1> DEFINE cur == current_listeners
             N == Len(lists)
  <1>1. /\ N \in Nat \ {0} /\ Len(lists') = N /\ N \in 1..N
        /\ cur \in Seq(Listeners) /\ Len(cur) \in Nat /\ lists[N] = cur
        /\ lists'[N] = Append(cur, l) /\ cur' = Append(cur, l)
        /\ \A a \in 1..N : a # N => lists'[a] = lists[a]
        /\ \A a \in 1..N : Len(lists[a]) \in Nat
    BY DEF TrackerTypeOK, add_listener, current_listeners
  <1>2. /\ Len(Append(cur, l)) = Len(cur) + 1 /\ Append(cur, l)[Len(cur) + 1] = l
        /\ \A k \in 1..Len(cur) : Append(cur, l)[k] = cur[k]
    BY <1>1, SeqPush
  <1>3. Members(cur)' = Members(cur) \cup {l}
    BY <1>1, MembersOfAppend DEF Members
  <1>4. \A a \in 1..N : /\ Len(lists'[a]) >= Len(lists[a])
                       /\ \A k \in 1..Len(lists[a]) : lists'[a][k] = lists[a][k]
    <2> TAKE a \in 1..N
    <2>1. CASE a = N
      BY <2>1, <1>1, <1>2
    <2>2. CASE a # N
      BY <2>2, <1>1
    <2> QED
      BY <2>1, <2>2
  <1>5. \A a \in 1..N : \A k \in 1..Len(lists'[a]) :
          \/ k \in 1..Len(lists[a])
          \/ a = N /\ k = Len(cur) + 1 /\ lists'[a][k] = l
    BY <1>1, <1>2
  <1>6. \A a \in 1..N : \A k \in 1..Len(lists[a]) :
          PublisherBefore(a, k)' <=> PublisherBefore(a, k)
    <2> TAKE a \in 1..N
    <2> TAKE k \in 1..Len(lists[a])
    <2>1. ASSUME PublisherBefore(a, k) PROVE PublisherBefore(a, k)'
      <3>1. PICK j \in 1..Len(lists[a]) : j < k /\ lists[a][j] \in Publishing
        BY <2>1 DEF PublisherBefore
      <3>2. j \in 1..Len(lists'[a]) /\ lists'[a][j] = lists[a][j]
        BY <1>1, <1>2, <1>4
      <3> QED
        BY <3>1, <3>2 DEF PublisherBefore
    <2>2. ASSUME PublisherBefore(a, k)' PROVE PublisherBefore(a, k)
      <3>1. PICK j \in 1..Len(lists'[a]) : j < k /\ lists'[a][j] \in Publishing
        BY <2>2 DEF PublisherBefore
      <3>2. j \in 1..Len(lists[a])
        BY <1>1, <1>5, <3>1
      <3> QED
        BY <1>4, <3>1, <3>2 DEF PublisherBefore
    <2> QED
      BY <2>1, <2>2
  <1>7. Overtaken \subseteq Overtaken'
    <2> SUFFICES ASSUME NEW x \in Overtaken PROVE x \in Overtaken'
      OBVIOUS
    <2>1. PICK k \in 1..Len(cur) : cur[k] = x /\ PublisherBefore(N, k)
      BY OvertakenAt
    <2>2. k \in 1..Len(cur') /\ cur'[k] = x /\ PublisherBefore(N, k)'
      BY <1>1, <1>2, <1>6, <2>1
    <2>3. x \in Overtaken' <=>
            \E q \in 1..Len(cur') : cur'[q] = x /\ PublisherBefore(Len(lists), q)'
      BY OvertakenAtNext
    <2> QED
      BY <1>1, <2>2, <2>3
  <1>8. (\E p \in Publishing : p \in Members(cur)) => l \in Overtaken'
    <2> SUFFICES ASSUME NEW p \in Publishing, p \in Members(cur) PROVE l \in Overtaken'
      OBVIOUS
    <2>1. PICK j \in 1..Len(cur) : cur[j] = p
      BY DEF Members
    <2>2. PICK k \in 1..Len(cur') : k = Len(cur) + 1 /\ cur'[k] = l
      BY <1>1, <1>2
    <2>3. PublisherBefore(Len(lists), k)'
      BY <1>1, <1>2, <2>1, <2>2 DEF PublisherBefore
    <2> QED
      BY <2>2, <2>3, OvertakenAtNext
  <1>9. OrderInv'
    <2> SUFFICES ASSUME NEW a \in 1..N, NEW k \in 1..Len(lists'[a])
                 PROVE  /\ lists'[a][k] \in Publishing =>
                             \E p \in Publishing : p \in Members(cur)'
                        /\ PublisherBefore(a, k)' /\ lists'[a][k] \in Members(cur)' =>
                             lists'[a][k] \in Overtaken'
      BY <1>1 DEF OrderInv
    <2>1. CASE k \in 1..Len(lists[a])
      <3>1. lists'[a][k] = lists[a][k] /\ PublisherBefore(a, k)' <=> PublisherBefore(a, k)
        BY <1>4, <1>6, <2>1
      <3>2. PublisherBefore(a, k) => \E p \in Publishing : p \in Members(cur)
        BY <1>1 DEF PublisherBefore, OrderInv
      <3> QED
        BY <1>1, <1>3, <1>4, <1>6, <1>7, <1>8, <2>1, <3>2 DEF OrderInv
    <2>2. CASE a = N /\ k = Len(cur) + 1 /\ lists'[a][k] = l
      <3>1. PublisherBefore(N, k)' => \E p \in Publishing : p \in Members(cur)
        BY <1>1, <1>2, <2>2 DEF PublisherBefore, Members
      <3> QED
        BY <1>1, <1>3, <1>8, <2>2, <3>1
    <2> QED
      BY <1>5, <2>1, <2>2
  <1>10. \A x \in Members(cur') \ (Faulty \cup Overtaken') :
           \/ x \notin Members(cur) /\ heard'[x] = [i \in Interfaces |-> Unknown]
           \/ x \in Members(cur) \ Overtaken /\ heard'[x] = heard[x]
    <2> TAKE x \in Members(cur') \ (Faulty \cup Overtaken')
    <2>1. x \in Listeners /\ (x \in Members(cur) \/ x = l) /\ x \notin Overtaken
      <3>1. Members(cur') = Members(cur) \cup {l}
        BY <1>3 DEF Members
      <3> QED
        BY <1>1, <1>7, <3>1 DEF Members
    <2> QED
      BY <2>1 DEF add_listener, TrackerTypeOK
  <1> HIDE DEF cur, N
  <1>11. UNCHANGED <<interfaces, owner, frames>>
    BY DEF add_listener
  <1>12. Len(lists') >= Len(lists)
    BY <1>1 DEF N
  <1>13. \A a \in 1..Len(lists) :
           /\ Len(lists'[a]) >= Len(lists[a])
           /\ \A k \in 1..Len(lists[a]) : lists'[a][k] = lists[a][k]
    BY <1>4 DEF N
  <1> QED
    BY <1>9, <1>10, <1>11, <1>12, <1>13, EditNestInv DEF cur

\* remove_listener: the new list keeps the order of the old, and the publishing
\* listeners, which the application does not remove.
LEMMA RemoveNestInv ==
  ASSUME NestInv, TrackerTypeOK', NEW t \in Threads, NEW l \in Listeners \ Publishing,
         remove_listener(t, l)
  PROVE  NestInv'
  <1> USE DEF NestInv
  <1> DEFINE cur == current_listeners
             N == Len(lists)
  <1>1. /\ N \in Nat \ {0} /\ lists[N] = cur /\ cur \in Seq(Listeners) /\ Len(cur) \in Nat
        /\ \A a \in 1..N : lists[a] \in Seq(Listeners)
    BY DEF TrackerTypeOK, current_listeners
  <1>2. /\ rebind_without(l) /\ Len(lists') = N + 1 /\ cur' = lists'[N + 1]
        /\ \A a \in 1..N : lists'[a] = lists[a]
        /\ Members(cur') \subseteq Members(cur)
        /\ cur' \in Seq(Listeners)
    <2>1. rebind_without(l) /\ lists \in Seq(Seq(Listeners)) /\ lists # << >>
      BY DEF remove_listener, TrackerTypeOK
    <2>2. /\ lists' \in Seq(Seq(Listeners)) /\ Len(lists') = N + 1
          /\ \A k \in 1..N : lists'[k] = lists[k]
          /\ Members(lists'[Len(lists')]) \subseteq Members(lists[N])
      BY <2>1, RebindTyped
    <2>3. cur' = lists'[Len(lists')]
      BY DEF current_listeners
    <2> HIDE DEF cur
    <2> QED
      BY <1>1, <2>1, <2>2, <2>3
  <1>3. \A j, k \in 1..Len(cur) : j < k /\ cur[j] # l /\ cur[k] \in Members(cur') =>
          \E m, n \in 1..Len(cur') : m < n /\ cur'[m] = cur[j] /\ cur'[n] = cur[k]
    BY <1>2, OrderKept DEF current_listeners
  <1>4. \A p \in Publishing : p \in Members(cur) => p \in Members(cur')
    <2> SUFFICES ASSUME NEW p \in Publishing, p \in Members(cur) PROVE p \in Members(cur')
      OBVIOUS
    <2>1. PICK k \in 1..Len(cur) : cur[k] = p
      BY DEF Members
    <2> QED
      BY <1>2, <2>1, KeptInList DEF current_listeners
  <1>5. \A x \in Members(cur') : x \in Overtaken => x \in Overtaken'
    <2> SUFFICES ASSUME NEW x \in Members(cur'), x \in Overtaken PROVE x \in Overtaken'
      OBVIOUS
    <2>1. PICK k \in 1..Len(cur) : cur[k] = x /\ PublisherBefore(N, k)
      BY OvertakenAt
    <2>2. PICK j \in 1..Len(cur) : j < k /\ cur[j] \in Publishing
      BY <1>1, <2>1 DEF PublisherBefore
    <2>3. PICK m \in 1..Len(cur'), n \in 1..Len(cur') :
            m < n /\ cur'[m] = cur[j] /\ cur'[n] = x
      BY <1>3, <2>1, <2>2
    <2>4. PublisherBefore(Len(lists), n)'
      BY <1>2, <2>2, <2>3 DEF PublisherBefore
    <2> QED
      BY <2>3, <2>4, OvertakenAtNext
  <1>6. OrderInv'
    <2> SUFFICES ASSUME NEW a \in 1..(N + 1), NEW k \in 1..Len(lists'[a])
                 PROVE  /\ lists'[a][k] \in Publishing =>
                             \E p \in Publishing : p \in Members(cur)'
                        /\ PublisherBefore(a, k)' /\ lists'[a][k] \in Members(cur)' =>
                             lists'[a][k] \in Overtaken'
      BY <1>2 DEF OrderInv
    <2>1. CASE a = N + 1
      <3>1. lists'[a][k] \in Members(cur')
        BY <1>2, <2>1 DEF Members
      <3>2. PublisherBefore(Len(lists), k)' <=> PublisherBefore(a, k)'
        BY <1>2, <2>1
      <3>3. k \in 1..Len(cur') /\ cur'[k] = lists'[a][k]
        BY <1>2, <2>1
      <3>4. PublisherBefore(a, k)' => lists'[a][k] \in Overtaken'
        BY <3>2, <3>3, OvertakenAtNext
      <3> QED
        BY <3>1, <3>4 DEF Members
    <2>2. CASE a \in 1..N
      <3>1. lists'[a] = lists[a] /\ PublisherBefore(a, k)' <=> PublisherBefore(a, k)
        BY <1>2, <2>2 DEF PublisherBefore
      <3>2. Members(cur)' = Members(cur')
        BY DEF Members
      <3> QED
        BY <1>2, <1>4, <1>5, <2>2, <3>1, <3>2 DEF OrderInv
    <2> QED
      BY <1>1, <2>1, <2>2
  <1>7. \A x \in Members(cur') \ (Faulty \cup Overtaken') :
           x \in Members(cur) \ Overtaken /\ heard'[x] = heard[x]
    BY <1>2, <1>5 DEF remove_listener
  <1> HIDE DEF cur, N
  <1>8. UNCHANGED <<interfaces, owner, frames>>
    BY DEF remove_listener
  <1>9. Len(lists') >= Len(lists)
    BY <1>1, <1>2 DEF N
  <1>10. \A a \in 1..Len(lists) :
           /\ Len(lists'[a]) >= Len(lists[a])
           /\ \A k \in 1..Len(lists[a]) : lists'[a][k] = lists[a][k]
    BY <1>1, <1>2 DEF N
  <1> QED
    BY <1>6, <1>7, <1>8, <1>9, <1>10, EditNestInv DEF cur

\* Every step of the tracker keeps NestInv.
LEMMA StepNestInv ==
  ASSUME NestInv, [TrackerNext]_trackerVars
  PROVE  NestInv'
  <1> USE DEF NestInv
  <1>0. TrackerTypeOK'
    BY TrackerStepTypeOK
  <1>1. ASSUME NEW t \in Threads, Register(t) PROVE NestInv'
    <2>1. PICK i \in Interfaces, m \in Implementations : register(t, i, m)
      BY <1>1 DEF Register
    <2> QED
      BY <1>0, <1>1, <2>1, EmitNestInv DEF Register, register
  <1>2. ASSUME NEW t \in Threads, Unregister(t) PROVE NestInv'
    <2>1. PICK i \in Interfaces : unregister(t, i)
      BY <1>2 DEF Unregister
    <2> QED
      BY <1>0, <1>2, <2>1, EmitNestInv DEF Unregister, unregister
  <1>3. ASSUME NEW t \in Threads, AddListener(t) PROVE NestInv'
    BY <1>0, <1>3, AddNestInv DEF AddListener
  <1>4. ASSUME NEW t \in Threads, RemoveListener(t) PROVE NestInv'
    BY <1>0, <1>4, RemoveNestInv DEF RemoveListener
  <1>5. ASSUME NEW t \in Threads, Deliver(t) \/ EmitDone(t) PROVE NestInv'
    BY <1>0, <1>5, DeliverNestInv, EmitDoneNestInv
  <1>6. CASE UNCHANGED trackerVars
    <2>1. StackInv'
      BY <1>6 DEF StackInv, PublisherBefore, trackerVars
    <2>2. OrderInv'
      <3>1. lists' = lists /\ current_listeners' = current_listeners /\ Overtaken' = Overtaken
            /\ Members(current_listeners)' = Members(current_listeners)
        BY <1>6 DEF Members, current_listeners, Overtaken, trackerVars
      <3> QED
        BY <3>1 DEF OrderInv, PublisherBefore
    <2>3. SettleInv'
      BY <1>6 DEF SettleInv, Pending, Frame, Members, current_listeners, Overtaken, trackerVars
    <2> QED
      BY <1>0, <2>1, <2>2, <2>3
  <1> QED
    BY <1>1, <1>2, <1>3, <1>4, <1>5, <1>6 DEF TrackerNext, TrackerAtRest

\* However deep the calls of the tracker nest, whenever none is in progress every
\* subscribed listener that handles its events and is not placed after a publishing
\* one holds what the registry says: a callback that publishes or edits the list
\* makes no other listener miss an event or hear two of them in the wrong order.
THEOREM NestedViewsSettle == TrackerSpec => []ViewsSettle
  <1>1. TrackerInit => NestInv
    <2>1. TrackerInit => StackInv
      BY DEF TrackerInit, StackInv
    <2>2. TrackerInit => OrderInv
      <3> SUFFICES ASSUME TrackerInit, NEW a \in 1..Len(lists), NEW k \in 1..Len(lists[a])
                   PROVE  /\ lists[a][k] \in Publishing =>
                               \E p \in Publishing : p \in Members(current_listeners)
                          /\ PublisherBefore(a, k) => lists[a][k] \in Overtaken
        BY DEF OrderInv
      <3>1. a = Len(lists) /\ lists[a] = current_listeners
        BY DEF TrackerInit, current_listeners
      <3>2. PublisherBefore(a, k) => lists[a][k] \in Overtaken
        BY <3>1, TrackerInitTypeOK, OvertakenAt
      <3> QED
        BY <3>1, <3>2 DEF Members
    <2>3. TrackerInit => SettleInv
      BY DEF TrackerInit, SettleInv, Members, current_listeners
    <2> QED
      BY <2>1, <2>2, <2>3, TrackerInitTypeOK DEF NestInv
  <1>2. NestInv => ViewsSettle
    BY DEF NestInv, StackInv, SettleInv, Pending, ViewsSettle
  <1> QED
    BY <1>1, <1>2, StepNestInv, PTL DEF TrackerSpec
=============================================================================
