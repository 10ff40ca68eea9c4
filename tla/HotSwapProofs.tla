--------------------------- MODULE HotSwapProofs ---------------------------
(***************************************************************************)
(* Proofs about HotSwap for any number of threads, interfaces,               *)
(* implementations, listeners and calls.                                    *)
(***************************************************************************)
EXTENDS HotSwap, TrackerProofs

USE TrackerConstants, HotSwapConstants

\* The program starts well-typed.
LEMMA InitTypeOK == Init => TypeOK
  BY DEF Init, TrackerInit, TypeOK, TrackerTypeOK, Members

\* Entering a label with arguments of the right kind keeps the threads typed.
ThreadsOK ==
  /\ pc \in [Threads -> {"idle", "swap", "handler", "emit", "unlock",
                        "register", "call"}]
  /\ args \in [Threads -> {NoArgs} \cup
       [interface : Interfaces, old : Implementations, new : Implementations]]

\* A thread that moves to a label keeps the types of the threads.
LEMMA GotoTyped ==
  ASSUME TypeOK, NEW t \in Threads,
         NEW label \in {"idle", "swap", "handler", "emit", "unlock",
                        "register", "call"},
         NEW a \in {NoArgs} \cup
           [interface : Interfaces, old : Implementations, new : Implementations],
         Goto(t, label, a)
  PROVE  ThreadsOK'
  BY DEF TypeOK, Goto, ThreadsOK

\* The arguments of a call are well-typed.
LEMMA ArgsTyped ==
  ASSUME NEW i \in Interfaces, NEW old \in Implementations, NEW new \in Implementations
  PROVE  Args(i, old, new) \in
           [interface : Interfaces, old : Implementations, new : Implementations]
  BY DEF Args

\* Counting a call stays within the bound.
LEMMA CallsTyped == TypeOK /\ CountCall => calls' \in 0..MaxCalls
  BY DEF TypeOK, TrackerTypeOK, CountCall

\* A step that leaves the tracker alone keeps its types.
LEMMA SameTracker ==
  ASSUME TypeOK, UNCHANGED <<interfaces, lists, owner, frames, heard, wanted>>,
         calls' \in 0..MaxCalls
  PROVE  TrackerTypeOK'
  BY DEF TypeOK, TrackerTypeOK

\* A thread that is inside a call has arguments.
BusyHasArgs == \A t \in Threads : pc[t] # "idle" => args[t] # NoArgs

TypeInv == TypeOK /\ BusyHasArgs

\* A thread inside a call has well-typed arguments.
LEMMA BusyTyped ==
  ASSUME TypeInv, NEW t \in Threads, pc[t] # "idle"
  PROVE  args[t] \in
           [interface : Interfaces, old : Implementations, new : Implementations]
  BY DEF TypeInv, TypeOK, BusyHasArgs

\* A thread that moves into a call takes arguments with it.
LEMMA BusyKept ==
  ASSUME TypeInv, NEW t \in Threads, NEW label, NEW a,
         label # "idle" => a # NoArgs, Goto(t, label, a)
  PROVE  BusyHasArgs'
  BY DEF TypeInv, TypeOK, BusyHasArgs, Goto

\* Beginning a call keeps the type invariant.
LEMMA BeginTypeInv ==
  ASSUME TypeInv, NEW t \in Threads, Begin(t)
  PROVE  TypeInv'
  <1> USE DEF TypeInv
  <1>c. calls' \in 0..MaxCalls
    BY CallsTyped DEF Begin, BeginSwap, GetAttr, BeginRegister, BeginUnregister,
                      Subscribe, Unsubscribe
  <1>1. ASSUME NEW i \in Interfaces, NEW m \in Implementations, BeginSwap(t, i, m)
        PROVE  TypeInv'
    <2>1. Args(i, m, m) \in
            [interface : Interfaces, old : Implementations, new : Implementations]
      BY ArgsTyped
    <2>2. ThreadsOK' /\ BusyHasArgs'
      BY <1>1, <2>1, GotoTyped, BusyKept DEF BeginSwap
    <2>3. TrackerTypeOK'
      BY <1>1, <1>c, SameTracker DEF BeginSwap
    <2>4. QED
      BY <1>1, <2>2, <2>3 DEF BeginSwap, TypeOK, ThreadsOK, providerVars
  <1>2. ASSUME NEW i \in Interfaces, GetAttr(t, i) \/ BeginRegister(t, i)
        PROVE  TypeInv'
    <2>1. Args(i, impl[i], impl[i]) \in
            [interface : Interfaces, old : Implementations, new : Implementations]
      BY ArgsTyped DEF TypeOK
    <2>2. ThreadsOK' /\ BusyHasArgs'
      BY <1>2, <2>1, GotoTyped, BusyKept DEF GetAttr, BeginRegister
    <2>3. TrackerTypeOK'
      BY <1>2, <1>c, SameTracker DEF GetAttr, BeginRegister
    <2>4. QED
      BY <1>2, <2>2, <2>3 DEF GetAttr, BeginRegister, TypeOK, ThreadsOK, providerVars
  <1>3. ASSUME NEW i \in Interfaces, BeginUnregister(t, i)
        PROVE  TypeInv'
    <2>1. Args(i, impl[i], impl[i]) \in
            [interface : Interfaces, old : Implementations, new : Implementations]
      BY ArgsTyped DEF TypeOK
    <2>2. ThreadsOK' /\ BusyHasArgs'
      BY <1>3, <2>1, GotoTyped, BusyKept DEF BeginUnregister
    <2>3. TrackerTypeOK'
      BY <1>3, <1>c, UnregisterTypeOK DEF BeginUnregister, TypeOK
    <2>4. QED
      BY <1>3, <2>2, <2>3 DEF BeginUnregister, TypeOK, ThreadsOK, providerVars
  <1>4. ASSUME NEW l \in Listeners, Subscribe(t, l) \/ Unsubscribe(t, l)
        PROVE  TypeInv'
    <2>1. TrackerTypeOK'
      BY <1>4, <1>c, AddTypeOK, RemoveTypeOK DEF Subscribe, Unsubscribe, TypeOK
    <2>2. QED
      BY <1>4, <2>1 DEF Subscribe, Unsubscribe, TypeOK, BusyHasArgs,
                        providerVars, threadVars
  <1>5. QED
    BY <1>1, <1>2, <1>3, <1>4 DEF Begin

\* Every step of a call keeps the type invariant.
LEMMA ContinueTypeInv ==
  ASSUME TypeInv, NEW t \in Threads, Continue(t)
  PROVE  TypeInv'
  <1> USE DEF TypeInv
  <1>c. calls \in 0..MaxCalls
    BY DEF TypeOK, TrackerTypeOK
  <1>b. pc[t] # "idle"
    BY DEF Continue, ReplaceImpl, OnSwap, SwapReturn, CallReturn,
           StoreRegistration, TellListener, LeaveTracker, At
  <1> DEFINE i == args[t].interface
  <1>a. /\ args[t] # NoArgs
        /\ args[t] \in
             [interface : Interfaces, old : Implementations, new : Implementations]
        /\ i \in Interfaces /\ args[t].old \in Implementations
        /\ args[t].new \in Implementations
    BY <1>b, BusyTyped DEF BusyHasArgs
  <1>1. CASE ReplaceImpl(t)
    <2> DEFINE a == [args[t] EXCEPT !.old = impl[i]]
               label == IF i \in Watched THEN "handler" ELSE "unlock"
    <2>1. a \in [interface : Interfaces, old : Implementations, new : Implementations]
      BY <1>a DEF TypeOK
    <2>2. Goto(t, label, a) /\ label \in {"handler", "unlock"} /\ a # NoArgs
      BY <1>1, <2>1 DEF ReplaceImpl
    <2> HIDE DEF a, label
    <2>3. ThreadsOK' /\ BusyHasArgs'
      BY <2>1, <2>2, GotoTyped, BusyKept
    <2>4. TrackerTypeOK'
      BY <1>1, <1>c, SameTracker DEF ReplaceImpl, trackerVars
    <2>5. QED
      BY <1>1, <1>a, <2>3, <2>4 DEF ReplaceImpl, TypeOK, ThreadsOK
  <1>2. CASE OnSwap(t) \/ StoreRegistration(t)
    <2>1. ThreadsOK' /\ BusyHasArgs'
      BY <1>2, <1>a, GotoTyped, BusyKept DEF OnSwap, StoreRegistration
    <2>2. TrackerTypeOK'
      <3>1. TrackerTypeOK
        BY DEF TypeOK
      <3>2. CASE OnSwap(t)
        BY <3>1, <3>2, <1>a, <1>c, HandlerTypeOK DEF OnSwap
      <3>3. CASE StoreRegistration(t)
        BY <3>1, <3>3, <1>a, <1>c, RegisterTypeOK DEF StoreRegistration
      <3> QED
        BY <1>2, <3>2, <3>3
    <2>3. QED
      BY <1>2, <2>1, <2>2 DEF OnSwap, StoreRegistration, TypeOK, ThreadsOK, providerVars
  <1>3. CASE SwapReturn(t) \/ CallReturn(t)
    <2>1. ThreadsOK' /\ BusyHasArgs'
      BY <1>3, GotoTyped, BusyKept DEF SwapReturn, CallReturn
    <2>2. TrackerTypeOK'
      BY <1>3, <1>c, SameTracker DEF SwapReturn, CallReturn, trackerVars
    <2>3. QED
      BY <1>3, <1>a, <2>1, <2>2
         DEF SwapReturn, CallReturn, TypeOK, ThreadsOK, providerVars
  <1>4. CASE TellListener(t)
    BY <1>4, DeliverTypeOK
       DEF TellListener, TypeOK, BusyHasArgs, providerVars, threadVars
  <1>5. CASE LeaveTracker(t)
    <2>1. ThreadsOK' /\ BusyHasArgs'
      BY <1>5, <1>a, GotoTyped, BusyKept DEF LeaveTracker
    <2>2. TrackerTypeOK'
      BY <1>5, EmitDoneTypeOK DEF LeaveTracker, TypeOK
    <2>3. QED
      BY <1>5, <2>1, <2>2 DEF LeaveTracker, TypeOK, ThreadsOK, providerVars
  <1>6. QED
    BY <1>1, <1>2, <1>3, <1>4, <1>5 DEF Continue

\* A stuttering step keeps the type invariant.
LEMMA StutterTypeInv == TypeInv /\ UNCHANGED vars => TypeInv'
  BY DEF TypeInv, TypeOK, TrackerTypeOK, BusyHasArgs, vars, trackerVars,
         providerVars, threadVars

\* Every variable of the tracker, of the providers and of the threads keeps its
\* type in every behaviour, whatever the callers do.
THEOREM TypeCorrect == Spec => []TypeOK
  <1>1. Init => TypeInv
    BY InitTypeOK DEF TypeInv, BusyHasArgs, Init
  <1>2. TypeInv /\ [Next]_vars => TypeInv'
    BY BeginTypeInv, ContinueTypeInv, StutterTypeInv DEF Next, AtRest
  <1>3. TypeInv => TypeOK
    BY DEF TypeInv
  <1>4. QED
    BY <1>1, <1>2, <1>3, PTL DEF Spec

---------------------------------------------------------------------------
\* The locks.  A thread holds the tracker's lock exactly while it is telling the
\* listeners, with one loop of _emit running (no listener calls the tracker); it
\* holds a provider's lock only from the replacement of the implementation to
\* the return of the swap that made it.
LockInv ==
  /\ \A t \in Threads : owner = t <=> pc[t] = "emit"
  /\ owner = NoThread => frames = << >>
  /\ owner # NoThread => Len(frames) = 1
  /\ \A t \in Threads, i \in Interfaces : plock[i] = t =>
       pc[t] \in {"handler", "emit", "unlock"} /\ args[t].interface = i
  /\ \A t \in Threads : pc[t] \in {"handler", "unlock"} =>
       plock[args[t].interface] = t

\* With the lock free, _emit starts the only running loop.
LEMMA EmitStarts ==
  ASSUME LockInv, NEW t, NEW e, owner = NoThread, emit(t, e)
  PROVE  /\ frames' = <<[event |-> e, list |-> Len(lists), next |-> 1]>>
         /\ owner' = t
  BY DEF LockInv, emit

\* The end of the only running loop frees the lock.
LEMMA EmitEnds ==
  ASSUME TypeInv, LockInv, NEW t \in Threads, EmitDone(t)
  PROVE  frames' = << >> /\ owner' = NoThread
  <1> DEFINE F == [event : Events, list : 1..Len(lists), next : Nat \ {0}]
  <1>1. frames \in Seq(F) /\ frames # << >> /\ Len(frames) = 1
    BY DEF TypeInv, TypeOK, TrackerTypeOK, LockInv, EmitDone
  <1>2. frames' = SubSeq(frames, 1, Len(frames) - 1)
    BY DEF EmitDone
  <1> HIDE DEF F
  <1>3. frames' \in Seq(F) /\ Len(frames') = 0
    BY <1>1, <1>2, SeqFront
  <1>4. QED
    BY <1>1, <1>3 DEF EmitDone

\* Beginning a call keeps the locks consistent.
LEMMA BeginLockInv ==
  ASSUME TypeInv, LockInv, NEW t \in Threads, Begin(t)
  PROVE  LockInv'
  <1> USE DEF TypeInv, TypeOK, LockInv, At
  <1>1. ASSUME NEW i \in Interfaces, NEW m \in Implementations, BeginSwap(t, i, m)
        PROVE  LockInv'
    BY <1>1 DEF BeginSwap, Goto, providerVars
  <1>2. ASSUME NEW i \in Interfaces, GetAttr(t, i) \/ BeginRegister(t, i)
        PROVE  LockInv'
    BY <1>2 DEF GetAttr, BeginRegister, Goto, providerVars
  <1>3. ASSUME NEW i \in Interfaces, BeginUnregister(t, i)
        PROVE  LockInv'
    <2>1. frames = << >> /\ Len(frames') = 1 /\ owner' = t
      BY <1>3, EmitStarts DEF BeginUnregister, unregister
    <2>2. QED
      BY <1>3, <2>1 DEF BeginUnregister, Goto, providerVars
  <1>4. ASSUME NEW l \in Listeners, Subscribe(t, l) \/ Unsubscribe(t, l)
        PROVE  LockInv'
    BY <1>4 DEF Subscribe, Unsubscribe, add_listener, remove_listener,
                providerVars, threadVars
  <1>5. QED
    BY <1>1, <1>2, <1>3, <1>4 DEF Begin

\* Every step of a call keeps the locks consistent.
LEMMA ContinueLockInv ==
  ASSUME TypeInv, LockInv, NEW t \in Threads, Continue(t)
  PROVE  LockInv'
  <1> USE DEF TypeInv, TypeOK, LockInv, At
  <1>a. pc[t] # "idle" => args[t].interface \in Interfaces
    BY BusyTyped
  <1>1. CASE ReplaceImpl(t)
    <2>1. args'[t].interface = args[t].interface
      BY <1>1, <1>a, BusyTyped DEF ReplaceImpl, Goto
    <2>2. QED
      BY <1>1, <1>a, <2>1 DEF ReplaceImpl, Goto, trackerVars
  <1>2. CASE OnSwap(t) \/ StoreRegistration(t)
    <2>1. frames = << >> /\ Len(frames') = 1 /\ owner' = t
      BY <1>2, EmitStarts DEF OnSwap, StoreRegistration, handler, register
    <2>2. QED
      BY <1>2, <1>a, <2>1 DEF OnSwap, StoreRegistration, Goto, providerVars
  <1>3. CASE SwapReturn(t)
    BY <1>3, <1>a DEF SwapReturn, Goto, trackerVars
  <1>4. CASE CallReturn(t)
    BY <1>4 DEF CallReturn, Goto, trackerVars, providerVars
  <1>5. CASE TellListener(t)
    <2>1. Len(frames') = Len(frames)
      BY <1>5 DEF TellListener, Deliver, TrackerTypeOK
    <2>2. QED
      BY <1>5, <2>1 DEF TellListener, Deliver, providerVars, threadVars
  <1>6. CASE LeaveTracker(t)
    <2>1. frames' = << >> /\ owner' = NoThread
      BY <1>6, EmitEnds DEF LeaveTracker
    <2>2. QED
      BY <1>6, <1>a, <2>1 DEF LeaveTracker, Goto, providerVars
  <1>7. QED
    BY <1>1, <1>2, <1>3, <1>4, <1>5, <1>6 DEF Continue

\* A stuttering step keeps the locks consistent.
LEMMA StutterLockInv == LockInv /\ UNCHANGED vars => LockInv'
  BY DEF LockInv, vars, trackerVars, providerVars, threadVars

---------------------------------------------------------------------------
\* Why the registry tells the truth.  A swap that has replaced an implementation
\* and not yet announced it knows what is active, because it holds the
\* provider's lock; a registration knows it because nobody may swap the interface
\* meanwhile; and a record can differ from the active implementation only while
\* such a swap is on its way.
AgreeInv ==
  /\ \A t \in Threads : pc[t] = "handler" =>
       args[t].new = impl[args[t].interface]
  /\ \A t \in Threads : pc[t] = "register" =>
       /\ args[t].new = impl[args[t].interface]
       /\ \A u \in Threads : pc[u] \in {"swap", "handler"} =>
            args[u].interface # args[t].interface
  /\ \A i \in Watched : interfaces[i] # NoRecord =>
       \/ interfaces[i] = StatusRecord(impl[i])
       \/ \E t \in Threads : pc[t] = "handler" /\ args[t].interface = i

\* A step that replaces no implementation, stores no record and moves no thread
\* into or out of the phases AgreeInv speaks of.
LEMMA AgreeInvKept ==
  ASSUME AgreeInv, impl' = impl,
         \A i \in Watched : interfaces'[i] \in {interfaces[i], NoRecord},
         \A u \in Threads : pc'[u] \in {"swap", "handler", "register"} =>
           pc[u] = pc'[u] /\ args[u] = args'[u],
         \A u \in Threads : pc[u] = "handler" =>
           pc'[u] = "handler" /\ args'[u] = args[u]
  PROVE  AgreeInv'
  BY DEF AgreeInv

\* Beginning a call keeps AgreeInv; a swap or a registration may begin
\* only when the other is not under way, by SerializedRegistration.
LEMMA BeginAgreeInv ==
  ASSUME SerializedRegistration, TypeInv, LockInv, AgreeInv,
         NEW t \in Threads, Begin(t)
  PROVE  AgreeInv'
  <1> USE DEF TypeInv, TypeOK, TrackerTypeOK, LockInv, AgreeInv, At, About
  <1>1. ASSUME NEW i \in Interfaces, NEW m \in Implementations, BeginSwap(t, i, m)
        PROVE  AgreeInv'
    BY <1>1, BusyTyped DEF BeginSwap, Goto, Args, providerVars, BusyHasArgs
  <1>2. ASSUME NEW i \in Interfaces, GetAttr(t, i)
        PROVE  AgreeInv'
    BY <1>2, AgreeInvKept DEF GetAttr, Goto, providerVars
  <1>3. ASSUME NEW i \in Interfaces, BeginRegister(t, i)
        PROVE  AgreeInv'
    BY <1>3 DEF BeginRegister, Goto, Args, providerVars, BusyHasArgs
  <1>4. ASSUME NEW i \in Interfaces, BeginUnregister(t, i)
        PROVE  AgreeInv'
    BY <1>4, AgreeInvKept DEF BeginUnregister, unregister, Goto, providerVars
  <1>5. ASSUME NEW l \in Listeners, Subscribe(t, l) \/ Unsubscribe(t, l)
        PROVE  AgreeInv'
    BY <1>5, AgreeInvKept DEF Subscribe, Unsubscribe, add_listener, remove_listener,
                providerVars, threadVars
  <1>6. QED
    BY <1>1, <1>2, <1>3, <1>4, <1>5 DEF Begin

\* Every step of a call keeps AgreeInv.
LEMMA ContinueAgreeInv ==
  ASSUME TypeInv, LockInv, AgreeInv, NEW t \in Threads, Continue(t)
  PROVE  AgreeInv'
  <1> USE DEF TypeInv, TypeOK, TrackerTypeOK, LockInv, AgreeInv, At
  <1>a. \A u \in Threads : pc[u] # "idle" =>
          args[u] \in
            [interface : Interfaces, old : Implementations, new : Implementations]
    BY BusyTyped
  <1>1. CASE ReplaceImpl(t)
    <2> DEFINE i == args[t].interface
    <2>1. /\ pc[t] = "swap" /\ plock[i] = NoThread /\ i \in Interfaces
          /\ impl' = [impl EXCEPT ![i] = args[t].new]
          /\ pc' = [pc EXCEPT ![t] = IF i \in Watched THEN "handler" ELSE "unlock"]
          /\ interfaces' = interfaces
      BY <1>1, <1>a DEF ReplaceImpl, Goto, trackerVars
    <2>2. /\ args' = [args EXCEPT ![t] = [args[t] EXCEPT !.old = impl[i]]]
          /\ args'[t].interface = i /\ args'[t].new = args[t].new
      BY <1>1, <1>a DEF ReplaceImpl, Goto
    <2>3. \A u \in Threads : u # t /\ pc[u] \in {"handler", "register"} =>
            args[u].interface # i
      BY <2>1
    <2>4. \A u \in Threads : pc'[u] = "handler" =>
            args'[u].new = impl'[args'[u].interface]
      BY <1>a, <2>1, <2>2, <2>3
    <2>5. \A u \in Threads : pc'[u] = "register" =>
            /\ args'[u].new = impl'[args'[u].interface]
            /\ \A v \in Threads : pc'[v] \in {"swap", "handler"} =>
                 args'[v].interface # args'[u].interface
      BY <1>a, <2>1, <2>2, <2>3
    <2>6. \A j \in Watched : interfaces'[j] # NoRecord =>
            \/ interfaces'[j] = StatusRecord(impl'[j])
            \/ \E u \in Threads : pc'[u] = "handler" /\ args'[u].interface = j
      <3>1. SUFFICES ASSUME NEW j \in Watched, interfaces'[j] # NoRecord
                     PROVE  \/ interfaces'[j] = StatusRecord(impl'[j])
                            \/ \E u \in Threads : pc'[u] = "handler"
                                                  /\ args'[u].interface = j
        OBVIOUS
      <3>2. CASE j = i
        BY <2>1, <2>2, <3>2
      <3>3. CASE j # i
        <4>1. impl'[j] = impl[j]
          BY <2>1, <3>3
        <4>2. CASE interfaces[j] = StatusRecord(impl[j])
          BY <2>1, <4>1, <4>2
        <4>3. CASE \E u \in Threads : pc[u] = "handler" /\ args[u].interface = j
          BY <2>1, <2>2, <4>3
        <4>4. QED
          BY <2>1, <3>1, <4>2, <4>3
      <3>4. QED
        BY <3>2, <3>3
    <2>7. QED
      BY <2>4, <2>5, <2>6
  <1>2. CASE OnSwap(t) \/ StoreRegistration(t)
    <2> DEFINE i == args[t].interface
    <2>1. /\ interfaces' = [interfaces EXCEPT ![i] = StatusRecord(args[t].new)]
          /\ impl' = impl /\ args' = [args EXCEPT ![t] = args[t]]
          /\ pc' = [pc EXCEPT ![t] = "emit"] /\ pc[t] \in {"handler", "register"}
      BY <1>2 DEF OnSwap, StoreRegistration, handler, register, Goto, providerVars
    <2>2. args' = args /\ i \in Interfaces /\ args[t].new = impl[i]
      BY <1>a, <2>1
    <2>3. \A u \in Threads : u # t /\ pc[u] = "handler" => args[u].interface # i
      BY <2>1
    <2> HIDE DEF i
    <2>4. \A u \in Threads : pc'[u] \in {"swap", "handler", "register"} =>
            pc'[u] = pc[u]
      BY <2>1
    <2>5. \A j \in Interfaces : interfaces'[j] =
            IF j = i THEN StatusRecord(impl[i]) ELSE interfaces[j]
      BY <2>1, <2>2
    <2>6. \A u \in Threads : pc[u] = "handler" /\ args[u].interface # i =>
            pc'[u] = "handler"
      BY <2>1 DEF i
    <2>7. \A j \in Watched : interfaces'[j] # NoRecord =>
            \/ interfaces'[j] = StatusRecord(impl'[j])
            \/ \E u \in Threads : pc'[u] = "handler" /\ args'[u].interface = j
      <3>1. ASSUME NEW j \in Watched, interfaces'[j] # NoRecord, j # i
            PROVE  \/ interfaces'[j] = StatusRecord(impl'[j])
                   \/ \E u \in Threads : pc'[u] = "handler" /\ args'[u].interface = j
        <4>1. interfaces'[j] = interfaces[j] /\ impl'[j] = impl[j]
          BY <2>1, <2>5, <3>1
        <4>2. CASE interfaces[j] = StatusRecord(impl[j])
          BY <4>1, <4>2
        <4>3. CASE \E u \in Threads : pc[u] = "handler" /\ args[u].interface = j
          BY <2>2, <2>6, <3>1, <4>3
        <4>4. QED
          BY <3>1, <4>1, <4>2, <4>3
      <3>2. interfaces'[i] = StatusRecord(impl'[i])
        BY <2>1, <2>2, <2>5
      <3>3. QED
        BY <3>1, <3>2
    <2>8. QED
      BY <2>1, <2>2, <2>4, <2>7
  <1>3. CASE SwapReturn(t) \/ CallReturn(t)
    BY <1>3, AgreeInvKept DEF SwapReturn, CallReturn, Goto, trackerVars, providerVars
  <1>4. CASE TellListener(t)
    BY <1>4, AgreeInvKept DEF TellListener, Deliver, providerVars, threadVars
  <1>5. CASE LeaveTracker(t)
    <2>1. /\ impl' = impl /\ interfaces' = interfaces /\ pc[t] = "emit"
          /\ pc' = [pc EXCEPT ![t] = pc'[t]] /\ pc'[t] \in {"unlock", "idle"}
          /\ args' = [args EXCEPT ![t] = args'[t]]
      BY <1>5 DEF LeaveTracker, EmitDone, Goto, providerVars
    <2>2. QED
      BY <2>1, AgreeInvKept
  <1>6. QED
    BY <1>1, <1>2, <1>3, <1>4, <1>5 DEF Continue

\* A stuttering step keeps AgreeInv.
LEMMA StutterAgreeInv == AgreeInv /\ UNCHANGED vars => AgreeInv'
  BY DEF AgreeInv, vars, trackerVars, providerVars, threadVars

\* If the application registers an interface only while no thread is swapping
\* it, the tracker never shows a settled interface as something it is not, for
\* any number of threads that swap, call, register and unregister it.
THEOREM RegistryTellsTheTruth ==
  ASSUME SerializedRegistration
  PROVE  Spec => []RegistryAgrees
  <1> DEFINE IInv == TypeInv /\ LockInv /\ AgreeInv
  <1>1. Init => IInv
    BY InitTypeOK DEF TypeInv, BusyHasArgs, LockInv, AgreeInv, Init, TrackerInit
  <1>2. IInv /\ [Next]_vars => IInv'
    BY BeginTypeInv, ContinueTypeInv, StutterTypeInv, BeginLockInv, ContinueLockInv,
       StutterLockInv, BeginAgreeInv, ContinueAgreeInv, StutterAgreeInv,
       SerializedRegistration
    DEF Next, AtRest
  <1>3. IInv => RegistryAgrees
    BY DEF TypeInv, TypeOK, LockInv, AgreeInv, RegistryAgrees
  <1>4. QED
    BY <1>1, <1>2, <1>3, PTL DEF Spec

\* The answers of is_any_simulated and is_all_simulated, which may decide the mode
\* of the system, are then true of what the settled interfaces run.
THEOREM SummariesTellTheTruth ==
  ASSUME SerializedRegistration
  PROVE  Spec => []LiveMeansLive
  <1>1. TypeOK /\ RegistryAgrees => LiveMeansLive
    <2>1. SUFFICES ASSUME TypeOK, RegistryAgrees, NEW i \in Watched,
                          plock[i] = NoThread, interfaces[i] # NoRecord
                   PROVE  /\ ~ is_any_simulated => ~ is_mock_implementation(impl[i])
                          /\ is_all_simulated => is_mock_implementation(impl[i])
      BY DEF LiveMeansLive, Settled
    <2>2. interfaces[i] = StatusRecord(impl[i]) /\ i \in Interfaces
      BY <2>1, HotSwapConstants DEF RegistryAgrees
    <2>3. /\ ~ is_any_simulated => ~ interfaces[i].is_simulated
          /\ is_all_simulated => interfaces[i].is_simulated
      BY <2>1, <2>2 DEF is_any_simulated, is_all_simulated
    <2>4. interfaces[i].is_simulated = is_mock_implementation(impl[i])
      BY <2>2 DEF StatusRecord
    <2>5. QED
      BY <2>3, <2>4
  <1>2. Spec => []RegistryAgrees
    BY RegistryTellsTheTruth, SerializedRegistration
  <1>3. QED
    BY <1>1, <1>2, TypeCorrect, PTL

---------------------------------------------------------------------------
\* Why the listeners settle.  While a loop of _emit runs, it iterates the current
\* list and announces what the registry says; a listener can differ from the
\* registry only on the interface announced, and only while its turn is to come.
Turns(l) == {k \in 1..Len(current_listeners) :
               Frame.next <= k /\ current_listeners[k] = l}

FrameInv == owner # NoThread =>
  /\ Frame.list = Len(lists)
  /\ Frame.event.status = interfaces[Frame.event.interface]

ToldOrToTell(l, i) ==
  \/ heard[l][i] \in {interfaces[i], Unknown}
  \/ owner # NoThread /\ i = Frame.event.interface /\ Turns(l) # {}

ViewInv ==
  /\ FrameInv
  /\ \A l \in Members(current_listeners) \ Faulty : \A i \in Interfaces :
       ToldOrToTell(l, i)

\* register, unregister and the swap handler: one record changes, and the loop
\* that announces it starts at the first listener.
LEMMA AnnounceViewInv ==
  ASSUME TypeInv, LockInv, ViewInv, NEW t \in Threads, NEW c, NEW p,
         NEW i \in Interfaces, NEW r, owner = NoThread,
         interfaces' = [interfaces EXCEPT ![i] = r],
         emit(t, StatusEvent(c, i, r, p)), UNCHANGED <<lists, heard>>
  PROVE  ViewInv'
  <1>1. /\ frames' = <<[event |-> StatusEvent(c, i, r, p), list |-> Len(lists), next |-> 1]>>
        /\ owner' = t /\ t # NoThread
    BY EmitStarts
  <1>2. Frame' = [event |-> StatusEvent(c, i, r, p), list |-> Len(lists), next |-> 1]
    BY <1>1 DEF Frame
  <1>3. /\ Frame'.list = Len(lists') /\ Frame'.next = 1
        /\ Frame'.event.interface = i /\ Frame'.event.status = r
    BY <1>2 DEF StatusEvent
  <1>4. interfaces'[i] = r /\ \A j \in Interfaces \ {i} : interfaces'[j] = interfaces[j]
    BY DEF TypeInv, TypeOK, TrackerTypeOK
  <1>5. current_listeners' = current_listeners /\ heard' = heard
    BY DEF current_listeners
  <1>6. ASSUME NEW l \in Members(current_listeners) \ Faulty, NEW j \in Interfaces
        PROVE  ToldOrToTell(l, j)'
    <2>1. CASE j = i
      <3>1. PICK k \in 1..Len(current_listeners) : current_listeners[k] = l
        BY <1>6 DEF Members
      <3>2. k \in Turns(l)'
        BY <1>3, <1>5, <3>1 DEF Turns
      <3>3. QED
        BY <1>1, <1>3, <2>1, <3>2 DEF ToldOrToTell
    <2>2. CASE j # i
      <3>1. heard[l][j] \in {interfaces[j], Unknown}
        BY <1>6 DEF ViewInv, ToldOrToTell
      <3>2. QED
        BY <1>4, <1>5, <2>2, <3>1 DEF ToldOrToTell
    <2>3. QED
      BY <2>1, <2>2
  <1>7. QED
    BY <1>3, <1>4, <1>5, <1>6 DEF ViewInv, FrameInv

\* A listener that is told holds what the registry says; the others keep
\* their turn.
LEMMA DeliverViewInv ==
  ASSUME TypeInv, LockInv, ViewInv, NEW t \in Threads, Deliver(t)
  PROVE  ViewInv'
  <1> DEFINE F == [event : Events, list : 1..Len(lists), next : Nat \ {0}]
             told == current_listeners[Frame.next]
             i == Frame.event.interface
  <1>1. /\ owner = t /\ owner' = t /\ t # NoThread
        /\ frames \in Seq(F) /\ Len(frames) = 1 /\ Frame \in F
        /\ interfaces' = interfaces /\ lists' = lists
    <2>1. frames \in Seq(F)
      BY DEF TypeInv, TypeOK, TrackerTypeOK
    <2>2. /\ owner = t /\ owner' = t /\ t # NoThread /\ frames # << >>
          /\ interfaces' = interfaces /\ lists' = lists
      BY DEF Deliver
    <2>3. Len(frames) = 1
      BY <2>2 DEF LockInv
    <2> HIDE DEF F
    <2>4. Frame \in F
      BY <2>1, <2>2, SeqLast DEF Frame
    <2>5. QED
      BY <2>1, <2>2, <2>3, <2>4
  <1>2. /\ Frame.list = Len(lists)
        /\ Frame.event.status = interfaces[i]
        /\ current_listeners' = current_listeners
    BY <1>1 DEF ViewInv, FrameInv, current_listeners
  <1>3. Frame' = [Frame EXCEPT !.next = @ + 1]
    BY <1>1 DEF Deliver, Frame
  <1>4. /\ Frame'.event = Frame.event /\ Frame'.list = Frame.list
        /\ Frame'.next = Frame.next + 1 /\ Frame.next \in Nat
    BY <1>1, <1>3
  <1>5. \/ heard' = [heard EXCEPT ![told][i] = interfaces[i]]
        \/ told \in Faulty /\ heard' = heard
    BY <1>2 DEF Deliver, current_listeners
  <1>6. i \in Interfaces
    BY <1>1 DEF Events
  <1>7. heard \in [Listeners -> [Interfaces -> Records \cup {NoRecord, Unknown}]]
        /\ current_listeners \in Seq(Listeners)
    BY DEF TypeInv, TypeOK, TrackerTypeOK, current_listeners
  <1> HIDE DEF F, told, i
  <1>8. ASSUME NEW l \in Members(current_listeners) \ Faulty, NEW j \in Interfaces
        PROVE  ToldOrToTell(l, j)'
    <2>1. l \in Listeners
      BY <1>7, <1>8 DEF Members
    <2>2. CASE l = told /\ j = i
      <3>1. heard'[l][j] = interfaces[j]
        BY <1>5, <1>6, <1>7, <1>8, <2>1, <2>2
      <3>2. QED
        BY <1>1, <3>1 DEF ToldOrToTell
    <2>3. CASE l # told /\ j = i
      <3>1. heard'[l][j] = heard[l][j]
        BY <1>5, <1>6, <1>7, <2>1, <2>3
      <3>2. Turns(l)' = Turns(l)
        BY <1>2, <1>4, <1>7, <2>3 DEF Turns, told
      <3>3. QED
        BY <1>1, <1>2, <1>4, <1>8, <3>1, <3>2 DEF ViewInv, ToldOrToTell
    <2>4. CASE j # i
      <3>1. heard'[l][j] = heard[l][j]
        <4>1. CASE heard' = heard
          BY <4>1
        <4>2. CASE heard' = [heard EXCEPT ![told][i] = interfaces[i]]
          <5>1. heard'[l] = IF l = told THEN [heard[l] EXCEPT ![i] = interfaces[i]] ELSE heard[l]
            BY <1>7, <2>1, <4>2
          <5>2. heard[l] \in [Interfaces -> Records \cup {NoRecord, Unknown}]
            BY <1>7, <2>1
          <5> QED
            BY <2>4, <5>1, <5>2
        <4> QED
          BY <1>5, <4>1, <4>2
      <3>2. ToldOrToTell(l, j)
        BY <1>8 DEF ViewInv
      <3>3. heard[l][j] \in {interfaces[j], Unknown}
        BY <2>4, <3>2 DEF ToldOrToTell, i
      <3>4. QED
        BY <1>1, <3>1, <3>3 DEF ToldOrToTell
    <2>5. QED
      BY <2>2, <2>3, <2>4
  <1>9. FrameInv'
    BY <1>1, <1>2, <1>4 DEF FrameInv, i
  <1>10. QED
    BY <1>2, <1>8, <1>9 DEF ViewInv

\* When the loop ends every listener has had its turn.
LEMMA EmitDoneViewInv ==
  ASSUME TypeInv, LockInv, ViewInv, NEW t \in Threads, EmitDone(t)
  PROVE  ViewInv'
  <1>1. /\ owner' = NoThread /\ owner = t /\ t # NoThread
        /\ interfaces' = interfaces /\ heard' = heard
        /\ current_listeners' = current_listeners
        /\ Frame.next > Len(lists[Frame.list])
    BY EmitEnds DEF EmitDone, current_listeners
  <1>2. Frame.list = Len(lists)
    BY <1>1 DEF ViewInv, FrameInv
  <1>3. Frame.next \in Nat /\ current_listeners \in Seq(Listeners)
    <2> DEFINE F == [event : Events, list : 1..Len(lists), next : Nat \ {0}]
    <2>1. frames \in Seq(F) /\ frames # << >>
      BY DEF EmitDone, TypeInv, TypeOK, TrackerTypeOK
    <2> HIDE DEF F
    <2>2. Frame \in F
      BY <2>1, SeqLast DEF Frame
    <2>3. QED
      BY <2>2 DEF F, TypeInv, TypeOK, TrackerTypeOK, current_listeners
  <1>4. \A l : Turns(l) = {}
    BY <1>1, <1>2, <1>3 DEF Turns, current_listeners
  <1>5. QED
    BY <1>1, <1>4 DEF ViewInv, FrameInv, ToldOrToTell

\* add_listener and remove_listener while no loop is running.
LEMMA AudienceViewInv ==
  ASSUME TypeInv, LockInv, ViewInv, owner = NoThread, NEW t \in Threads,
         NEW l \in Listeners, add_listener(t, l) \/ remove_listener(t, l)
  PROVE  ViewInv'
  <1>1. /\ owner' = NoThread /\ interfaces' = interfaces
        /\ lists \in Seq(Seq(Listeners)) /\ lists # << >>
        /\ current_listeners = lists[Len(lists)] /\ current_listeners \in Seq(Listeners)
        /\ heard \in [Listeners -> [Interfaces -> Records \cup {NoRecord, Unknown}]]
    BY DEF add_listener, remove_listener, current_listeners,
           TypeInv, TypeOK, TrackerTypeOK
  <1>2. \A k \in Members(current_listeners) \ Faulty, i \in Interfaces :
          heard[k][i] \in {interfaces[i], Unknown}
    BY DEF ViewInv, ToldOrToTell
  <1>3. CASE add_listener(t, l)
    <2>1. current_listeners' = Append(current_listeners, l)
      BY <1>1, <1>3 DEF add_listener, current_listeners
    <2>2. Members(current_listeners') = Members(current_listeners) \cup {l}
      BY <1>1, <2>1, MembersOfAppend
    <2>3. heard' = IF l \in Members(current_listeners) THEN heard
                   ELSE [heard EXCEPT ![l] = [i \in Interfaces |-> Unknown]]
      BY <1>3 DEF add_listener
    <2>4. \A k \in Members(current_listeners)' \ Faulty, i \in Interfaces :
            heard'[k][i] \in {interfaces[i], Unknown}
      <3>1. ASSUME NEW k \in (Members(current_listeners) \cup {l}) \ Faulty,
                   NEW i \in Interfaces
            PROVE  heard'[k][i] \in {interfaces[i], Unknown}
        <4>1. CASE k \in Members(current_listeners)
          <5>1. heard'[k] = heard[k]
            BY <1>1, <2>3, <3>1, <4>1
          <5>2. QED
            BY <1>2, <3>1, <4>1, <5>1
        <4>2. CASE k \notin Members(current_listeners)
          BY <1>1, <2>3, <3>1, <4>2
        <4>3. QED
          BY <4>1, <4>2
      <3>2. QED
        BY <2>2, <3>1
    <2>5. QED
      BY <1>1, <2>4 DEF ViewInv, FrameInv, ToldOrToTell
  <1>4. CASE remove_listener(t, l)
    <2>1. Members(current_listeners)' \subseteq Members(current_listeners)
      BY <1>1, <1>4, RebindTyped DEF remove_listener, current_listeners, Members
    <2>2. heard' = heard
      BY <1>4 DEF remove_listener
    <2>3. QED
      BY <1>1, <1>2, <2>1, <2>2 DEF ViewInv, FrameInv, ToldOrToTell
  <1>5. QED
    BY <1>3, <1>4

\* A step that leaves the tracker alone keeps ViewInv.
LEMMA SameViewInv ==
  ASSUME ViewInv, UNCHANGED <<interfaces, lists, owner, frames, heard>>
  PROVE  ViewInv'
  BY DEF ViewInv, FrameInv, ToldOrToTell, Turns, Frame, current_listeners, Members

\* Every step keeps ViewInv.
LEMMA StepViewInv ==
  ASSUME TypeInv, LockInv, ViewInv, [Next]_vars
  PROVE  ViewInv'
  <1>1. ASSUME NEW t \in Threads, Begin(t)
        PROVE  ViewInv'
    <2>1. ASSUME NEW i \in Interfaces, NEW m \in Implementations,
                 BeginSwap(t, i, m) \/ GetAttr(t, i) \/ BeginRegister(t, i)
          PROVE  ViewInv'
      BY <2>1, SameViewInv DEF BeginSwap, GetAttr, BeginRegister
    <2>2. ASSUME NEW i \in Interfaces, BeginUnregister(t, i)
          PROVE  ViewInv'
      BY <2>2, AnnounceViewInv DEF BeginUnregister, unregister
    <2>3. ASSUME NEW l \in Listeners, Subscribe(t, l) \/ Unsubscribe(t, l)
          PROVE  ViewInv'
      BY <2>3, AudienceViewInv DEF Subscribe, Unsubscribe
    <2>4. PICK m : m \in Implementations
      BY DEF TypeInv
    <2>5. QED
      BY <1>1, <2>1, <2>2, <2>3, <2>4 DEF Begin
  <1>2. ASSUME NEW t \in Threads, Continue(t)
        PROVE  ViewInv'
    <2>1. CASE ReplaceImpl(t) \/ SwapReturn(t) \/ CallReturn(t)
      BY <2>1, SameViewInv DEF ReplaceImpl, SwapReturn, CallReturn, trackerVars
    <2>2. CASE OnSwap(t) \/ StoreRegistration(t)
      <3>1. pc[t] # "idle" /\ args[t].interface \in Interfaces /\ owner = NoThread
        BY <2>2, BusyTyped DEF OnSwap, StoreRegistration, At
      <3>2. QED
        BY <2>2, <3>1, AnnounceViewInv DEF OnSwap, StoreRegistration, handler, register
    <2>3. CASE TellListener(t)
      BY <2>3, DeliverViewInv DEF TellListener
    <2>4. CASE LeaveTracker(t)
      BY <2>4, EmitDoneViewInv DEF LeaveTracker
    <2>5. QED
      BY <1>2, <2>1, <2>2, <2>3, <2>4 DEF Continue
  <1>3. CASE UNCHANGED vars
    BY <1>3, SameViewInv DEF vars, trackerVars
  <1>4. QED
    BY <1>1, <1>2, <1>3 DEF Next, AtRest

\* Whenever no call is in progress, every listener that handles its events and
\* stands before any that would publish has on display what the registry says,
\* for any number of listeners added and removed at any time, and whether or
\* not other listeners raise.
THEOREM ListenersSettle == Spec => []ViewsSettle
  <1> DEFINE IInv == TypeInv /\ LockInv /\ ViewInv
  <1>1. Init => IInv
    <2>1. Init => TypeInv /\ LockInv
      BY InitTypeOK DEF TypeInv, BusyHasArgs, LockInv, Init, TrackerInit
    <2>2. Init => ViewInv
      BY DEF Init, TrackerInit, ViewInv, FrameInv, ToldOrToTell, Members,
             current_listeners
    <2>3. QED
      BY <2>1, <2>2
  <1>2. IInv /\ [Next]_vars => IInv'
    BY BeginTypeInv, ContinueTypeInv, StutterTypeInv, BeginLockInv, ContinueLockInv,
       StutterLockInv, StepViewInv
    DEF Next, AtRest
  <1>3. IInv => ViewsSettle
    BY DEF ViewInv, ToldOrToTell, ViewsSettle
  <1>4. QED
    BY <1>1, <1>2, <1>3, PTL DEF Spec

---------------------------------------------------------------------------
\* Why swaps chain.  A swap that is about to announce names as previous what the
\* registry shows, unless the interface is not tracked at the moment; and while
\* it is announced, a listener whose turn is still to come has on display either
\* that, or nothing, or, if it is in the list twice, the announcement itself.
OwedInv ==
  \A t \in Threads : pc[t] = "handler" =>
    /\ args[t].interface \in Watched
    /\ interfaces[args[t].interface] \in {NoRecord, StatusRecord(args[t].old)}

Awaiting(l) ==
  heard[l][Frame.event.interface] \in
    {Frame.event.previous, Frame.event.status, NoRecord, Unknown}

TurnInv ==
  owner # NoThread /\ Frame.event.change = "swapped" /\ Frame.event.interface \in Watched =>
    \A k \in 1..Len(current_listeners) :
      k >= Frame.next /\ current_listeners[k] \notin Faulty => Awaiting(current_listeners[k])

\* A step that stores no record and moves no thread into a swap's handler.
LEMMA OwedKept ==
  ASSUME OwedInv, TypeInv,
         \A i \in Interfaces : interfaces'[i] \in {interfaces[i], NoRecord},
         \A u \in Threads : pc'[u] = "handler" => pc[u] = "handler" /\ args'[u] = args[u]
  PROVE  OwedInv'
  BY HotSwapConstants DEF OwedInv

\* A step that leaves the running loop, or finds and leaves none.
LEMMA TurnKept ==
  ASSUME TurnInv, \/ UNCHANGED <<owner, frames, lists, heard>>
                  \/ owner' = NoThread
  PROVE  TurnInv'
  BY DEF TurnInv, Awaiting, Frame, current_listeners

LEMMA BeginChain ==
  ASSUME TypeInv, LockInv, OwedInv, TurnInv, NEW t \in Threads, Begin(t)
  PROVE  OwedInv' /\ TurnInv'
  <1> USE DEF TypeInv, TypeOK, TrackerTypeOK, At
  <1>1. ASSUME NEW i \in Interfaces, NEW m \in Implementations,
               BeginSwap(t, i, m) \/ GetAttr(t, i) \/ BeginRegister(t, i)
        PROVE  OwedInv' /\ TurnInv'
    <2>1. /\ UNCHANGED <<interfaces, owner, frames, lists, heard>>
          /\ \A u \in Threads : pc'[u] = "handler" => pc[u] = "handler" /\ args'[u] = args[u]
      BY <1>1 DEF BeginSwap, GetAttr, BeginRegister, Goto
    <2> QED
      BY <2>1, OwedKept, TurnKept
  <1>2. ASSUME NEW i \in Interfaces, BeginUnregister(t, i)
        PROVE  OwedInv' /\ TurnInv'
    <2>1. /\ \A j \in Interfaces : interfaces'[j] \in {interfaces[j], NoRecord}
          /\ \A u \in Threads : pc'[u] = "handler" => pc[u] = "handler" /\ args'[u] = args[u]
      BY <1>2 DEF BeginUnregister, unregister, Goto
    <2>2. frames' = <<[event |-> StatusEvent("unregistered", i, NoRecord, NoRecord),
                       list |-> Len(lists), next |-> 1]>>
      BY <1>2, EmitStarts DEF BeginUnregister, unregister
    <2>3. Frame'.event.change = "unregistered"
      BY <2>2 DEF Frame, StatusEvent
    <2> QED
      BY <2>1, <2>3, OwedKept DEF TurnInv
  <1>3. ASSUME NEW l \in Listeners, Subscribe(t, l) \/ Unsubscribe(t, l)
        PROVE  OwedInv' /\ TurnInv'
    <2>1. interfaces' = interfaces /\ pc' = pc /\ args' = args /\ owner' = NoThread
      BY <1>3 DEF Subscribe, Unsubscribe, add_listener, remove_listener, threadVars
    <2> QED
      BY <2>1, OwedKept, TurnKept
  <1>4. PICK m : m \in Implementations
    BY TrackerConstants
  <1> QED
    BY <1>1, <1>2, <1>3, <1>4 DEF Begin

LEMMA ContinueChain ==
  ASSUME TypeInv, LockInv, AgreeInv, ViewInv, OwedInv, TurnInv, NEW t \in Threads, Continue(t)
  PROVE  OwedInv' /\ TurnInv'
  <1> USE DEF TypeInv, TypeOK, TrackerTypeOK, At
  <1>a. pc[t] # "idle" =>
          args[t] \in [interface : Interfaces, old : Implementations, new : Implementations]
    BY BusyTyped
  <1>1. CASE ReplaceImpl(t)
    <2> DEFINE i == args[t].interface
    <2>1. /\ pc[t] = "swap" /\ plock[i] = NoThread /\ i \in Interfaces
          /\ pc' = [pc EXCEPT ![t] = IF i \in Watched THEN "handler" ELSE "unlock"]
          /\ args' = [args EXCEPT ![t] = [args[t] EXCEPT !.old = impl[i]]]
          /\ UNCHANGED <<interfaces, owner, frames, lists, heard>>
      BY <1>1, <1>a DEF ReplaceImpl, Goto, trackerVars
    <2>2. i \in Watched => interfaces[i] \in {NoRecord, StatusRecord(impl[i])}
      <3>1. ~ \E u \in Threads : pc[u] = "handler" /\ args[u].interface = i
        BY <2>1, TrackerConstants DEF LockInv
      <3> HIDE DEF i
      <3> QED
        BY <3>1 DEF AgreeInv
    <2>3. args'[t].interface = i /\ args'[t].old = impl[i]
      BY <1>a, <2>1
    <2>4. OwedInv'
      BY <2>1, <2>2, <2>3 DEF OwedInv
    <2> QED
      BY <2>1, <2>4, TurnKept
  <1>2. CASE OnSwap(t) \/ StoreRegistration(t)
    <2> DEFINE i == args[t].interface
    <2>1. /\ interfaces' = [interfaces EXCEPT ![i] = StatusRecord(args[t].new)]
          /\ pc' = [pc EXCEPT ![t] = "emit"] /\ args' = args /\ i \in Interfaces
          /\ pc[t] \in {"handler", "register"} /\ owner = NoThread
          /\ UNCHANGED <<lists, heard>>
      BY <1>2, <1>a DEF OnSwap, StoreRegistration, handler, register, Goto
    <2>2. \A u \in Threads : u # t /\ pc[u] = "handler" => args[u].interface # i
      BY <2>1 DEF AgreeInv, LockInv
    <2>3. OwedInv'
      BY <2>1, <2>2, HotSwapConstants DEF OwedInv
    <2>4. CASE StoreRegistration(t)
      <3>1. frames' = <<[event |-> StatusEvent("registered", i, StatusRecord(args[t].new), NoRecord),
                         list |-> Len(lists), next |-> 1]>>
        BY <2>4, EmitStarts DEF StoreRegistration, register
      <3>2. Frame'.event.change = "registered"
        BY <3>1 DEF Frame, StatusEvent
      <3> QED
        BY <2>3, <3>2 DEF TurnInv
    <2>5. CASE OnSwap(t)
      <3> DEFINE old == StatusRecord(args[t].old)
      <3>1. frames' = <<[event |-> StatusEvent("swapped", i, StatusRecord(args[t].new), old),
                         list |-> Len(lists), next |-> 1]>>
        BY <2>5, EmitStarts DEF OnSwap, handler
      <3>2. Frame'.event.interface = i /\ Frame'.event.previous = old
        BY <3>1 DEF Frame, StatusEvent
      <3>3. interfaces[i] \in {NoRecord, old}
        BY <2>5 DEF OwedInv, OnSwap
      <3> HIDE DEF i, old
      <3>4. ASSUME NEW k \in 1..Len(current_listeners), current_listeners[k] \notin Faulty
            PROVE  heard[current_listeners[k]][i] \in {interfaces[i], Unknown}
        <4>1. current_listeners[k] \in Members(current_listeners)
          BY DEF Members
        <4> QED
          BY <2>1, <3>4, <4>1 DEF ViewInv, ToldOrToTell
      <3>5. current_listeners' = current_listeners /\ heard' = heard
        BY <2>1 DEF current_listeners
      <3> QED
        BY <2>3, <3>2, <3>3, <3>4, <3>5 DEF TurnInv, Awaiting
    <2> QED
      BY <1>2, <2>4, <2>5
  <1>3. CASE SwapReturn(t) \/ CallReturn(t)
    <2>1. /\ UNCHANGED <<interfaces, owner, frames, lists, heard>>
          /\ \A u \in Threads : pc'[u] = "handler" => pc[u] = "handler" /\ args'[u] = args[u]
      BY <1>3 DEF SwapReturn, CallReturn, Goto, trackerVars
    <2> QED
      BY <2>1, OwedKept, TurnKept
  <1>4. CASE TellListener(t)
    <2> DEFINE F == [event : Events, list : 1..Len(lists), next : Nat \ {0}]
               i == Frame.event.interface
    <2>1. /\ frames \in Seq(F) /\ frames # << >> /\ owner' = owner
          /\ frames' = [frames EXCEPT ![Len(frames)].next = @ + 1]
          /\ UNCHANGED <<interfaces, lists, pc, args>>
      BY <1>4 DEF TellListener, Deliver, threadVars
    <2>2. Frame \in F /\ Len(frames) \in Nat \ {0}
      <3> HIDE DEF F
      <3> QED
        BY <2>1, SeqLast DEF Frame
    <2>3. Frame'.event = Frame.event /\ Frame'.next = Frame.next + 1 /\ Frame.next \in Nat
      BY <2>1, <2>2 DEF Frame
    <2>4. \A l \in Listeners : heard'[l][i] \in {heard[l][i], Frame.event.status}
      <3>1. PICK told : \/ heard' = [heard EXCEPT ![told][i] = Frame.event.status]
                        \/ heard' = heard
        BY <1>4 DEF TellListener, Deliver
      <3>2. heard \in [Listeners -> [Interfaces -> Records \cup {NoRecord, Unknown}]] /\ i \in Interfaces
        BY <2>2 DEF Events
      <3> DEFINE status == Frame.event.status
      <3> HIDE DEF i, status
      <3>3. ASSUME NEW l \in Listeners, heard' = [heard EXCEPT ![told][i] = status]
            PROVE  heard'[l][i] \in {heard[l][i], status}
        <4>1. CASE l = told
          <5>1. heard'[l] = [heard[l] EXCEPT ![i] = status]
            BY <3>2, <3>3, <4>1
          <5> QED
            BY <3>2, <5>1
        <4>2. CASE l # told
          BY <3>2, <3>3, <4>2
        <4> QED
          BY <4>1, <4>2
      <3> QED
        BY <3>1, <3>3 DEF status
    <2>5. /\ current_listeners' = current_listeners
          /\ \A k \in 1..Len(current_listeners) : current_listeners[k] \in Listeners
      BY <2>1 DEF current_listeners
    <2>6. OwedInv'
      BY <2>1, OwedKept
    <2>7. ASSUME owner # NoThread, Frame.event.change = "swapped", i \in Watched,
                 NEW k \in 1..Len(current_listeners), k >= Frame.next + 1,
                 current_listeners[k] \notin Faulty
          PROVE  heard'[current_listeners[k]][i] \in
                   {Frame.event.previous, Frame.event.status, NoRecord, Unknown}
      <3>1. k >= Frame.next
        <4>1. current_listeners \in Seq(Listeners)
          BY DEF current_listeners
        <4> QED
          BY <2>3, <2>7, <4>1
      <3>2. Awaiting(current_listeners[k])
        BY <2>7, <3>1 DEF TurnInv
      <3>3. heard'[current_listeners[k]][i] \in {heard[current_listeners[k]][i], Frame.event.status}
        BY <2>4, <2>5, <2>7
      <3> QED
        BY <3>2, <3>3 DEF Awaiting
    <2> HIDE DEF F, i
    <2> QED
      BY <2>1, <2>3, <2>5, <2>6, <2>7 DEF TurnInv, Awaiting, i
  <1>5. CASE LeaveTracker(t)
    <2>1. /\ owner' = NoThread /\ interfaces' = interfaces
          /\ \A u \in Threads : pc'[u] = "handler" => pc[u] = "handler" /\ args'[u] = args[u]
      BY <1>5, EmitEnds DEF LeaveTracker, EmitDone, Goto
    <2> QED
      BY <2>1, OwedKept, TurnKept
  <1> QED
    BY <1>1, <1>2, <1>3, <1>4, <1>5 DEF Continue

LEMMA StutterChain ==
  ASSUME TypeInv, OwedInv, TurnInv, UNCHANGED vars
  PROVE  OwedInv' /\ TurnInv'
  BY OwedKept, TurnKept DEF vars, trackerVars, threadVars, TypeInv, TypeOK, TrackerTypeOK

\* What the running loop tells next is what the invariant says of that turn.
LEMMA ToldInTurn ==
  ASSUME TypeInv, LockInv, ViewInv, TurnInv, NEW t \in Threads, Deliver(t),
         NEW l \in Listeners \ Faulty, NEW i \in Watched, heard'[l][i] # heard[l][i],
         Frame.event.change = "swapped"
  PROVE  heard[l][i] \in {Frame.event.previous, NoRecord, Unknown}
  <1> DEFINE F == [event : Events, list : 1..Len(lists), next : Nat \ {0}]
             told == lists[Frame.list][Frame.next]
  <1>1. /\ frames \in Seq(F) /\ frames # << >> /\ owner # NoThread
        /\ Frame.next <= Len(lists[Frame.list])
        /\ \/ heard' = [heard EXCEPT ![told][Frame.event.interface] = Frame.event.status]
           \/ heard' = heard
    BY TrackerConstants DEF Deliver, TypeInv, TypeOK, TrackerTypeOK
  <1>2. Frame \in F
    <2> HIDE DEF F
    <2> QED
      BY <1>1, SeqLast DEF Frame
  <1>3. Frame.list = Len(lists) /\ told = current_listeners[Frame.next]
    BY <1>1 DEF ViewInv, FrameInv, current_listeners
  <1>4. Frame.next \in 1..Len(current_listeners)
    BY <1>1, <1>2, <1>3 DEF current_listeners, TypeInv, TypeOK, TrackerTypeOK
  <1>5. heard \in [Listeners -> [Interfaces -> Records \cup {NoRecord, Unknown}]] /\ i \in Interfaces
    BY HotSwapConstants DEF TypeInv, TypeOK, TrackerTypeOK
  <1> HIDE DEF F, told
  <1>6. l = told /\ i = Frame.event.interface /\ heard'[l][i] = Frame.event.status
    BY <1>1, <1>5
  <1>7. Frame.next >= Frame.next
    BY <1>4
  <1>8. Awaiting(l)
    BY <1>1, <1>3, <1>4, <1>6, <1>7 DEF TurnInv
  <1> QED
    BY <1>6, <1>8 DEF Awaiting

\* If the application registers an interface only while no thread is swapping
\* it, every listener hears an unbroken chain of swaps: each starts where the
\* last one it was told of ended.
THEOREM SwapsFollowOneAnother ==
  ASSUME SerializedRegistration
  PROVE  Spec => SwapsChain
  <1> DEFINE IInv == TypeInv /\ LockInv /\ AgreeInv /\ ViewInv /\ OwedInv /\ TurnInv
             Chained == \A l \in Listeners \ Faulty, i \in Watched :
                          /\ heard'[l][i] # heard[l][i]
                          /\ owner # NoThread /\ Frame.event.change = "swapped"
                          => heard[l][i] \in {Frame.event.previous, NoRecord, Unknown}
  <1>1. Init => IInv
    <2>1. Init => TypeInv /\ LockInv /\ AgreeInv
      BY InitTypeOK DEF TypeInv, BusyHasArgs, LockInv, AgreeInv, Init, TrackerInit
    <2>2. Init => ViewInv
      BY DEF Init, TrackerInit, ViewInv, FrameInv, ToldOrToTell, Members, current_listeners
    <2>3. Init => OwedInv /\ TurnInv
      BY DEF Init, TrackerInit, OwedInv, TurnInv
    <2> QED
      BY <2>1, <2>2, <2>3
  <1>2. IInv /\ [Next]_vars => IInv'
    <2>1. TypeInv /\ LockInv /\ AgreeInv /\ [Next]_vars => TypeInv' /\ LockInv' /\ AgreeInv'
      BY BeginTypeInv, ContinueTypeInv, StutterTypeInv, BeginLockInv, ContinueLockInv,
         StutterLockInv, BeginAgreeInv, ContinueAgreeInv, StutterAgreeInv, SerializedRegistration
      DEF Next, AtRest
    <2>2. IInv /\ [Next]_vars => OwedInv' /\ TurnInv'
      BY BeginChain, ContinueChain, StutterChain DEF Next, AtRest
    <2> QED
      BY <2>1, <2>2, StepViewInv
  <1>3. IInv /\ [Next]_vars => [Chained]_vars
    <2> SUFFICES ASSUME IInv, [Next]_vars, NEW l \in Listeners \ Faulty, NEW i \in Watched,
                        heard'[l][i] # heard[l][i], owner # NoThread,
                        Frame.event.change = "swapped"
                 PROVE  heard[l][i] \in {Frame.event.previous, NoRecord, Unknown}
      OBVIOUS
    <2>1. CASE heard' = heard
      BY <2>1
    <2>2. ASSUME NEW t \in Threads, Deliver(t)
          PROVE  heard[l][i] \in {Frame.event.previous, NoRecord, Unknown}
      BY <2>2, ToldInTurn
    <2>3. ASSUME NEW t \in Threads, Begin(t) PROVE heard' = heard
      BY <2>3 DEF Begin, BeginSwap, GetAttr, BeginRegister, BeginUnregister, unregister,
                  Subscribe, Unsubscribe
    <2>4. ASSUME NEW t \in Threads, Continue(t) PROVE heard' = heard \/ Deliver(t)
      BY <2>4 DEF Continue, ReplaceImpl, OnSwap, handler, SwapReturn, CallReturn,
                  StoreRegistration, register, TellListener, LeaveTracker, EmitDone, trackerVars
    <2>5. UNCHANGED vars => heard' = heard
      BY DEF vars, trackerVars
    <2> QED
      BY <2>1, <2>2, <2>3, <2>4, <2>5 DEF Next, AtRest
  <1> QED
    BY <1>1, <1>2, <1>3, PTL DEF Spec, SwapsChain

---------------------------------------------------------------------------
---------------------------------------------------------------------------
\* HotSwap implements StatusBoard, step by step.
\* With the tracker's lock free nobody is left to tell.
LEMMA NobodyToTell == owner = NoThread => StillToTell = << >>
  BY DEF StillToTell

\* While the loop of _emit runs, those still to be told are the rest of the
\* current list.
LEMMA RestToTell ==
  ASSUME TypeInv, LockInv, FrameInv, owner # NoThread
  PROVE  /\ current_listeners \in Seq(Listeners) /\ Frame.next \in Nat \ {0}
         /\ StillToTell = [k \in 1..(1 + Len(current_listeners) - Frame.next) |->
              <<current_listeners[k + Frame.next - 1], Frame.event.interface>>]
  <1> DEFINE n == Frame.next
             cur == current_listeners
             rest == SubSeq(cur, n, Len(cur))
  <1>1. n \in Nat \ {0} /\ cur \in Seq(Listeners) /\ cur = lists[Frame.list]
    <2>1. frames \in Seq([event : Events, list : 1..Len(lists), next : Nat \ {0}])
      BY DEF TypeInv, TypeOK, TrackerTypeOK
    <2>3. Len(frames) = 1 /\ frames # << >>
      BY DEF LockInv
    <2>2. Frame \in [event : Events, list : 1..Len(lists), next : Nat \ {0}]
      BY <2>1, <2>3, SeqLast DEF Frame
    <2> QED
      BY <2>2 DEF FrameInv, current_listeners, TypeInv, TypeOK, TrackerTypeOK
  <1>2. StillToTell = [k \in 1..Len(rest) |-> <<rest[k], Frame.event.interface>>]
    BY <1>1 DEF StillToTell, FrameInv
  <1> HIDE DEF n, cur
  <1>3. /\ 1..Len(rest) = 1..(1 + Len(cur) - n)
        /\ \A k \in 1..Len(rest) : rest[k] = cur[k + n - 1]
    BY <1>1, SeqRest
  <1>4. [k \in 1..Len(rest) |-> <<rest[k], Frame.event.interface>>]
          = [k \in 1..(1 + Len(cur) - n) |-> <<cur[k + n - 1], Frame.event.interface>>]
    BY <1>3
  <1> QED
    BY <1>1, <1>2, <1>4 DEF n, cur

\* The swaps that owe an announcement are the same after a step that moves no
\* thread into or out of its handler.
LEMMA OwedSame ==
  ASSUME \A u \in Threads : (pc'[u] = "handler") <=> (pc[u] = "handler"),
         \A u \in Threads : pc[u] = "handler" => args'[u] = args[u]
  PROVE  Owed' = Owed
  BY DEF Owed, At, About

\* register, unregister and the swap handler put one record on the board, and all
\* current listeners are to be told.
LEMMA EmitShows ==
  ASSUME TypeInv, LockInv, ViewInv, NEW t \in Threads, NEW c, NEW p,
         NEW i \in Interfaces, NEW r, owner = NoThread,
         interfaces' = [interfaces EXCEPT ![i] = r],
         emit(t, StatusEvent(c, i, r, p)), UNCHANGED <<lists, heard, impl>>
  PROVE  Board!Show(i, r)
  <1>1. /\ frames' = <<[event |-> StatusEvent(c, i, r, p), list |-> Len(lists), next |-> 1]>>
        /\ owner' = t /\ t # NoThread
    BY EmitStarts
  <1>2. Frame' = [event |-> StatusEvent(c, i, r, p), list |-> Len(lists), next |-> 1]
    BY <1>1 DEF Frame
  <1>3. current_listeners \in Seq(Listeners) /\ current_listeners' = current_listeners
        /\ lists[Len(lists)] = current_listeners
    BY DEF TypeInv, TypeOK, TrackerTypeOK, current_listeners
  <1>4. StillToTell' = [k \in 1..Len(current_listeners) |-> <<current_listeners[k], i>>]
    <2> DEFINE cur == current_listeners
               rest == SubSeq(cur, 1, Len(cur))
    <2>1. StillToTell' = [k \in 1..Len(rest) |-> <<rest[k], i>>]
      BY <1>1, <1>2, <1>3 DEF StillToTell, StatusEvent
    <2>2. cur \in Seq(Listeners)
      BY <1>3
    <2> HIDE DEF cur
    <2>3. rest = cur
      BY <2>2
    <2> QED
      BY <2>1, <2>3 DEF cur
  <1> QED
    BY <1>3, <1>4, NobodyToTell DEF Board!Show

\* Beginning a call: nothing on the board changes, or a record is withdrawn, or
\* the audience changes.
LEMMA BeginBoard ==
  ASSUME TypeInv, LockInv, ViewInv, NEW t \in Threads, Begin(t)
  PROVE  [Board!Next]_(Board!boardVars)
  <1>1. ASSUME NEW i \in Interfaces, NEW m \in Implementations,
               BeginSwap(t, i, m) \/ GetAttr(t, i) \/ BeginRegister(t, i)
        PROVE  UNCHANGED Board!boardVars
    <2>1. Owed' = Owed
      <3>1. PICK label \in {"swap", "call", "register"} : pc[t] = "idle" /\ pc' = [pc EXCEPT ![t] = label]
            /\ \E a : args' = [args EXCEPT ![t] = a]
        BY <1>1 DEF BeginSwap, GetAttr, BeginRegister, Goto, At
      <3> QED
        BY <3>1, OwedSame DEF TypeInv, TypeOK
    <2>2. UNCHANGED <<interfaces, lists, owner, frames, heard, impl>>
      BY <1>1 DEF BeginSwap, GetAttr, BeginRegister, providerVars
    <2> QED
      BY <2>1, <2>2 DEF Board!boardVars, StillToTell, current_listeners, Frame
  <1>2. ASSUME NEW i \in Interfaces, BeginUnregister(t, i) PROVE Board!Withdraw(i)
    <2>1. /\ interfaces' = [interfaces EXCEPT ![i] = NoRecord] /\ interfaces[i] # NoRecord
          /\ emit(t, StatusEvent("unregistered", i, NoRecord, NoRecord))
          /\ UNCHANGED <<lists, heard, impl>> /\ owner = NoThread
      BY <1>2 DEF BeginUnregister, unregister, providerVars
    <2>2. Board!Show(i, NoRecord)
      BY <2>1, EmitShows
    <2>3. Owed' = Owed
      BY <1>2, OwedSame DEF BeginUnregister, Goto, At, TypeInv, TypeOK
    <2> QED
      BY <2>1, <2>2, <2>3 DEF Board!Withdraw
  <1>3. ASSUME NEW l \in Listeners, Subscribe(t, l) PROVE Board!Join(l)
    <2>1. /\ owner = NoThread /\ owner' = owner
          /\ lists' = [lists EXCEPT ![Len(lists)] = Append(@, l)]
          /\ heard' = IF l \in Members(current_listeners) THEN heard
                      ELSE [heard EXCEPT ![l] = [i \in Interfaces |-> Unknown]]
          /\ UNCHANGED <<interfaces, impl, pc, args>>
      BY <1>3 DEF Subscribe, add_listener, providerVars, threadVars
    <2>2. current_listeners' = Append(current_listeners, l)
      BY <2>1 DEF current_listeners, TypeInv, TypeOK, TrackerTypeOK
    <2>3. l \in Members(current_listeners) <=>
            \E k \in 1..Len(current_listeners) : current_listeners[k] = l
      BY DEF Members
    <2>4. Owed' = Owed /\ StillToTell = << >> /\ StillToTell' = << >>
      BY <2>1 DEF Owed, At, About, StillToTell
    <2> QED
      BY <2>1, <2>2, <2>3, <2>4 DEF Board!Join
  <1>4. ASSUME NEW l \in Listeners, Unsubscribe(t, l)
        PROVE  Board!Leave(l) \/ UNCHANGED Board!boardVars
    <2> DEFINE cur == current_listeners
               kept == {k \in 1..Len(cur) : cur[k] # l \/ l \in BoundMethods}
    <2>1. /\ owner = NoThread /\ owner' = owner /\ rebind_without(l)
          /\ UNCHANGED <<interfaces, heard, impl, pc, args>>
      BY <1>4 DEF Unsubscribe, remove_listener, providerVars, threadVars
    <2>2. Owed' = Owed /\ StillToTell = << >> /\ StillToTell' = << >>
      BY <2>1 DEF Owed, At, About, StillToTell
    <2>3. PICK f \in Enumerations(kept) :
            lists' = Append(lists, [j \in 1..Cardinality(kept) |-> cur[f[j]]])
      BY <2>1 DEF rebind_without
    <2>4. cur' = [j \in 1..Cardinality(kept) |-> cur[f[j]]]
      BY <2>3 DEF current_listeners, TypeInv, TypeOK, TrackerTypeOK
    <2>5. CASE l \notin BoundMethods
      <3> DEFINE others == {k \in 1..Len(current_listeners) : current_listeners[k] # l}
                 n == Cardinality(others)
      <3>1. kept = others
        BY <2>5
      <3>2. current_listeners \in Seq(Listeners) /\ Len(current_listeners) \in Nat
        BY DEF TypeInv, TypeOK, TrackerTypeOK, current_listeners
      <3>3. n \in 0..Len(current_listeners) /\ others = {f[j] : j \in 1..n}
        <4>1. others \in SUBSET (1..Len(current_listeners)) /\ f \in Enumerations(others)
          BY <2>3, <3>1
        <4> HIDE DEF others
        <4>2. /\ Cardinality(others) \in 0..Len(current_listeners)
              /\ others = {f[j] : j \in 1..Cardinality(others)}
          BY <3>2, <4>1, EnumerationOnto
        <4> QED
          BY <4>2
      <3>4. f \in [1..n -> others] /\ \A j, k \in 1..n : j < k => f[j] < f[k]
        BY <2>3, <3>1 DEF Enumerations
      <3>5. current_listeners' = [j \in 1..n |-> current_listeners[f[j]]]
        BY <2>4, <3>1
      <3>6. UNCHANGED <<impl, interfaces, Owed, StillToTell, heard>>
        BY <2>1, <2>2
      <3> HIDE DEF kept, n
      <3>7. Board!Leave(l)
        BY <2>2, <3>3, <3>4, <3>5, <3>6, Zenon DEF Board!Leave
      <3> QED
        BY <3>7
    <2>6. CASE l \in BoundMethods
      <3>1. cur \in Seq(Listeners) /\ Len(cur) \in Nat
        BY DEF TypeInv, TypeOK, TrackerTypeOK, current_listeners
      <3>2. kept = 1..Len(cur)
        BY <2>6
      <3>3. Cardinality(kept) = Len(cur)
        <4> DEFINE n == Len(cur)
        <4>1. n \in Nat /\ kept = 1..n
          BY <3>1, <3>2
        <4> HIDE DEF n, kept
        <4>2. Cardinality(1..n) = n
          BY <4>1, FS_Interval
        <4> QED
          BY <4>1, <4>2 DEF n
      <3>4. f \in [1..Len(cur) -> 1..Len(cur)]
            /\ \A j, k \in 1..Len(cur) : j < k => f[j] < f[k]
        BY <2>3, <3>2, <3>3 DEF Enumerations
      <3>5. \A k \in 1..Len(cur) : f[k] = k
        BY <3>1, <3>4, IncreasingIsIdentity
      <3> HIDE DEF kept, cur
      <3>6. cur' = [k \in 1..Len(cur) |-> cur[k]]
        BY <2>4, <3>3, <3>5
      <3>7. cur' = cur
        BY <3>1, <3>6
      <3> QED
        BY <2>1, <2>2, <3>7 DEF Board!boardVars, cur
    <2> QED
      BY <2>5, <2>6
  <1> QED
    BY <1>1, <1>2, <1>3, <1>4 DEF Begin, Board!Next

\* The steps of a call: a replacement activates, the handler and a registration
\* announce, a turn of the loop tells; the others change nothing on the board.
LEMMA ContinueBoard ==
  ASSUME TypeInv, LockInv, AgreeInv, ViewInv, NEW t \in Threads, Continue(t)
  PROVE  [Board!Next]_(Board!boardVars)
  <1> DEFINE i == args[t].interface
  <1>0. \A u \in Threads : pc[u] # "idle" =>
          args[u] \in [interface : Interfaces, old : Implementations, new : Implementations]
          /\ args[u] # NoArgs
    BY BusyTyped
  <1>1. CASE ReplaceImpl(t)
    <2>1. /\ pc[t] = "swap" /\ plock[i] = NoThread
          /\ impl' = [impl EXCEPT ![i] = args[t].new]
          /\ pc' = [pc EXCEPT ![t] = IF i \in Watched THEN "handler" ELSE "unlock"]
          /\ args' = [args EXCEPT ![t] = [args[t] EXCEPT !.old = impl[i]]]
          /\ UNCHANGED <<interfaces, owner, frames, lists, heard>>
      BY <1>1 DEF ReplaceImpl, Goto, At, trackerVars
    <2>2. i \in Interfaces /\ args[t].new \in Implementations /\ args'[t] # NoArgs
          /\ args'[t].interface = i
      BY <1>0, <2>1 DEF TypeInv, TypeOK
    <2>3. i \notin Owed
      BY <2>1, TrackerConstants DEF Owed, At, About, LockInv
    <2>4. \A u \in Threads \ {t} : pc'[u] = pc[u] /\ args'[u] = args[u]
      BY <2>1 DEF TypeInv, TypeOK
    <2>5. pc'[t] = (IF i \in Watched THEN "handler" ELSE "unlock")
      BY <2>1 DEF TypeInv, TypeOK
    <2> HIDE DEF i
    <2>6. Owed' = IF i \in Watched THEN Owed \cup {i} ELSE Owed
      <3>1. \A j \in Interfaces : j \in Owed' <=> j \in Owed \/ (j = i /\ i \in Watched)
        <4> TAKE j \in Interfaces
        <4>1. j \in Owed => j \in Owed'
          BY <2>1, <2>4 DEF Owed, At, About
        <4>2. j = i /\ i \in Watched => j \in Owed'
          BY <2>2, <2>5 DEF Owed, At, About
        <4>3. j \in Owed' => j \in Owed \/ (j = i /\ i \in Watched)
          BY <2>2, <2>4, <2>5 DEF Owed, At, About
        <4> QED
          BY <4>1, <4>2, <4>3
      <3> QED
        BY <3>1, <2>2 DEF Owed
    <2>7. UNCHANGED <<StillToTell, current_listeners>>
      BY <2>1 DEF StillToTell, current_listeners, Frame
    <2>8. Board!Activate(i, args[t].new)
      BY <2>1, <2>3, <2>6, <2>7 DEF Board!Activate
    <2> QED
      BY <2>2, <2>8 DEF Board!Next
  <1>2. CASE OnSwap(t) \/ StoreRegistration(t)
    <2>1. /\ pc[t] \in {"handler", "register"} /\ owner = NoThread
          /\ pc' = [pc EXCEPT ![t] = "emit"] /\ args' = [args EXCEPT ![t] = args[t]]
          /\ interfaces' = [interfaces EXCEPT ![i] = StatusRecord(args[t].new)]
          /\ \E c, p : emit(t, StatusEvent(c, i, StatusRecord(args[t].new), p))
          /\ UNCHANGED <<lists, heard, impl>>
      BY <1>2 DEF OnSwap, StoreRegistration, handler, register, Goto, At, providerVars
    <2>2. i \in Interfaces /\ args[t].new = impl[i] /\ impl[i] \in Implementations
      BY <1>0, <2>1 DEF AgreeInv, TypeInv, TypeOK
    <2>3. Board!Show(i, StatusRecord(impl[i]))
      BY <2>1, <2>2, EmitShows
    <2>4. [m \in Implementations |-> StatusRecord(m)][impl[i]] = StatusRecord(impl[i])
      BY <2>2
    <2>5. args' = args /\ pc'[t] = "emit" /\ \A u \in Threads \ {t} : pc'[u] = pc[u]
      BY <2>1 DEF TypeInv, TypeOK
    <2>6. \A u \in Threads \ {t} : pc[u] = "handler" => args[u].interface # i
      BY <2>1 DEF LockInv, AgreeInv
    <2> HIDE DEF i
    <2>7. Owed' = Owed \ {i}
      <3>1. \A j \in Interfaces : j \in Owed' <=> j \in Owed /\ j # i
        <4> TAKE j \in Interfaces
        <4>1. j \in Owed' => j \in Owed /\ j # i
          BY <2>5, <2>6 DEF Owed, At, About
        <4>2. j \in Owed /\ j # i => j \in Owed'
          BY <2>5 DEF Owed, At, About, i
        <4> QED
          BY <4>1, <4>2
      <3> QED
        BY <3>1 DEF Owed
    <2>8. Board!Announce(i)
      BY <2>3, <2>4, <2>7 DEF Board!Announce
    <2> QED
      BY <2>2, <2>8 DEF Board!Next
  <1>3. CASE SwapReturn(t) \/ CallReturn(t)
    <2>1. /\ pc[t] \in {"unlock", "call"} /\ pc' = [pc EXCEPT ![t] = "idle"]
          /\ args' = [args EXCEPT ![t] = NoArgs]
          /\ UNCHANGED <<interfaces, owner, frames, lists, heard, impl>>
      BY <1>3 DEF SwapReturn, CallReturn, Goto, At, trackerVars, providerVars
    <2>2. Owed' = Owed
      BY <2>1, OwedSame DEF TypeInv, TypeOK
    <2> QED
      BY <2>1, <2>2 DEF Board!boardVars, StillToTell, current_listeners, Frame
  <1>4. CASE LeaveTracker(t)
    <2>1. /\ pc[t] = "emit" /\ EmitDone(t)
          /\ \E label \in {"unlock", "idle"} : pc' = [pc EXCEPT ![t] = label]
          /\ \A u \in Threads \ {t} : args'[u] = args[u]
          /\ impl' = impl
      BY <1>4 DEF LeaveTracker, Goto, At, providerVars, TypeInv, TypeOK
    <2>2. Owed' = Owed
      BY <2>1, OwedSame DEF TypeInv, TypeOK
    <2>3. owner # NoThread /\ owner' = NoThread /\ FrameInv
          /\ Frame.next > Len(lists[Frame.list]) /\ lists[Frame.list] = current_listeners
          /\ UNCHANGED <<interfaces, heard, lists>>
      BY <2>1, EmitEnds, TrackerConstants DEF EmitDone, FrameInv, ViewInv, current_listeners
    <2>4. StillToTell = << >>
      <3>1. 1..(1 + Len(current_listeners) - Frame.next) = {}
        BY <2>3, RestToTell
      <3> QED
        BY <2>3, <3>1, RestToTell
    <2>5. StillToTell' = << >>
      BY <2>3 DEF StillToTell
    <2> QED
      BY <2>1, <2>2, <2>3, <2>4, <2>5 DEF Board!boardVars, current_listeners
  <1>5. CASE TellListener(t)
    <2> DEFINE cur == current_listeners
               n == Frame.next
               told == cur[n]
               e == Frame.event
    <2>1. /\ owner = t /\ frames # << >> /\ owner' = owner /\ lists' = lists
          /\ frames' = [frames EXCEPT ![Len(frames)].next = @ + 1]
          /\ n <= Len(lists[Frame.list])
          /\ \/ heard' = [heard EXCEPT ![lists[Frame.list][n]][e.interface] = e.status]
             \/ lists[Frame.list][n] \in Faulty /\ UNCHANGED heard
          /\ UNCHANGED <<interfaces, impl, pc, args>>
      BY <1>5 DEF TellListener, Deliver, providerVars, threadVars
    <2>2. owner # NoThread /\ FrameInv /\ lists[Frame.list] = cur
          /\ e.status = interfaces[e.interface]
      BY <2>1, TrackerConstants DEF ViewInv, FrameInv, current_listeners
    <2>3. /\ n \in Nat \ {0} /\ cur \in Seq(Listeners)
          /\ StillToTell = [k \in 1..(1 + Len(cur) - n) |-> <<cur[k + n - 1], e.interface>>]
      BY <2>2, RestToTell
    <2>4. Frame'.next = n + 1 /\ Frame'.event = e /\ Frame'.list = Frame.list
      <3> DEFINE F == [event : Events, list : 1..Len(lists), next : Nat \ {0}]
                 f == Frame
                 g == [f EXCEPT !.next = n + 1]
      <3>0. frames \in Seq(F) /\ Len(frames) = 1
        BY <2>1, TrackerConstants DEF LockInv, TypeInv, TypeOK, TrackerTypeOK
      <3>1. frames \in Seq(F) /\ Len(frames) = 1 /\ f \in F /\ f = frames[1]
        <4> HIDE DEF F
        <4> QED
          BY <2>1, <3>0, SeqLast DEF Frame
      <3>2. frames' = [frames EXCEPT ![1] = g]
        BY <2>1, <3>1
      <3>3. g.next = n + 1 /\ g.event = e /\ g.list = Frame.list
        BY <3>1
      <3> HIDE DEF F, f, g
      <3>4. Len(frames') = 1 /\ frames'[1] = g
        BY <3>1, <3>2
      <3>5. Frame' = g
        BY <3>4 DEF Frame
      <3> QED
        BY <3>3, <3>5
    <2>5. StillToTell' = [k \in 1..(Len(cur) - n) |-> <<cur[k + n], e.interface>>]
      <3> DEFINE rest == SubSeq(cur, n + 1, Len(cur))
      <3>0. owner' # NoThread /\ lists'[Frame'.list] = cur
        BY <2>1, <2>2, <2>4
      <3>1. StillToTell' = [k \in 1..Len(rest) |-> <<rest[k], e.interface>>]
        BY <3>0, <2>4 DEF StillToTell
      <3> HIDE DEF cur, n, e
      <3>2. /\ 1..Len(rest) = 1..(Len(cur) - n)
            /\ \A k \in 1..Len(rest) : rest[k] = cur[k + n]
        <4> DEFINE m == n + 1
        <4>1. m \in Nat \ {0} /\ cur \in Seq(Listeners) /\ m = n + 1
          BY <2>3
        <4> HIDE DEF m
        <4>2. /\ 1..Len(SubSeq(cur, m, Len(cur))) = 1..(1 + Len(cur) - m)
              /\ \A k \in 1..Len(SubSeq(cur, m, Len(cur))) :
                   SubSeq(cur, m, Len(cur))[k] = cur[k + m - 1]
          BY <4>1, SeqRest
        <4> QED
          BY <2>3, <4>1, <4>2
      <3> QED
        BY <3>1, <3>2
    <2>6. n <= Len(cur)
      BY <2>1, <2>2
    <2> HIDE DEF cur, n, e
    <2>7. StillToTell # << >> /\ Head(StillToTell) = <<told, e.interface>>
          /\ Tail(StillToTell) = StillToTell'
      <3> DEFINE S == [k \in 1..(1 + Len(cur) - n) |-> <<cur[k + n - 1], e.interface>>]
      <3>1. S = StillToTell /\ 1 + Len(cur) - n \in Nat \ {0} /\ Len(cur) \in Nat
        BY <2>3, <2>6
      <3>2. Len(S) = 1 + Len(cur) - n /\ S # << >>
        BY <3>1
      <3>3. Head(S) = <<cur[n], e.interface>>
        BY <2>3, <3>1
      <3>4. Tail(S) = [k \in 1..(Len(cur) - n) |-> S[k + 1]]
        <4> DEFINE m == 1 + Len(cur) - n
                   T == {S[k] : k \in 1..m}
        <4>1. S \in [1..m -> T]
          OBVIOUS
        <4>2. m \in Nat \ {0} /\ m - 1 = Len(cur) - n
          BY <2>3, <3>1
        <4> HIDE DEF S, T, m
        <4>3. Tail(S) = [k \in 1..(m - 1) |-> S[k + 1]]
          <5> DEFINE v == Tail(S)
          <5>1. S \in Seq(T) /\ Len(S) = m /\ S # << >>
            BY <4>1, <4>2, SeqFromFunction
          <5>2. v \in Seq(T) /\ Len(v) = m - 1 /\ \A k \in 1..(m - 1) : v[k] = S[k + 1]
            BY <5>1, HeadTailProperties
          <5> HIDE DEF v
          <5>3. v = [k \in 1..(m - 1) |-> v[k]]
            BY <5>2
          <5>4. v = [k \in 1..(m - 1) |-> S[k + 1]]
            BY <5>2, <5>3
          <5> QED
            BY <5>4 DEF v
        <4> QED
          BY <4>2, <4>3
      <3>5. \A k \in 1..(Len(cur) - n) : S[k + 1] = <<cur[k + n], e.interface>>
        BY <2>3, <3>1
      <3> HIDE DEF S
      <3> QED
        BY <2>5, <3>1, <3>2, <3>3, <3>4, <3>5
    <2>8. Head(StillToTell)[1] = told /\ Head(StillToTell)[2] = e.interface
      BY <2>7
    <2>9. Owed' = Owed /\ current_listeners' = current_listeners
      BY <2>1 DEF Owed, At, About, current_listeners
    <2>10. Board!Tell
      BY <2>1, <2>2, <2>7, <2>8, <2>9 DEF Board!Tell
    <2> QED
      BY <2>10 DEF Board!Next
  <1> QED
    BY <1>1, <1>2, <1>3, <1>4, <1>5 DEF Continue

\* Threads, locks and callbacks implement the board, step by step: no activation
\* of a watched interface overtakes the announcement of the one before, the board
\* changes again only when every listener has been told of the last change, in
\* order, and each is told what the board shows.
THEOREM HotSwapImplementsBoard ==
  ASSUME SerializedRegistration
  PROVE  Spec => Board!Init /\ [][Board!Next]_(Board!boardVars)
  <1> DEFINE IInv == TypeInv /\ LockInv /\ AgreeInv /\ ViewInv
  <1>1. Init => IInv
    <2>1. Init => TypeInv /\ LockInv /\ AgreeInv
      BY InitTypeOK DEF TypeInv, BusyHasArgs, LockInv, AgreeInv, Init, TrackerInit
    <2>2. Init => ViewInv
      BY DEF Init, TrackerInit, ViewInv, FrameInv, ToldOrToTell, Members, current_listeners
    <2> QED
      BY <2>1, <2>2
  <1>2. Init => Board!Init
    BY DEF Init, TrackerInit, Board!Init, Owed, At, StillToTell, current_listeners
  <1>3. IInv /\ [Next]_vars => IInv'
    <2>1. TypeInv /\ LockInv /\ AgreeInv /\ [Next]_vars => TypeInv' /\ LockInv' /\ AgreeInv'
      BY BeginTypeInv, ContinueTypeInv, StutterTypeInv, BeginLockInv, ContinueLockInv,
         StutterLockInv, BeginAgreeInv, ContinueAgreeInv, StutterAgreeInv, SerializedRegistration
      DEF Next, AtRest
    <2> QED
      BY <2>1, StepViewInv
  <1>4. IInv /\ [Next]_vars => [Board!Next]_(Board!boardVars)
    <2>1. UNCHANGED vars => UNCHANGED Board!boardVars
      BY DEF vars, trackerVars, providerVars, threadVars, Board!boardVars, Owed, At, About,
             StillToTell, current_listeners, Frame
    <2> QED
      BY <2>1, BeginBoard, ContinueBoard DEF Next, AtRest
  <1> QED
    BY <1>1, <1>2, <1>3, <1>4, PTL DEF Spec
=============================================================================
