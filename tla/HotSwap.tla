------------------------------ MODULE HotSwap ------------------------------
(***************************************************************************)
(* The run-time swap of an implementation: the Providers of                 *)
(* simulation/hal/provider.py, wired to the tracker by                      *)
(*   Provider(impl, on_swap=tracker.create_swap_handler(interface)),         *)
(* and the threads that swap, call, register and unregister interfaces and  *)
(* edit the listeners.                                                      *)
(*                                                                         *)
(* A provider runs its callback while it holds its own lock, so a swap      *)
(* takes the provider's lock and then the tracker's.  The shipped listeners  *)
(* only publish; a listener in Probing also reads the provider the event is *)
(* about, as any callable that accepts a StatusEvent may.                   *)
(***************************************************************************)
EXTENDS SimulationStatus

CONSTANTS
  Watched,                \* interfaces whose Provider has the tracker's handler
  Initial,                \* implementation each Provider is built with
  SerializedRegistration, \* the application registers an interface only while
                          \* no thread is swapping it
  Probing,                \* listeners that read the provider in their callback
  NoArgs

ASSUME HotSwapConstants ==
  /\ Probing \subseteq Listeners
  /\ Watched \subseteq Interfaces
  /\ Initial \in [Interfaces -> Implementations]
  /\ SerializedRegistration \in BOOLEAN
  /\ NoArgs \notin
       [interface : Interfaces, old : Implementations, new : Implementations]

VARIABLES
  impl,   \* _impl of each provider
  plock,  \* the thread holding each provider's _lock
  pc,     \* where each thread is
  args    \* the interface and implementations its call is about

providerVars == <<impl, plock>>
threadVars == <<pc, args>>
vars == <<trackerVars, providerVars, threadVars>>

Args(i, old, new) == [interface |-> i, old |-> old, new |-> new]

Goto(t, label, a) ==
  /\ pc' = [pc EXCEPT ![t] = label]
  /\ args' = [args EXCEPT ![t] = a]

At(t, label) == pc[t] = label
About(t, i) == args[t] # NoArgs /\ args[t].interface = i

---------------------------------------------------------------------------
\* swap(new_impl) is called and will wait for the provider's lock.
BeginSwap(t, i, m) ==
  /\ At(t, "idle") /\ CountCall
  /\ SerializedRegistration =>
       ~ \E u \in Threads : At(u, "register") /\ About(u, i)
  /\ Goto(t, "swap", Args(i, m, m))
  /\ UNCHANGED <<interfaces, lists, owner, frames, heard, wanted, providerVars>>

\* Variants with a bug: the callback runs after the lock is released; the old
\* implementation is read after the assignment.
ReplaceImplUnlocked(t) ==
  LET i == args[t].interface
  IN  /\ At(t, "swap") /\ plock[i] = NoThread
      /\ impl' = [impl EXCEPT ![i] = args[t].new]
      /\ Goto(t, IF i \in Watched THEN "handler" ELSE "unlock",
              [args[t] EXCEPT !.old = impl[i]])
      /\ UNCHANGED <<trackerVars, plock>>

ReplaceImplLateOld(t) ==
  LET i == args[t].interface
  IN  /\ At(t, "swap") /\ plock[i] = NoThread
      /\ plock' = [plock EXCEPT ![i] = t]
      /\ impl' = [impl EXCEPT ![i] = args[t].new]
      /\ Goto(t, IF i \in Watched THEN "handler" ELSE "unlock", args[t])
      /\ UNCHANGED trackerVars

\* with self._lock: old = self._impl; self._impl = new_impl.  A handler then
\* builds its record and event before it asks for the tracker's lock.
ReplaceImpl(t) ==
  LET i == args[t].interface
  IN  /\ At(t, "swap") /\ plock[i] = NoThread
      /\ plock' = [plock EXCEPT ![i] = t]
      /\ impl' = [impl EXCEPT ![i] = args[t].new]
      /\ Goto(t, IF i \in Watched THEN "handler" ELSE "unlock",
              [args[t] EXCEPT !.old = impl[i]])
      /\ UNCHANGED trackerVars

\* on_swap(old, new_impl): the tracker's handler, under both locks.
OnSwap(t) ==
  /\ At(t, "handler") /\ owner = NoThread
  /\ handler(t, args[t].interface, args[t].old, args[t].new)
  /\ Goto(t, "emit", args[t])
  /\ UNCHANGED <<calls, providerVars>>

\* Variant with a bug: the lock is not released.
SwapReturnLocked(t) ==
  /\ At(t, "unlock")
  /\ Goto(t, "idle", NoArgs)
  /\ UNCHANGED <<trackerVars, providerVars>>

\* The provider's with block ends and swap returns the old implementation.
SwapReturn(t) ==
  /\ At(t, "unlock")
  /\ plock' = [plock EXCEPT ![args[t].interface] = NoThread]
  /\ Goto(t, "idle", NoArgs)
  /\ UNCHANGED <<trackerVars, impl>>

\* provider.name(...): __getattr__ takes the bound method of the active
\* implementation under the lock; the call itself happens after the lock.
GetAttr(t, i) ==
  /\ At(t, "idle") /\ CountCall /\ plock[i] = NoThread
  /\ Goto(t, "call", Args(i, impl[i], impl[i]))
  /\ UNCHANGED <<interfaces, lists, owner, frames, heard, wanted, providerVars>>

CallReturn(t) ==
  /\ At(t, "call")
  /\ Goto(t, "idle", NoArgs)
  /\ UNCHANGED <<trackerVars, providerVars>>

---------------------------------------------------------------------------
\* tracker.register(i, provider.implementation): the argument is read under the
\* provider's lock, the record is stored later under the tracker's.
BeginRegister(t, i) ==
  /\ At(t, "idle") /\ CountCall /\ plock[i] = NoThread
  /\ SerializedRegistration =>
       ~ \E u \in Threads : At(u, "swap") /\ About(u, i)
  /\ Goto(t, "register", Args(i, impl[i], impl[i]))
  /\ UNCHANGED <<interfaces, lists, owner, frames, heard, wanted, providerVars>>

StoreRegistration(t) ==
  /\ At(t, "register") /\ owner = NoThread
  /\ register(t, args[t].interface, args[t].new)
  /\ Goto(t, "emit", args[t])
  /\ UNCHANGED <<calls, providerVars>>

BeginUnregister(t, i) ==
  /\ At(t, "idle") /\ CountCall /\ owner = NoThread
  /\ unregister(t, i)
  /\ Goto(t, "emit", Args(i, impl[i], impl[i]))
  /\ UNCHANGED providerVars

Subscribe(t, l) ==
  /\ At(t, "idle") /\ CountCall /\ owner = NoThread
  /\ add_listener(t, l)
  /\ UNCHANGED <<providerVars, threadVars>>

Unsubscribe(t, l) ==
  /\ At(t, "idle") /\ CountCall /\ owner = NoThread
  /\ remove_listener(t, l)
  /\ UNCHANGED <<providerVars, threadVars>>

\* The loop of _emit, run by the thread that changed the registry.  A callback
\* that reads provider.implementation waits for that provider's lock.
TellListener(t) ==
  /\ At(t, "emit") /\ Deliver(t)
  /\ lists[Frame.list][Frame.next] \in Probing =>
       plock[Frame.event.interface] \in {NoThread, t}
  /\ UNCHANGED <<providerVars, threadVars>>

LeaveTracker(t) ==
  /\ At(t, "emit") /\ EmitDone(t)
  /\ IF plock[args[t].interface] = t THEN Goto(t, "unlock", args[t])
                                     ELSE Goto(t, "idle", NoArgs)
  /\ UNCHANGED providerVars

---------------------------------------------------------------------------
Init ==
  /\ TrackerInit
  /\ impl = Initial
  /\ plock = [i \in Interfaces |-> NoThread]
  /\ pc = [t \in Threads |-> "idle"]
  /\ args = [t \in Threads |-> NoArgs]

\* The steps of a call that has begun.
Continue(t) ==
  \/ ReplaceImpl(t) \/ OnSwap(t) \/ SwapReturn(t) \/ CallReturn(t)
  \/ StoreRegistration(t) \/ TellListener(t) \/ LeaveTracker(t)

Begin(t) ==
  \/ \E i \in Interfaces :
       \/ \E m \in Implementations : BeginSwap(t, i, m)
       \/ GetAttr(t, i) \/ BeginRegister(t, i) \/ BeginUnregister(t, i)
  \/ \E l \in Listeners : Subscribe(t, l) \/ Unsubscribe(t, l)

\* All the calls of the bound are made and have returned.
AtRest ==
  /\ calls = MaxCalls /\ \A t \in Threads : At(t, "idle")
  /\ UNCHANGED vars

Next == AtRest \/ \E t \in Threads : Begin(t) \/ Continue(t)

Spec == Init /\ [][Next]_vars

\* A thread inside a call is scheduled until the call returns; no thread is
\* obliged to make a call.
FairSpec == Spec /\ \A t \in Threads : WF_vars(Continue(t))
---------------------------------------------------------------------------
TypeOK ==
  /\ TrackerTypeOK
  /\ impl \in [Interfaces -> Implementations]
  /\ plock \in [Interfaces -> Threads \cup {NoThread}]
  /\ pc \in [Threads -> {"idle", "swap", "handler", "emit", "unlock",
                        "register", "call"}]
  /\ args \in [Threads -> {NoArgs} \cup
       [interface : Interfaces, old : Implementations, new : Implementations]]

\* The tracker tells the truth: for a provider wired to it, a tracked interface
\* has the record of the implementation that is active, except while the swap
\* that replaces it still holds the provider's lock.  This is why swap calls
\* on_swap before it lets go of the lock: two swaps announce in the order in
\* which they replaced.
RegistryAgrees ==
  \A i \in Watched :
    plock[i] = NoThread /\ interfaces[i] # NoRecord =>
      interfaces[i] = StatusRecord(impl[i])

\* The tracked interfaces that no swap is changing at the moment.
Settled == {i \in Watched : plock[i] = NoThread /\ interfaces[i] # NoRecord}

\* The two summary questions may be used to decide the mode of the system: when
\* is_any_simulated() is false no settled interface runs a mock, and when
\* is_all_simulated() is true every one of them does.
LiveMeansLive ==
  /\ ~ is_any_simulated => \A i \in Settled : ~ is_mock_implementation(impl[i])
  /\ is_all_simulated => \A i \in Settled : is_mock_implementation(impl[i])

\* Every SWAPPED event that reaches a listener starts from what that listener
\* was last told: the previous implementation it names is the one the listener
\* has on display.  No swap is skipped, repeated or told out of order, so a
\* channel that speaks only of mode changes (was_simulated # is_simulated)
\* misses none.
SwapsChain ==
  [][\A l \in Listeners \ Faulty, i \in Watched :
       /\ heard'[l][i] # heard[l][i]
       /\ owner # NoThread /\ Frame.event.change = "swapped"
       => heard[l][i] \in {Frame.event.previous, NoRecord, Unknown}]_vars

\* Every call of a provider or of the tracker returns: the order of the two
\* locks leaves no thread waiting for ever.
CallsReturn == \A t \in Threads : ~ At(t, "idle") ~> At(t, "idle")
---------------------------------------------------------------------------
\* The refinement mapping: a swap owes its announcement from the moment it has
\* replaced the implementation until its handler has the tracker's lock; the
\* listeners still to be told are the rest of the list the loop is iterating.
Owed == {i \in Interfaces : \E t \in Threads : At(t, "handler") /\ About(t, i)}

StillToTell ==
  IF owner = NoThread THEN << >>
  ELSE LET rest == SubSeq(lists[Frame.list], Frame.next, Len(lists[Frame.list]))
       IN  [k \in 1..Len(rest) |-> <<rest[k], Frame.event.interface>>]

Board == INSTANCE StatusBoard WITH
  RecordOf <- [m \in Implementations |-> StatusRecord(m)],
  active <- impl, board <- interfaces, due <- Owed,
  audience <- current_listeners, telling <- StillToTell, screens <- heard

\* Threads, locks and callbacks implement the board: no activation overtakes the
\* announcement of the one before, every listener is told of every change in
\* order, and what is due is announced and told in the end.
ImplementsBoard == Board!Spec
=============================================================================
