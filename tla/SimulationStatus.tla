------------------------- MODULE SimulationStatus -------------------------
(***************************************************************************)
(* simulation/hal/status.py: the tracker that records which interfaces run  *)
(* on a simulated implementation and tells every listener of each change.   *)
(*                                                                         *)
(* Everything the tracker does happens under one re-entrant lock, and the   *)
(* listeners are called under that lock, one after another.  A listener may *)
(* therefore call the tracker again from inside its callback: the lock does *)
(* not stop it.  The model keeps one frame per nested call of _emit.        *)
(***************************************************************************)
EXTENDS Naturals, Sequences, FiniteSets

CONSTANTS
  Threads,          \* threads that call the tracker
  Interfaces,       \* names of tracked interfaces ("camera", "sensor.imu")
  Implementations,  \* implementation objects
  ClassOf,          \* class name of each implementation
  Override,         \* value of _is_simulated, for those that have the attribute
  MockNamed,        \* class named Mock*, or defined under simulation.layer*
  Listeners,        \* callables that may be passed to add_listener
  FirstListeners,   \* the list once the application is wired; _log_listener first
  Publishing,       \* listeners whose callback registers or unregisters
  Editing,          \* listeners whose callback adds or removes listeners
  Faulty,           \* listeners that may raise instead of handling the event
  BoundMethods,     \* listeners written obj.method: a new object each time
  NoThread, NoRecord, Unknown,
  MaxCalls          \* bound on the calls made in one behaviour

ASSUME TrackerConstants ==
  /\ Interfaces # {} /\ Implementations # {}
  /\ NoThread \notin Threads
  /\ DOMAIN Override \subseteq Implementations
  /\ \A m \in DOMAIN Override : Override[m] \in BOOLEAN
  /\ MockNamed \subseteq Implementations
  /\ FirstListeners \in Seq(Listeners) /\ FirstListeners # << >>
  /\ Publishing \cup Editing \cup Faulty \cup BoundMethods \subseteq Listeners
  /\ MaxCalls \in Nat

VARIABLES
  interfaces,  \* _interfaces: the record of each interface, NoRecord if absent
  lists,       \* every list object _listeners has been bound to, current one last
  owner,       \* the thread holding _lock, NoThread if it is free
  frames,      \* the running calls of _emit, innermost last
  heard,       \* what each listener last heard of each interface
  wanted,      \* the listeners added and not removed since
  calls        \* calls made so far

trackerVars == <<interfaces, lists, owner, frames, heard, wanted, calls>>

---------------------------------------------------------------------------
is_mock_implementation(m) ==
  IF m \in DOMAIN Override THEN Override[m] ELSE m \in MockNamed

StatusRecord(m) ==
  [implementation |-> ClassOf[m], is_simulated |-> is_mock_implementation(m)]

Records == {StatusRecord(m) : m \in Implementations}

\* status is the record announced, NoRecord when the interface is unregistered;
\* previous is the record of the implementation replaced by a swap.
StatusEvent(change, i, status, previous) ==
  [change |-> change, interface |-> i, status |-> status, previous |-> previous]

Events ==
  [change : {"registered", "swapped", "unregistered"}, interface : Interfaces,
   status : Records \cup {NoRecord}, previous : Records \cup {NoRecord}]

current_listeners == lists[Len(lists)]

Members(s) == {s[k] : k \in 1..Len(s)}

\* The positions of a set in increasing order.
Enumerations(positions) ==
  {f \in [1..Cardinality(positions) -> positions] :
     \A j, k \in 1..Cardinality(positions) : j < k => f[j] < f[k]}

---------------------------------------------------------------------------
\* The frame whose loop is running, and the listener whose callback is running.
Frame == frames[Len(frames)]
Called == lists[Frame.list][Frame.next - 1]

\* A thread gets the re-entrant lock when it is free, or when the thread holds
\* it already and is inside the callback of a listener that makes such calls.
MayEnter(t, makers) ==
  \/ owner = NoThread
  \/ owner = t /\ frames # << >> /\ Frame.next > 1 /\ Called \in makers

\* Variant with a bug: the loop starts at the second listener.
emit_skips_first(t, event) ==
  /\ owner' = t
  /\ frames' = Append(frames, [event |-> event, list |-> Len(lists), next |-> 2])

\* _emit: iterate the list object that _listeners denotes now.
emit(t, event) ==
  /\ owner' = t
  /\ frames' = Append(frames, [event |-> event, list |-> Len(lists), next |-> 1])

\* Variant with a bug: the record holds the implementation, not its class name.
register_object(t, i, m) ==
  /\ interfaces' = [interfaces EXCEPT ![i] = [StatusRecord(m) EXCEPT !.implementation = m]]
  /\ emit(t, StatusEvent("registered", i, StatusRecord(m), NoRecord))
  /\ UNCHANGED <<lists, heard, wanted>>

register(t, i, m) ==
  /\ interfaces' = [interfaces EXCEPT ![i] = StatusRecord(m)]
  /\ emit(t, StatusEvent("registered", i, StatusRecord(m), NoRecord))
  /\ UNCHANGED <<lists, heard, wanted>>

unregister(t, i) ==
  /\ interfaces[i] # NoRecord
  /\ interfaces' = [interfaces EXCEPT ![i] = NoRecord]
  /\ emit(t, StatusEvent("unregistered", i, NoRecord, NoRecord))
  /\ UNCHANGED <<lists, heard, wanted>>

\* Variant with a bug: the record describes the implementation that was replaced.
handler_of_old(t, i, old, new) ==
  /\ interfaces' = [interfaces EXCEPT ![i] = StatusRecord(old)]
  /\ emit(t, StatusEvent("swapped", i, StatusRecord(new), StatusRecord(old)))
  /\ UNCHANGED <<lists, heard, wanted>>

\* The closure made by create_swap_handler(i), called as handler(old, new).
handler(t, i, old, new) ==
  /\ interfaces' = [interfaces EXCEPT ![i] = StatusRecord(new)]
  /\ emit(t, StatusEvent("swapped", i, StatusRecord(new), StatusRecord(old)))
  /\ UNCHANGED <<lists, heard, wanted>>

\* Variant with a bug: an exception in a callback ends the loop.
DeliverOrAbort(t) ==
  /\ owner = t /\ frames # << >>
  /\ Frame.next <= Len(lists[Frame.list])
  /\ LET l == lists[Frame.list][Frame.next]
         e == Frame.event
     IN  \/ /\ frames' = [frames EXCEPT ![Len(frames)].next = @ + 1]
            /\ heard' = [heard EXCEPT ![l][e.interface] = e.status]
         \/ /\ l \in Faulty /\ UNCHANGED heard
            /\ frames' = [frames EXCEPT ![Len(frames)].next =
                             Len(lists[Frame.list]) + 1]
  /\ UNCHANGED <<interfaces, lists, owner, wanted, calls>>

\* One turn of the loop of _emit.  An exception in the callback is swallowed
\* and the loop goes on with the next listener.
Deliver(t) ==
  /\ owner = t /\ frames # << >>
  /\ Frame.next <= Len(lists[Frame.list])
  /\ LET l == lists[Frame.list][Frame.next]
         e == Frame.event
     IN  /\ frames' = [frames EXCEPT ![Len(frames)].next = @ + 1]
         /\ \/ heard' = [heard EXCEPT ![l][e.interface] = e.status]
            \/ l \in Faulty /\ UNCHANGED heard
  /\ UNCHANGED <<interfaces, lists, owner, wanted, calls>>

\* Variants with a bug: the lock is never released; it is released by the inner
\* of two nested calls (a lock that is not re-entrant).
EmitDoneKeepsLock(t) ==
  /\ owner = t /\ frames # << >>
  /\ Frame.next > Len(lists[Frame.list])
  /\ frames' = SubSeq(frames, 1, Len(frames) - 1)
  /\ UNCHANGED <<interfaces, lists, owner, heard, wanted, calls>>

EmitDoneFreesOuter(t) ==
  /\ owner = t /\ frames # << >>
  /\ Frame.next > Len(lists[Frame.list])
  /\ frames' = SubSeq(frames, 1, Len(frames) - 1)
  /\ owner' = NoThread
  /\ UNCHANGED <<interfaces, lists, heard, wanted, calls>>

\* The loop of _emit has exhausted its list: leave the with block.
EmitDone(t) ==
  /\ owner = t /\ frames # << >>
  /\ Frame.next > Len(lists[Frame.list])
  /\ frames' = SubSeq(frames, 1, Len(frames) - 1)
  /\ owner' = IF Len(frames) = 1 THEN NoThread ELSE owner
  /\ UNCHANGED <<interfaces, lists, heard, wanted, calls>>

\* add_listener appends to the list object in place, also while it is iterated.
add_listener(t, l) ==
  /\ lists' = [lists EXCEPT ![Len(lists)] = Append(@, l)]
  /\ heard' = IF l \in Members(current_listeners) THEN heard
              ELSE [heard EXCEPT ![l] = [i \in Interfaces |-> Unknown]]
  /\ wanted' = wanted \cup {l}
  /\ UNCHANGED <<interfaces, owner, frames>>

\* Variant with a bug: only the first occurrence goes, as with list.remove.
rebind_without_first(l) ==
  LET kept == {k \in 1..Len(current_listeners) :
                 \/ current_listeners[k] # l \/ l \in BoundMethods
                 \/ \E j \in 1..(k - 1) : current_listeners[j] = l}
  IN  \E f \in Enumerations(kept) :
        lists' = Append(lists, [j \in 1..Cardinality(kept) |-> current_listeners[f[j]]])

\* remove_listener compares with "is not" and binds _listeners to a new list;
\* a loop that is running goes on with the old one.
rebind_without(l) ==
  LET kept == {k \in 1..Len(current_listeners) :
                 current_listeners[k] # l \/ l \in BoundMethods}
  IN  \E f \in Enumerations(kept) :
        lists' = Append(lists, [j \in 1..Cardinality(kept) |-> current_listeners[f[j]]])
remove_listener(t, l) ==
  /\ rebind_without(l)
  /\ wanted' = wanted \ {l}
  /\ UNCHANGED <<interfaces, owner, frames, heard>>

---------------------------------------------------------------------------
is_any_simulated ==
  \E i \in Interfaces : interfaces[i] # NoRecord /\ interfaces[i].is_simulated

is_all_simulated ==
  LET tracked == {i \in Interfaces : interfaces[i] # NoRecord}
  IN  tracked # {} /\ \A i \in tracked : interfaces[i].is_simulated

---------------------------------------------------------------------------
TrackerInit ==
  /\ interfaces = [i \in Interfaces |-> NoRecord]
  /\ lists = <<FirstListeners>>
  /\ owner = NoThread
  /\ frames = << >>
  /\ heard = [l \in Listeners |-> [i \in Interfaces |-> NoRecord]]
  /\ wanted = Members(FirstListeners)
  /\ calls = 0

CountCall == calls < MaxCalls /\ calls' = calls + 1

Register(t) ==
  /\ CountCall /\ MayEnter(t, Publishing)
  /\ \E i \in Interfaces, m \in Implementations : register(t, i, m)

Unregister(t) ==
  /\ CountCall /\ MayEnter(t, Publishing)
  /\ \E i \in Interfaces : unregister(t, i)

AddListener(t) ==
  /\ CountCall /\ MayEnter(t, Editing)
  /\ \E l \in Listeners : add_listener(t, l)

\* The application keeps the listeners that publish subscribed.
RemoveListener(t) ==
  /\ CountCall /\ MayEnter(t, Editing)
  /\ \E l \in Listeners \ Publishing : remove_listener(t, l)

EmitStep(t) == Deliver(t) \/ EmitDone(t)

\* All the calls of the bound are made and have returned.
TrackerAtRest == calls = MaxCalls /\ owner = NoThread /\ UNCHANGED trackerVars

TrackerNext ==
  \/ \E t \in Threads :
       \/ Register(t) \/ Unregister(t)
       \/ AddListener(t) \/ RemoveListener(t)
       \/ Deliver(t) \/ EmitDone(t)
  \/ TrackerAtRest

\* A thread that runs the loop of _emit goes on, and callbacks return.
TrackerSpec ==
  /\ TrackerInit /\ [][TrackerNext]_trackerVars
  /\ \A t \in Threads : WF_trackerVars(EmitStep(t))

---------------------------------------------------------------------------
TrackerTypeOK ==
  /\ interfaces \in [Interfaces -> Records \cup {NoRecord}]
  /\ lists \in Seq(Seq(Listeners)) /\ lists # << >>
  /\ owner \in Threads \cup {NoThread}
  /\ frames \in Seq([event : Events, list : 1..Len(lists), next : Nat \ {0}])
  /\ heard \in [Listeners -> [Interfaces -> Records \cup {NoRecord, Unknown}]]
  /\ wanted \subseteq Listeners
  /\ calls \in 0..MaxCalls
---------------------------------------------------------------------------
\* A listener placed after one that publishes hears the nested event before the
\* event that caused it, so it may end up with the older status.
Overtaken ==
  {current_listeners[k] : k \in {k \in 1..Len(current_listeners) :
      \E j \in 1..(k - 1) : current_listeners[j] \in Publishing}}

\* Whenever no call is in progress, every subscribed listener that handles its
\* events and is not placed after a publishing one holds, for each interface,
\* exactly what the registry says (or has heard nothing of it since it was
\* added).  This is what _emit under the lock of register, unregister and the
\* swap handler is for: no event is lost, delayed past a later one, or kept
\* from a listener by the exception of another.
ViewsSettle ==
  owner = NoThread =>
    \A l \in Members(current_listeners) \ (Faulty \cup Overtaken) :
      \A i \in Interfaces : heard[l][i] \in {interfaces[i], Unknown}

\* A listener hears only while it is wanted.  The one exception is an event
\* whose loop was already running over the old list when a callback removed the
\* listener (remove_listener rebinds _listeners, the loop keeps the old list).
OnlyWantedHear ==
  [][\A l \in Listeners : heard'[l] # heard[l] =>
       \/ l \in wanted'
       \/ \E k \in 1..Len(frames) :
            frames[k].list # Len(lists) /\ l \in Members(lists[frames[k].list])]_trackerVars

\* remove_listener: "Remove a previously registered listener."
RemovedListenersAreGone == Members(current_listeners) \subseteq wanted

\* Every call of the tracker that starts telling the listeners returns and
\* leaves the lock free for the other threads, nested calls included.
EmissionEnds == \A t \in Threads : owner = t ~> owner = NoThread
=============================================================================
