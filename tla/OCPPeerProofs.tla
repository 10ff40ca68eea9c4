--------------------------- MODULE OCPPeerProofs ---------------------------
(***************************************************************************)
(* Proofs about OCPPeer for any number of timers, calls, lost connections     *)
(* and queued messages.                                                     *)
(***************************************************************************)
EXTENDS OCPPeer, FiniteSetTheorems, SequenceTheorems, TLAPS

USE PeerConstants

\* The bounds are numbers.
LEMMA Bounds == MaxCalls \in Nat /\ MaxDrops \in Nat /\ MaxOutbox \in Nat
  BY PeerConstants

---------------------------------------------------------------------------
\* Queues: what publish and an acknowledgement do to the messages.
LEMMA Appended ==
  ASSUME NEW S, NEW q \in Seq(S), NEW m \in S
  PROVE  /\ Append(q, m) \in Seq(S) /\ Len(Append(q, m)) = Len(q) + 1
         /\ \A i \in 1..Len(q) : Append(q, m)[i] = q[i]
         /\ Append(q, m)[Len(q) + 1] = m
  OBVIOUS

LEMMA WithoutFirst ==
  ASSUME NEW S, NEW q \in Seq(S), Len(q) > 0
  PROVE  /\ Tail(q) \in Seq(S) /\ Len(Tail(q)) = Len(q) - 1
         /\ \A i \in 1..(Len(q) - 1) : Tail(q)[i] = q[i + 1]
  OBVIOUS

---------------------------------------------------------------------------
\* Every variable keeps its type.
LEMMA InitTypeOK == Init => TypeOK
  <1> SUFFICES ASSUME Init PROVE TypeOK
    OBVIOUS
  <1>1. /\ pc \in [Actors -> AppLabels \cup TimerLabels]
        /\ pc[App] \in AppLabels /\ \A n \in Timers : pc[n] \in TimerLabels
    BY DEF Init, Actors, AppLabels, TimerLabels, StartLabels, Waiting
  <1>2. outbox \in Seq(Messages) /\ sent \in 0..Len(outbox)
    BY DEF Init
  <1>3. retained \in [Topics -> {"none", "online", "offline", "present"}]
    BY DEF Init
  <1>4. running \in BOOLEAN /\ disturbed \in BOOLEAN /\ connected \in BOOLEAN /\ crashed \in BOOLEAN
    BY Zenon DEF Init
  <1>5. timer \in Timers \cup {NoTimer} /\ calls \in 0..MaxCalls /\ drops \in 0..MaxDrops
    BY Bounds DEF Init
  <1> QED
    BY <1>1, <1>2, <1>3, <1>4, <1>5, Zenon DEF TypeOK

\* The part of TypeOK that publish is about.
OutboxOK == outbox \in Seq(Messages) /\ sent \in 0..Len(outbox)

LEMMA PublishTyped ==
  ASSUME OutboxOK, NEW t \in Topics, NEW v \in {"online", "offline", "present"}, publish(t, v)
  PROVE  OutboxOK'
  <1>1. Message(t, v) \in Messages
    BY DEF Message, Messages
  <1> QED
    BY <1>1, Appended DEF OutboxOK, publish

\* A step that moves one thread, and one that moves two, keep the program
\* counters typed.
PcOK ==
  /\ pc \in [Actors -> AppLabels \cup TimerLabels]
  /\ pc[App] \in AppLabels /\ \A n \in Timers : pc[n] \in TimerLabels

LEMMA GotoTyped ==
  ASSUME PcOK, NEW a \in Actors, NEW label,
         a = App => label \in AppLabels, a # App => label \in TimerLabels, Goto(a, label)
  PROVE  PcOK'
  BY DEF PcOK, Goto, Actors

LEMMA StepTypeOK ==
  ASSUME TypeOK, [Next]_vars
  PROVE  TypeOK'
  <1> USE DEF peerVars, netVars, callVars
  <1>0. PcOK /\ OutboxOK
    BY DEF TypeOK, PcOK, OutboxOK
  <1>1. ASSUME UNCHANGED vars PROVE TypeOK'
    BY <1>1 DEF vars, TypeOK
  <1>2. CASE Start
    <2>1. PcOK'
      BY <1>0, <1>2, GotoTyped DEF Start, Actors, AppLabels, StartLabels
    <2> QED
      BY Bounds, <1>2, <2>1 DEF Start, CountCall, TypeOK, PcOK
  <1>3. CASE Stop
    <2>1. PcOK'
      BY <1>0, <1>3, GotoTyped DEF Stop, Actors, AppLabels
    <2>2. running' \in BOOLEAN /\ disturbed' \in BOOLEAN
      BY <1>3, Zenon DEF Stop, CountCall
    <2>3. calls' \in 0..MaxCalls
      BY Bounds, <1>3 DEF Stop, CountCall, TypeOK
    <2> QED
      BY <1>3, <2>1, <2>2, <2>3 DEF Stop, TypeOK, PcOK
  <1>4. ASSUME NEW a \in Actors, PublishStatus(a) PROVE TypeOK'
    <2>1. PcOK'
      BY <1>0, <1>4, GotoTyped DEF PublishStatus, AppLabels, TimerLabels, StartLabels
    <2>2. OutboxOK'
      BY <1>0, <1>4, PublishTyped DEF PublishStatus, Topics, Presence
    <2> QED
      BY <1>4, <2>1, <2>2 DEF PublishStatus, publish, TypeOK, PcOK, OutboxOK
  <1>5. ASSUME NEW a \in Actors, PublishPeerStatus(a) PROVE TypeOK'
    <2>1. PcOK'
      BY <1>0, <1>5, GotoTyped DEF PublishPeerStatus, AppLabels, TimerLabels, StartLabels
    <2>2. OutboxOK'
      BY <1>0, <1>5, PublishTyped DEF PublishPeerStatus, Topics, Presence
    <2> QED
      BY <1>5, <2>1, <2>2 DEF PublishPeerStatus, publish, TypeOK, PcOK, OutboxOK
  <1>6. CASE PublishDiscovery
    <2>1. PcOK'
      BY <1>0, <1>6, GotoTyped DEF PublishDiscovery, AppLabels, Actors
    <2>2. OutboxOK'
      BY <1>0, <1>6, PublishTyped DEF PublishDiscovery, Topics
    <2> QED
      BY <1>6, <2>1, <2>2 DEF PublishDiscovery, publish, TypeOK, PcOK, OutboxOK
  <1>7. CASE PublishSimDiscovery
    <2>1. PcOK'
      BY <1>0, <1>7, GotoTyped DEF PublishSimDiscovery, AppLabels, Actors, StartLabels
    <2>2. OutboxOK'
      BY <1>0, <1>7, PublishTyped DEF PublishSimDiscovery, Topics
    <2> QED
      BY <1>7, <2>1, <2>2 DEF PublishSimDiscovery, publish, TypeOK, PcOK, OutboxOK
  <1>8. ASSUME NEW a \in Actors, CheckRunning(a) PROVE TypeOK'
    <2>1. PcOK'
      BY <1>0, <1>8, GotoTyped
      DEF CheckRunning, Finish, AppLabels, TimerLabels, StartLabels, Waiting
    <2> QED
      BY <1>8, <2>1 DEF CheckRunning, TypeOK, PcOK
  <1>9. ASSUME NEW a \in Actors, CreateTimer(a) PROVE TypeOK'
    <2>1. PICK n \in Timers : timer' = n /\ pc' = [pc EXCEPT ![a] = "launch", ![n] = "created"]
      BY <1>9 DEF CreateTimer
    <2>2. PcOK'
      BY <1>0, <2>1 DEF PcOK, Actors, AppLabels, TimerLabels, StartLabels, Waiting
    <2> QED
      BY <1>9, <2>1, <2>2 DEF CreateTimer, TypeOK, PcOK
  <1>10. ASSUME NEW a \in Actors, LaunchTimer(a) PROVE TypeOK'
    <2>1. PcOK'
      BY <1>0, <1>10 DEF LaunchTimer, PcOK, Actors, TypeOK, AppLabels, TimerLabels, Waiting
    <2> QED
      BY <1>10, <2>1 DEF LaunchTimer, TypeOK, PcOK
  <1>11. ASSUME NEW n \in Timers, Fire(n) PROVE TypeOK'
    <2>1. PcOK'
      BY <1>0, <1>11, GotoTyped DEF Fire, Actors, TimerLabels
    <2> QED
      BY <1>11, <2>1 DEF Fire, TypeOK, PcOK
  <1>12. ASSUME NEW n \in Timers, Beat(n) PROVE TypeOK'
    <2>1. PcOK'
      BY <1>0, <1>12, GotoTyped DEF Beat, Actors, TimerLabels, StartLabels, Waiting
    <2> QED
      BY <1>12, <2>1 DEF Beat, TypeOK, PcOK
  <1>13. CASE TestTimer
    <2>1. PcOK'
      BY <1>0, <1>13, GotoTyped DEF TestTimer, Actors, AppLabels
    <2> QED
      BY <1>13, <2>1 DEF TestTimer, TypeOK, PcOK
  <1>14. CASE CancelTimer
    <2>1. PcOK'
      BY <1>0, <1>14 DEF CancelTimer, PcOK, Actors, TypeOK, AppLabels, TimerLabels, Waiting
    <2> QED
      BY <1>14, <2>1 DEF CancelTimer, TypeOK, PcOK
  <1>15. CASE ClearTimer
    <2>1. PcOK'
      BY <1>0, <1>15, GotoTyped DEF ClearTimer, Actors, AppLabels
    <2> QED
      BY <1>15, <2>1 DEF ClearTimer, TypeOK, PcOK
  <1>16. CASE PublishOffline
    <2>1. PcOK'
      BY <1>0, <1>16, GotoTyped DEF PublishOffline, Actors, AppLabels
    <2>2. OutboxOK'
      BY <1>0, <1>16, PublishTyped DEF PublishOffline, Topics, Presence
    <2> QED
      BY <1>16, <2>1, <2>2 DEF PublishOffline, publish, TypeOK, PcOK, OutboxOK
  <1>17. CASE PublishPeerOffline
    <2>1. PcOK'
      BY <1>0, <1>17, GotoTyped DEF PublishPeerOffline, Actors, AppLabels
    <2>2. OutboxOK'
      BY <1>0, <1>17, PublishTyped DEF PublishPeerOffline, Topics, Presence
    <2> QED
      BY <1>17, <2>1, <2>2 DEF PublishPeerOffline, publish, TypeOK, PcOK, OutboxOK
  <1>18. CASE Receive
    <2>1. outbox[sent + 1] \in Messages
      BY <1>18 DEF Receive, TypeOK
    <2>2. retained' \in [Topics -> {"none", "online", "offline", "present"}]
      BY <1>18, <2>1 DEF Receive, TypeOK, Messages
    <2> QED
      BY <1>18, <2>2 DEF Receive, TypeOK
  <1>19. CASE Acknowledge
    <2>1. OutboxOK'
      BY <1>0, <1>19, WithoutFirst DEF Acknowledge, OutboxOK
    <2> QED
      BY <1>19, <2>1 DEF Acknowledge, TypeOK, OutboxOK
  <1>20. will \in [Topics -> {"none", "online", "offline", "present"}]
    BY DEF TypeOK, will
  <1>21. CASE Drop
    <2>1. connected' \in BOOLEAN
      BY <1>21, Zenon DEF Drop
    <2> QED
      BY Bounds, <1>20, <1>21, <2>1 DEF Drop, TypeOK
  <1>22. CASE Reconnect
    BY <1>22 DEF Reconnect, TypeOK
  <1>23. CASE Crash
    <2>1. connected' \in BOOLEAN /\ crashed' \in BOOLEAN
      BY <1>23, Zenon DEF Crash
    <2> QED
      BY <1>20, <1>23, <2>1 DEF Crash, TypeOK
  <1> QED
    BY <1>1, <1>2, <1>3, <1>4, <1>5, <1>6, <1>7, <1>8, <1>9, <1>10, <1>11, <1>12, <1>13,
       <1>14, <1>15, <1>16, <1>17, <1>18, <1>19, <1>21, <1>22, <1>23
    DEF Next, Step, Network

\* Type correctness: every attribute, thread and message keeps its type, for any
\* number of timers and any bounds.
THEOREM TypeCorrect == Spec => []TypeOK
  <1>1. TypeOK /\ [Next]_vars => TypeOK'
    BY StepTypeOK
  <1> QED
    BY InitTypeOK, <1>1, PTL DEF Spec

---------------------------------------------------------------------------
\* The will, and nothing that was on its way, is what the component's topic says
\* while the client is not connected: proved with the types alone, since
\* nothing is received without a connection.
THEOREM LossIsSeen == Spec => []LostShowsOffline
  <1>1. Init => LostShowsOffline
    BY DEF Init, LostShowsOffline
  <1>2. TypeOK /\ LostShowsOffline /\ [Next]_vars => LostShowsOffline'
    <2> SUFFICES ASSUME TypeOK, LostShowsOffline, [Next]_vars PROVE LostShowsOffline'
      OBVIOUS
    <2>1. CASE UNCHANGED <<connected, retained>>
      BY <2>1 DEF LostShowsOffline
    <2>2. CASE Receive
      BY <2>2 DEF Receive, LostShowsOffline
    <2>3. CASE Drop
      BY <2>3 DEF Drop, will, LostShowsOffline, TypeOK, Topics, Presence
    <2>4. CASE Reconnect
      BY <2>4 DEF Reconnect, LostShowsOffline
    <2>5. CASE Crash
      BY <2>5 DEF Crash, will, LostShowsOffline, TypeOK, Topics, Presence
    <2>6. UNCHANGED <<connected, retained>> \/ Receive \/ Drop \/ Reconnect \/ Crash
      BY DEF Next, vars, netVars, Step, Network, Start, Stop, PublishStatus, PublishPeerStatus,
             PublishDiscovery, PublishSimDiscovery, CheckRunning, CreateTimer, LaunchTimer,
             Fire, Beat, TestTimer, CancelTimer, ClearTimer, PublishOffline,
             PublishPeerOffline, Acknowledge, publish
    <2> QED
      BY <2>1, <2>2, <2>3, <2>4, <2>5, <2>6
  <1> QED
    BY TypeCorrect, <1>1, <1>2, PTL DEF Spec

---------------------------------------------------------------------------
\* One chain of heartbeats.  A timer is active while it waits for its interval
\* or carries out a heartbeat.
Active(n) == pc[n] = "armed" \/ Beating(n)

Starting == StartLabels \cup {"discovery", "simulates"}
Stopping == {"x_timer", "x_cancel", "x_clear", "x_status", "x_peer"}

\* What holds between the calls, as long as none of them met a running
\* heartbeat.  That two timers are never active together is not inductive: it
\* takes that start finds none, since a peer that is not running has no timer
\* left that waits; that the timer which waits is the one the attribute names,
\* or stop would cancel another; and that a heartbeat past its check runs
\* between a start that has returned and the next stop.
ChainInv ==
  ~ disturbed =>
    /\ \A m, n \in Timers : Active(m) /\ Active(n) => m = n
    /\ \A n \in Timers : pc[n] = "armed" => n = timer /\ pc[App] \in {"idle", "x_timer", "x_cancel"}
    /\ \A n \in Timers : pc[n] \in StartLabels => running /\ pc[App] = "idle"
    /\ pc[App] \in Starting => running /\ \A n \in Timers : ~ Active(n)
    /\ pc[App] \in Stopping => ~ running
    /\ pc[App] = "idle" /\ ~ running => \A n \in Timers : pc[n] # "armed"

LEMMA ChainInit == Init => ChainInv
  BY DEF Init, ChainInv, Active, Beating, Waiting, Starting, Stopping, StartLabels, Actors

\* What a step does not tell apart: who waits, who carries out a heartbeat.
LEMMA ChainUnmoved ==
  ASSUME ChainInv, UNCHANGED <<running, timer, pc, disturbed>>
  PROVE  ChainInv'
  BY DEF ChainInv, Active, Beating

LEMMA ChainStep ==
  ASSUME TypeOK, ChainInv, [Next]_vars
  PROVE  ChainInv'
  <1> USE DEF Active, Beating, Waiting, Starting, Stopping, StartLabels, Actors, At, Goto, callVars
  <1>0. PcOK
    BY DEF TypeOK, PcOK
  <1> USE DEF PcOK
  <1>1. CASE Start
    BY <1>0, <1>1 DEF Start, CountCall, NoBeat, ChainInv
  <1>2. CASE Stop
    BY <1>0, <1>2 DEF Stop, CountCall, NoBeat, ChainInv
  <1>3. ASSUME NEW a \in Actors, PublishStatus(a) PROVE ChainInv'
    BY <1>0, <1>3 DEF PublishStatus, ChainInv
  <1>4. ASSUME NEW a \in Actors, PublishPeerStatus(a) PROVE ChainInv'
    BY <1>0, <1>4 DEF PublishPeerStatus, ChainInv
  <1>5. CASE PublishDiscovery
    BY <1>0, <1>5 DEF PublishDiscovery, ChainInv
  <1>6. CASE PublishSimDiscovery
    BY <1>0, <1>6 DEF PublishSimDiscovery, ChainInv
  <1>7. ASSUME NEW a \in Actors, CheckRunning(a) PROVE ChainInv'
    BY <1>0, <1>7 DEF CheckRunning, Finish, ChainInv
  <1>8. ASSUME NEW a \in Actors, CreateTimer(a) PROVE ChainInv'
    <2>1. PICK n \in Timers \ {timer} :
            /\ pc[n] \in {"unused", "created", "cancelled"}
            /\ timer' = n /\ pc' = [pc EXCEPT ![a] = "launch", ![n] = "created"]
      BY <1>8 DEF CreateTimer
    <2> QED
      BY <1>0, <1>8, <2>1 DEF CreateTimer, ChainInv
  <1>9. ASSUME NEW a \in Actors, LaunchTimer(a) PROVE ChainInv'
    BY <1>0, <1>9 DEF LaunchTimer, ChainInv, TypeOK
  <1>10. ASSUME NEW n \in Timers, Fire(n) PROVE ChainInv'
    BY <1>0, <1>10 DEF Fire, ChainInv
  <1>11. ASSUME NEW n \in Timers, Beat(n) PROVE ChainInv'
    <2>1. CASE running
      <3>1. pc' = [pc EXCEPT ![n] = "status"] /\ pc[n] = "fired" /\ UNCHANGED <<running, timer, disturbed>>
        BY <1>11, <2>1 DEF Beat
      <3> QED
        BY <1>0, <2>1, <3>1 DEF ChainInv, AppLabels
    <2>2. CASE ~ running
      <3>1. pc' = [pc EXCEPT ![n] = "cancelled"] /\ pc[n] = "fired" /\ UNCHANGED <<running, timer, disturbed>>
        BY <1>11, <2>2 DEF Beat
      <3> QED
        BY <1>0, <2>2, <3>1 DEF ChainInv
    <2> QED
      BY <2>1, <2>2
  <1>12. CASE TestTimer
    BY <1>0, <1>12 DEF TestTimer, ChainInv
  <1>13. CASE CancelTimer
    BY <1>0, <1>13 DEF CancelTimer, ChainInv, TypeOK
  <1>14. CASE ClearTimer
    BY <1>0, <1>14 DEF ClearTimer, ChainInv
  <1>15. CASE PublishOffline
    BY <1>0, <1>15 DEF PublishOffline, ChainInv
  <1>16. CASE PublishPeerOffline
    BY <1>0, <1>16 DEF PublishPeerOffline, ChainInv
  <1>17. CASE UNCHANGED <<running, timer, pc, disturbed>>
    BY <1>17, ChainUnmoved
  <1>18. Network \/ Drop \/ Crash \/ UNCHANGED vars => UNCHANGED <<running, timer, pc, disturbed>>
    BY DEF Network, Receive, Acknowledge, Reconnect, Drop, Crash, vars, peerVars
  <1> QED
    BY <1>1, <1>2, <1>3, <1>4, <1>5, <1>6, <1>7, <1>8, <1>9, <1>10, <1>11, <1>12, <1>13,
       <1>14, <1>15, <1>16, <1>17, <1>18
    DEF Next, Step

\* At most one active timer, said with sets, is at most one, said with numbers.
LEMMA ChainCounts == ChainInv => OneHeartbeat
  <1> SUFFICES ASSUME ChainInv, ~ disturbed
               PROVE  Cardinality({n \in Timers : Active(n)}) <= 1
    BY DEF OneHeartbeat, Active
  <1> DEFINE S == {n \in Timers : Active(n)}
  <1>1. \A m, n \in S : m = n
    BY DEF ChainInv
  <1>2. CASE S = {}
    BY <1>2, FS_EmptySet
  <1>3. CASE S # {}
    <2>1. PICK n : S = {n}
      BY <1>1, <1>3
    <2>2. Cardinality({n}) = 1
      BY FS_Singleton
    <2> QED
      BY <2>1, <2>2
  <1> QED
    BY <1>2, <1>3

\* OneHeartbeat holds: stop and start leave one chain of timers, provided that
\* none of them met a running heartbeat.
THEOREM OneChain == Spec => []OneHeartbeat
  <1>1. TypeOK /\ ChainInv /\ [Next]_vars => ChainInv'
    BY ChainStep
  <1> QED
    BY TypeCorrect, ChainInit, <1>1, ChainCounts, PTL DEF Spec

---------------------------------------------------------------------------
\* The farewell.  The broker's retained message is the last one it has received
\* and that is still to be acknowledged ...
RetainedInv ==
  \A i \in 1..sent :
    (\A j \in (i + 1)..sent : outbox[j].topic # outbox[i].topic) =>
      retained[outbox[i].topic] = outbox[i].value

LEMMA RetainedInit == Init => RetainedInv
  BY DEF Init, RetainedInv

LEMMA RetainedStep ==
  ASSUME TypeOK, RetainedInv, [Next]_vars
  PROVE  RetainedInv'
  <1>0. OutboxOK
    BY DEF TypeOK, OutboxOK
  <1>1. CASE UNCHANGED <<outbox, sent, retained>>
    BY <1>1 DEF RetainedInv
  <1>2. ASSUME NEW t \in Topics, NEW v \in {"online", "offline", "present"}, publish(t, v)
        PROVE  RetainedInv'
    <2>1. Message(t, v) \in Messages
      BY DEF Message, Messages
    <2>2. \A i \in 1..sent : outbox'[i] = outbox[i]
      BY <1>0, <1>2, <2>1, Appended DEF OutboxOK, publish
    <2>3. sent' = sent /\ retained' = retained
      BY <1>2 DEF publish
    <2>4. \A i \in 1..sent : \A j \in (i + 1)..sent : j \in 1..sent
      BY <1>0 DEF OutboxOK
    <2> SUFFICES ASSUME NEW i \in 1..sent, \A j \in (i + 1)..sent : outbox'[j].topic # outbox'[i].topic
                 PROVE  retained[outbox'[i].topic] = outbox'[i].value
      BY <2>3 DEF RetainedInv
    <2>5. \A j \in (i + 1)..sent : outbox[j].topic # outbox[i].topic
      BY <2>2, <2>4
    <2> QED
      BY <2>2, <2>5 DEF RetainedInv
  <1>3. CASE Receive
    <2> DEFINE k == sent + 1
    <2>1. /\ k \in 1..Len(outbox) /\ outbox[k] \in Messages
          /\ sent' = k /\ outbox' = outbox
          /\ retained' = [retained EXCEPT ![outbox[k].topic] = outbox[k].value]
      BY <1>0, <1>3 DEF Receive, OutboxOK
    <2>2. outbox[k].topic \in Topics
      BY <2>1 DEF Messages
    <2> SUFFICES ASSUME NEW i \in 1..k, \A j \in (i + 1)..k : outbox[j].topic # outbox[i].topic
                 PROVE  retained'[outbox[i].topic] = outbox[i].value
      BY <2>1 DEF RetainedInv
    <2>3. CASE i = k
      BY <2>1, <2>2, <2>3 DEF TypeOK
    <2>4. CASE i # k
      <3>1. i \in 1..sent /\ k \in (i + 1)..k /\ \A j \in (i + 1)..sent : j \in (i + 1)..k
        BY <1>0, <2>4 DEF OutboxOK
      <3>2. retained[outbox[i].topic] = outbox[i].value
        BY <3>1 DEF RetainedInv
      <3>3. outbox[k].topic # outbox[i].topic
        BY <3>1
      <3>4. outbox[i] \in Messages
        BY <1>0, <3>1 DEF OutboxOK
      <3>5. outbox[i].topic \in Topics
        BY <3>4 DEF Messages
      <3> QED
        BY <2>1, <3>2, <3>3, <3>5 DEF TypeOK
    <2> QED
      BY <2>3, <2>4
  <1>4. CASE Acknowledge
    <2>1. /\ sent \in Nat /\ sent > 0 /\ sent <= Len(outbox) /\ sent' = sent - 1 /\ retained' = retained
          /\ \A i \in 1..(Len(outbox) - 1) : outbox'[i] = outbox[i + 1]
      BY <1>0, <1>4, WithoutFirst DEF Acknowledge, OutboxOK
    <2> SUFFICES ASSUME NEW i \in 1..sent',
                        \A j \in (i + 1)..sent' : outbox'[j].topic # outbox'[i].topic
                 PROVE  retained[outbox'[i].topic] = outbox'[i].value
      BY <2>1 DEF RetainedInv
    <2>2. i + 1 \in 1..sent /\ outbox'[i] = outbox[i + 1]
      BY <1>0, <2>1 DEF OutboxOK
    <2>3. ASSUME NEW j \in (i + 2)..sent PROVE outbox[j].topic # outbox[i + 1].topic
      <3>1. j - 1 \in (i + 1)..sent' /\ outbox'[j - 1] = outbox[j]
        BY <1>0, <2>1, <2>3 DEF OutboxOK
      <3> QED
        BY <2>2, <3>1
    <2>4. (i + 1) + 1 = i + 2
      BY <2>1
    <2> QED
      BY <2>2, <2>3, <2>4 DEF RetainedInv
  <1>5. CASE Drop \/ Crash
    BY <1>5 DEF Drop, Crash, RetainedInv
  <1>6. \/ UNCHANGED <<outbox, sent, retained>> \/ Receive \/ Acknowledge \/ Drop \/ Crash
        \/ \E t \in Topics, v \in {"online", "offline", "present"} : publish(t, v)
    BY DEF Next, vars, netVars, Step, Network, Start, Stop, PublishStatus, PublishPeerStatus,
           PublishDiscovery, PublishSimDiscovery, CheckRunning, CreateTimer, LaunchTimer,
           Fire, Beat, TestTimer, CancelTimer, ClearTimer, PublishOffline,
           PublishPeerOffline, Reconnect, Topics, Presence
  <1> QED
    BY <1>1, <1>2, <1>3, <1>4, <1>5, <1>6

\* ... and no online follows the offline on its way to the broker.
OfflineLast(t) ==
  \/ \E i \in 1..Len(outbox) :
       /\ outbox[i] = Message(t, "offline")
       /\ \A j \in (i + 1)..Len(outbox) : outbox[j].topic # t
  \/ (\A i \in 1..Len(outbox) : outbox[i].topic # t) /\ retained[t] = "offline"

FarewellInv ==
  ~ disturbed /\ ~ crashed /\ calls > 0 /\ ~ running =>
    /\ pc[App] \in {"x_peer", "idle"} => OfflineLast("status")
    /\ pc[App] = "idle" => OfflineLast("peer_status")

\* The farewell on a topic is the last message when it is published, whatever is
\* published on other topics later, however far the broker has got, and after
\* the will.
LEMMA OfflinePublished ==
  ASSUME TypeOK, NEW t \in Topics, publish(t, "offline")
  PROVE  OfflineLast(t)'
  <1>1. Message(t, "offline") \in Messages
    BY DEF Message, Messages
  <1>2. Len(outbox') = Len(outbox) + 1 /\ outbox'[Len(outbox')] = Message(t, "offline")
    BY <1>1, Appended DEF TypeOK, publish
  <1>3. Len(outbox) \in Nat
    BY DEF TypeOK
  <1> QED
    BY <1>2, <1>3 DEF OfflineLast

LEMMA OfflineNotCovered ==
  ASSUME TypeOK, NEW t \in Topics, NEW u \in Topics \ {t},
         NEW v \in {"online", "offline", "present"}, OfflineLast(t), publish(u, v)
  PROVE  OfflineLast(t)'
  <1>1. Message(u, v) \in Messages /\ Message(u, v).topic = u
    BY DEF Message, Messages
  <1>2. /\ Len(outbox) \in Nat /\ Len(outbox') = Len(outbox) + 1
        /\ outbox'[Len(outbox) + 1] = Message(u, v)
        /\ \A i \in 1..Len(outbox) : outbox'[i] = outbox[i]
        /\ retained' = retained
    BY <1>1, Appended DEF TypeOK, publish
  <1>3. \A i \in 1..(Len(outbox) + 1) : i \in 1..Len(outbox) \/ i = Len(outbox) + 1
    BY <1>2
  <1> QED
    BY <1>1, <1>2, <1>3 DEF OfflineLast

LEMMA OfflineReceived ==
  ASSUME TypeOK, NEW t \in Topics, OfflineLast(t), Receive
  PROVE  OfflineLast(t)'
  <1>1. sent + 1 \in 1..Len(outbox) /\ outbox' = outbox
    BY DEF Receive, TypeOK
  <1>2. outbox[sent + 1].topic # t => retained'[t] = retained[t]
    BY DEF Receive, TypeOK
  <1> QED
    BY <1>1, <1>2 DEF OfflineLast

LEMMA OfflineAcknowledged ==
  ASSUME TypeOK, RetainedInv, NEW t \in Topics, OfflineLast(t), Acknowledge
  PROVE  OfflineLast(t)'
  <1>1. /\ sent \in Nat /\ sent > 0 /\ sent <= Len(outbox) /\ retained' = retained
        /\ Len(outbox) \in Nat /\ Len(outbox') = Len(outbox) - 1
        /\ \A i \in 1..Len(outbox') : outbox'[i] = outbox[i + 1]
    BY WithoutFirst DEF Acknowledge, TypeOK
  <1>2. \A i \in 1..Len(outbox') : i + 1 \in 1..Len(outbox)
    BY <1>1
  <1>3. CASE (\A i \in 1..Len(outbox) : outbox[i].topic # t) /\ retained[t] = "offline"
    BY <1>1, <1>2, <1>3 DEF OfflineLast
  <1>4. ASSUME NEW i \in 1..Len(outbox), outbox[i] = Message(t, "offline"),
               \A j \in (i + 1)..Len(outbox) : outbox[j].topic # t
        PROVE  OfflineLast(t)'
    <2>0. outbox[i].topic = t /\ outbox[i].value = "offline"
      BY <1>4 DEF Message
    <2>1. CASE i = 1
      <3>1. 1 \in 1..sent /\ \A j \in (1 + 1)..sent : j \in (i + 1)..Len(outbox)
        BY <1>1, <2>1
      <3>2. retained[t] = "offline"
        BY <1>4, <2>0, <2>1, <3>1 DEF RetainedInv
      <3>3. \A j \in 1..Len(outbox') : j + 1 \in (i + 1)..Len(outbox)
        BY <1>1, <2>1
      <3> QED
        BY <1>1, <1>4, <3>2, <3>3 DEF OfflineLast
    <2>2. CASE i # 1
      <3>1. i - 1 \in 1..Len(outbox') /\ outbox'[i - 1] = Message(t, "offline")
        BY <1>1, <1>4, <2>2
      <3>2. ASSUME NEW j \in ((i - 1) + 1)..Len(outbox') PROVE outbox'[j].topic # t
        <4>1. j \in 1..Len(outbox') /\ j + 1 \in (i + 1)..Len(outbox)
          BY <1>1, <2>2, <3>2
        <4> QED
          BY <1>1, <1>4, <4>1
      <3> QED
        BY <3>1, <3>2 DEF OfflineLast
    <2> QED
      BY <2>1, <2>2
  <1> QED
    BY <1>3, <1>4 DEF OfflineLast

LEMMA OfflineAfterWill ==
  ASSUME TypeOK, NEW t \in Topics, OfflineLast(t), Drop
  PROVE  OfflineLast(t)'
  BY DEF OfflineLast, Drop, will, TypeOK

LEMMA FarewellInit == Init => FarewellInv
  BY DEF Init, FarewellInv

\* Only the application publishes while the peer is not running.
LEMMA FarewellStep ==
  ASSUME TypeOK, ChainInv, RetainedInv, FarewellInv, [Next]_vars
  PROVE  FarewellInv'
  <1> DEFINE Kept == /\ pc'[App] \in {"x_peer", "idle"} => OfflineLast("status")'
                     /\ pc'[App] = "idle" => OfflineLast("peer_status")'
  <1> SUFFICES ASSUME ~ disturbed', ~ crashed', calls' > 0, ~ running'
               PROVE  Kept
    BY DEF FarewellInv
  <1> USE DEF At, Goto, Actors, callVars
  <1>0. PcOK /\ "status" \in Topics /\ "peer_status" \in Topics
    BY DEF TypeOK, PcOK, Topics, Presence
  <1>1. CASE Start
    BY <1>1 DEF Start
  <1>2. CASE Stop
    BY <1>0, <1>2 DEF Stop, PcOK
  <1>3. ASSUME NEW a \in Actors,
               PublishStatus(a) \/ PublishPeerStatus(a) \/ CheckRunning(a) \/ CreateTimer(a)
               \/ LaunchTimer(a) \/ (a = App /\ (PublishDiscovery \/ PublishSimDiscovery))
        PROVE  FALSE
    <2>1. ~ disturbed /\ ~ running /\ pc[a] \in StartLabels \cup {"discovery", "simulates"}
      BY <1>3 DEF PublishStatus, PublishPeerStatus, CheckRunning, CreateTimer, LaunchTimer,
                  PublishDiscovery, PublishSimDiscovery, StartLabels
    <2>2. a \in Timers => pc[a] \in StartLabels
      BY <1>0, <2>1 DEF PcOK, TimerLabels, StartLabels, Waiting
    <2> QED
      BY <2>1, <2>2 DEF ChainInv, Starting
  <1>4. CASE UNCHANGED <<running, calls, disturbed, pc, outbox, retained, crashed>>
    BY <1>4 DEF FarewellInv, OfflineLast
  <1>5. ASSUME NEW n \in Timers, Fire(n) \/ Beat(n)
        PROVE  /\ pc'[App] = pc[App]
               /\ UNCHANGED <<running, calls, disturbed, outbox, retained, crashed>>
    BY <1>0, <1>5 DEF Fire, Beat, PcOK, netVars
  <1>6. ASSUME NEW n \in Timers, Fire(n) \/ Beat(n)
        PROVE  Kept
    BY <1>5, <1>6 DEF FarewellInv, OfflineLast
  <1>7. CASE TestTimer \/ CancelTimer \/ ClearTimer
    BY <1>0, <1>7 DEF TestTimer, CancelTimer, ClearTimer, PcOK, TypeOK
  <1>8. CASE PublishOffline
    BY <1>0, <1>8, OfflinePublished DEF PublishOffline, PcOK
  <1>9. CASE PublishPeerOffline
    <2>1. OfflineLast("status")
      BY <1>9 DEF PublishPeerOffline, FarewellInv
    <2>2. OfflineLast("status")'
      BY <1>0, <1>9, <2>1, OfflineNotCovered DEF PublishPeerOffline
    <2> QED
      BY <1>0, <1>9, <2>2, OfflinePublished DEF PublishPeerOffline
  <1>10. ASSUME Receive \/ Acknowledge \/ Drop
         PROVE  Kept
    <2>1. UNCHANGED <<running, calls, disturbed, pc, crashed>>
      BY <1>10 DEF Receive, Acknowledge, Drop, peerVars
    <2>2. \A t \in Topics : OfflineLast(t) => OfflineLast(t)'
      BY <1>10, OfflineReceived, OfflineAcknowledged, OfflineAfterWill
    <2> QED
      BY <1>0, <2>1, <2>2 DEF FarewellInv
  <1>11. Reconnect \/ UNCHANGED vars =>
           UNCHANGED <<running, calls, disturbed, pc, outbox, retained, crashed>>
    BY DEF Reconnect, vars, peerVars, netVars
  <1>12. ~ Crash
    BY DEF Crash
  <1> HIDE DEF Kept
  <1>13. (\E a \in Actors : Step(a)) => Kept
    <2> SUFFICES ASSUME NEW a \in Actors, Step(a) PROVE Kept
      OBVIOUS
    <2>1. \/ TestTimer \/ CancelTimer \/ ClearTimer \/ PublishOffline \/ PublishPeerOffline
          \/ PublishStatus(a) \/ PublishPeerStatus(a) \/ CheckRunning(a) \/ CreateTimer(a)
          \/ LaunchTimer(a) \/ (a = App /\ (PublishDiscovery \/ PublishSimDiscovery))
      BY DEF Step
    <2> QED
      BY <1>3, <1>7, <1>8, <1>9, <2>1
  <1> QED
    BY <1>1, <1>2, <1>4, <1>6, <1>10, <1>11, <1>12, <1>13 DEF Next, Network

\* Once the broker has everything, the last message is the one it retains.
LEMMA FarewellKept == TypeOK /\ FarewellInv => FarewellIsLast
  <1> SUFFICES ASSUME TypeOK, FarewellInv, ~ disturbed, Quiet, calls > 0, ~ running,
                      NEW t \in Presence
               PROVE  retained[t] = "offline"
    BY DEF FarewellIsLast, StoppedShowsOffline
  <1>1. OfflineLast(t)
    BY DEF FarewellInv, Quiet, At, Presence
  <1>2. Len(outbox) = 0
    BY DEF Quiet
  <1> QED
    BY <1>1, <1>2 DEF OfflineLast

\* FarewellIsLast holds: after a stop that met no running heartbeat the peer is
\* offline on both topics, whatever timers, lost connections and messages sent
\* again came in between.
THEOREM FarewellStays == Spec => []FarewellIsLast
  <1>1. TypeOK /\ RetainedInv /\ [Next]_vars => RetainedInv'
    BY RetainedStep
  <1>2. TypeOK /\ ChainInv /\ [Next]_vars => ChainInv'
    BY ChainStep
  <1>3. TypeOK /\ ChainInv /\ RetainedInv /\ FarewellInv /\ [Next]_vars => FarewellInv'
    BY FarewellStep
  <1> QED
    BY TypeCorrect, RetainedInit, ChainInit, FarewellInit, <1>1, <1>2, <1>3, FarewellKept, PTL
    DEF Spec
=============================================================================
