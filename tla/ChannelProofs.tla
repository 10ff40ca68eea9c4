--------------------------- MODULE ChannelProofs ---------------------------
(***************************************************************************)
(* Proofs about the MQTT channels of layer1, StatusChannels and               *)
(* SimulatedPeers, for any number of processes, peers, interfaces and         *)
(* subscribers and any connections lost: what subscribers know, what is       *)
(* announced and what the topics of peers say when all is delivered.          *)
(***************************************************************************)
EXTENDS StatusChannels, SimulatedPeers, BasicLemmas

---------------------------------------------------------------------------
(* What a client has queued: a list q, of which the broker has the first k.   *)

\* A message of S is still to come.
Coming(q, k, S) == \E j \in 1..Len(q) : j > k /\ q[j] \in S

\* After each message of S one of T follows.
Followed(q, S, T) == \A j \in 1..Len(q) : q[j] \in S => Coming(q, j, T)

\* The last message of S is one of V.
EndsIn(q, S, V) == Followed(q, S \ V, S)

\* Each message of T comes after one of S that is still to come.
After(q, k, S, T) ==
  \A j \in 1..Len(q) : q[j] \in T => \E l \in 1..(j - 1) : l > k /\ q[l] \in S

\* The queue after a step that delivers nothing new: what was to come is to come.
Keeps(q, k, r, l) ==
  /\ \A S : Coming(q, k, S) => Coming(r, l, S)
  /\ \A S, T : Followed(q, S, T) => Followed(r, S, T)
  /\ \A S, T : After(q, k, S, T) => After(r, l, S, T)

\* The queue after the broker has received the message m.
Delivers(m, q, k, r, l) ==
  /\ \A S : Coming(q, k, S) => m \in S \/ Coming(r, l, S)
  /\ \A S, T : Followed(q, S, T) => Followed(r, S, T) /\ (m \in S => Coming(r, l, T))
  /\ \A S, T : After(q, k, S, T) => m \notin T /\ (m \in S \/ After(r, l, S, T))

LEMMA TailKeeps ==
  ASSUME NEW M, NEW q \in Seq(M), NEW k \in 1..Len(q), NEW r, r = Tail(q)
  PROVE  Keeps(q, k, r, k - 1)
  <1> PICK n \in Nat \ {0} : n = Len(q)
    OBVIOUS
  <1>1. Len(r) = n - 1 /\ k \in 1..n /\ \A j \in 1..(n - 1) : r[j] = q[j + 1]
    OBVIOUS
  <1>2. ASSUME NEW i \in Nat, NEW S, Coming(q, i + 1, S)
        PROVE  Coming(r, i, S)
    <2>1. PICK j \in 1..n : j > i + 1 /\ q[j] \in S
      BY <1>2 DEF Coming
    <2>2. j - 1 \in 1..(n - 1) /\ j - 1 > i /\ (j - 1) + 1 = j
      BY <2>1
    <2> QED
      BY <1>1, <2>1, <2>2 DEF Coming
  <1>3. ASSUME NEW S, Coming(q, k, S)
        PROVE  Coming(r, k - 1, S)
    <2>1. k - 1 \in Nat /\ (k - 1) + 1 = k
      BY <1>1
    <2> QED
      BY <1>2, <1>3, <2>1
  <1>4. ASSUME NEW S, NEW T, Followed(q, S, T)
        PROVE  Followed(r, S, T)
    <2> SUFFICES ASSUME NEW j \in 1..(n - 1), r[j] \in S
                 PROVE  Coming(r, j, T)
      BY <1>1 DEF Followed
    <2>1. j + 1 \in 1..n /\ q[j + 1] \in S /\ j \in Nat
      BY <1>1
    <2>2. Coming(q, j + 1, T)
      BY <1>4, <2>1 DEF Followed
    <2> QED
      BY <1>2, <2>1, <2>2
  <1>5. ASSUME NEW S, NEW T, After(q, k, S, T)
        PROVE  After(r, k - 1, S, T)
    <2> SUFFICES ASSUME NEW j \in 1..(n - 1), r[j] \in T
                 PROVE  \E l \in 1..(j - 1) : l > k - 1 /\ r[l] \in S
      BY <1>1 DEF After
    <2>1. j + 1 \in 1..n /\ q[j + 1] \in T
      BY <1>1
    <2>2. PICK l \in 1..((j + 1) - 1) : l > k /\ q[l] \in S
      BY <1>5, <2>1 DEF After
    <2>3. /\ l - 1 \in 1..(j - 1) /\ l - 1 > k - 1 /\ l - 1 \in 1..(n - 1) /\ (l - 1) + 1 = l
      BY <1>1, <2>2
    <2> QED
      BY <1>1, <2>2, <2>3
  <1> QED
    BY <1>3, <1>4, <1>5 DEF Keeps

LEMMA RestartKeeps ==
  ASSUME NEW M, NEW q \in Seq(M), NEW k \in Nat
  PROVE  Keeps(q, k, q, 0)
  <1>1. \A S : Coming(q, k, S) => Coming(q, 0, S)
    <2> TAKE S
    <2>1. \A j \in 1..Len(q) : j > 0
      OBVIOUS
    <2> QED
      BY <2>1 DEF Coming
  <1>2. \A S, T : After(q, k, S, T) => After(q, 0, S, T)
    <2> TAKE S, T
    <2>1. \A j : \A l \in 1..(j - 1) : l > 0
      OBVIOUS
    <2> QED
      BY <2>1 DEF After
  <1> QED
    BY <1>1, <1>2 DEF Keeps

LEMMA SameKeeps ==
  ASSUME NEW q, NEW k
  PROVE  Keeps(q, k, q, k)
  BY DEF Keeps

\* The broker receives the next message and the client goes on holding it.
LEMMA NextDelivers ==
  ASSUME NEW M, NEW q \in Seq(M), NEW k \in Nat, k < Len(q)
  PROVE  Delivers(q[k + 1], q, k, q, k + 1)
  <1> PICK n \in Nat : n = Len(q)
    OBVIOUS
  <1>1. k + 1 \in 1..n /\ k + 1 > k /\ \A j \in 1..n : j > k => j = k + 1 \/ j > k + 1
    OBVIOUS
  <1>2. \A S : Coming(q, k, S) => q[k + 1] \in S \/ Coming(q, k + 1, S)
    BY <1>1 DEF Coming
  <1>3. \A S, T : Followed(q, S, T) => (q[k + 1] \in S => Coming(q, k + 1, T))
    BY <1>1 DEF Followed
  <1>4. ASSUME NEW S, NEW T, After(q, k, S, T)
        PROVE  q[k + 1] \notin T /\ (q[k + 1] \in S \/ After(q, k + 1, S, T))
    <2>1. q[k + 1] \notin T
      <3> SUFFICES ASSUME q[k + 1] \in T PROVE FALSE
        OBVIOUS
      <3>1. PICK l \in 1..((k + 1) - 1) : l > k /\ q[l] \in S
        BY <1>1, <1>4 DEF After
      <3> QED
        BY <3>1
    <2>2. ASSUME q[k + 1] \notin S
          PROVE  After(q, k + 1, S, T)
      <3> SUFFICES ASSUME NEW j \in 1..n, q[j] \in T
                   PROVE  \E l \in 1..(j - 1) : l > k + 1 /\ q[l] \in S
        BY DEF After
      <3>1. PICK l \in 1..(j - 1) : l > k /\ q[l] \in S
        BY <1>4 DEF After
      <3>2. l # k + 1
        BY <2>2, <3>1
      <3> QED
        BY <3>1, <3>2
    <2> QED
      BY <2>1, <2>2
  <1> QED
    BY <1>2, <1>3, <1>4 DEF Delivers

\* The broker receives the first message and the client drops it.
LEMMA HeadDelivers ==
  ASSUME NEW M, NEW q \in Seq(M), q # << >>, NEW r, r = Tail(q)
  PROVE  Delivers(q[1], q, 0, r, 0)
  <1>1. Delivers(q[1], q, 0, q, 1)
    <2>1. 0 \in Nat /\ 0 < Len(q) /\ 0 + 1 = 1
      OBVIOUS
    <2>2. Delivers(q[0 + 1], q, 0, q, 0 + 1)
      BY <2>1, NextDelivers
    <2> QED
      BY <2>1, <2>2
  <1>2. Keeps(q, 1, r, 0)
    <2>1. 1 \in 1..Len(q) /\ 1 - 1 = 0
      OBVIOUS
    <2>2. Keeps(q, 1, r, 1 - 1)
      BY <2>1, TailKeeps
    <2> QED
      BY <2>1, <2>2
  <1>3. \A S : Coming(q, 0, S) => q[1] \in S \/ Coming(r, 0, S)
    BY <1>1, <1>2 DEF Delivers, Keeps
  <1>4. \A S, T : Followed(q, S, T) => Followed(r, S, T) /\ (q[1] \in S => Coming(r, 0, T))
    BY <1>1, <1>2 DEF Delivers, Keeps
  <1>5. \A S, T : After(q, 0, S, T) => q[1] \notin T /\ (q[1] \in S \/ After(r, 0, S, T))
    BY <1>1, <1>2 DEF Delivers, Keeps
  <1> QED
    BY <1>3, <1>4, <1>5 DEF Delivers

\* Messages are published.
LEMMA PublishComes ==
  ASSUME NEW M, NEW q \in Seq(M), NEW p \in Seq(M), NEW r, r = q \o p, NEW k \in 0..Len(q), NEW S
  PROVE  /\ Coming(q, k, S) \/ Coming(p, 0, S) => Coming(r, k, S)
         /\ \A T : Followed(p, S, T) /\ (Coming(p, 0, T) \/ Followed(q, S, T)) => Followed(r, S, T)
         /\ \A T : After(q, k, S, T) /\ After(p, 0, S, T) => After(r, k, S, T)
  <1> PICK n \in Nat, m \in Nat : n = Len(q) /\ m = Len(p)
    OBVIOUS
  <1>1. /\ Len(r) = n + m /\ \A j \in 1..n : r[j] = q[j]
        /\ \A j \in 1..m : r[n + j] = p[j]
    <2>1. /\ q \o p \in Seq(M) /\ Len(q \o p) = Len(q) + Len(p)
          /\ \A i \in 1..(Len(q) + Len(p)) :
               (q \o p)[i] = IF i <= Len(q) THEN q[i] ELSE p[i - Len(q)]
      BY ConcatProperties, Zenon
    <2>2. /\ Len(r) = n + m
          /\ \A i \in 1..(n + m) : r[i] = IF i <= n THEN q[i] ELSE p[i - n]
      BY <2>1
    <2>3. \A j \in 1..n : j \in 1..(n + m) /\ j <= n
      OBVIOUS
    <2>4. \A j \in 1..m : n + j \in 1..(n + m) /\ ~ (n + j <= n) /\ (n + j) - n = j
      OBVIOUS
    <2> QED
      BY <2>2, <2>3, <2>4
  <1>2. /\ \A j \in 1..n : j \in 1..(n + m)
        /\ \A j \in 1..m : n + j \in 1..(n + m) /\ n + j > k /\ j > 0
        /\ \A j \in 1..(n + m) : j \in 1..n \/ \E i \in 1..m : j = n + i
    <2>1. \A j \in 1..(n + m) : ~ (j \in 1..n) => j - n \in 1..m /\ j = n + (j - n)
      OBVIOUS
    <2>2. \A j \in 1..(n + m) : j \in 1..n \/ \E i \in 1..m : j = n + i
      BY <2>1
    <2>3. \A j \in 1..n : j \in 1..(n + m)
      OBVIOUS
    <2>4. \A j \in 1..m : n + j \in 1..(n + m) /\ n + j > k /\ j > 0
      OBVIOUS
    <2> QED
      BY <2>2, <2>3, <2>4
  <1>3. ASSUME NEW i, NEW T, Coming(q, i, T)
        PROVE  Coming(r, i, T)
    BY <1>1, <1>2, <1>3 DEF Coming
  <1>4. ASSUME NEW i \in Nat, NEW T, Coming(p, i, T)
        PROVE  Coming(r, n + i, T)
    <2>1. PICK j \in 1..m : j > i /\ p[j] \in T
      BY <1>4 DEF Coming
    <2>2. n + j > n + i
      BY <2>1
    <2> QED
      BY <1>1, <1>2, <2>1, <2>2 DEF Coming
  <1>5. Coming(p, 0, S) => Coming(r, k, S)
    BY <1>1, <1>2 DEF Coming
  <1>6. ASSUME NEW T, Followed(p, S, T), Coming(p, 0, T) \/ Followed(q, S, T)
        PROVE  Followed(r, S, T)
    <2> SUFFICES ASSUME NEW j \in 1..(n + m), r[j] \in S
                 PROVE  Coming(r, j, T)
      BY <1>1 DEF Followed
    <2>1. CASE j \in 1..n
      <3>1. r[j] = q[j] /\ \A i \in 1..m : n + i > j
        BY <1>1, <2>1
      <3>2. CASE Coming(p, 0, T)
        <4>1. PICK i \in 1..m : p[i] \in T
          BY <3>2 DEF Coming
        <4> QED
          BY <1>1, <1>2, <3>1, <4>1 DEF Coming
      <3>3. CASE Followed(q, S, T)
        <4>1. Coming(q, j, T)
          BY <2>1, <3>1, <3>3 DEF Followed
        <4> QED
          BY <1>3, <4>1
      <3> QED
        BY <1>6, <3>2, <3>3
    <2>2. ASSUME NEW i \in 1..m, j = n + i
          PROVE  Coming(r, j, T)
      <3>1. r[j] = p[i] /\ i \in Nat
        BY <1>1, <2>2
      <3>2. Coming(p, i, T)
        BY <1>6, <3>1 DEF Followed
      <3> QED
        BY <1>4, <2>2, <3>1, <3>2
    <2> QED
      BY <1>2, <2>1, <2>2
  <1>7. ASSUME NEW T, After(q, k, S, T), After(p, 0, S, T)
        PROVE  After(r, k, S, T)
    <2> SUFFICES ASSUME NEW j \in 1..(n + m), r[j] \in T
                 PROVE  \E l \in 1..(j - 1) : l > k /\ r[l] \in S
      BY <1>1 DEF After
    <2>1. CASE j \in 1..n
      <3>1. PICK l \in 1..(j - 1) : l > k /\ q[l] \in S
        BY <1>1, <1>7, <2>1 DEF After
      <3>2. l \in 1..n
        BY <2>1
      <3> QED
        BY <1>1, <3>1, <3>2
    <2>2. ASSUME NEW i \in 1..m, j = n + i
          PROVE  \E l \in 1..(j - 1) : l > k /\ r[l] \in S
      <3>1. PICK l \in 1..(i - 1) : l > 0 /\ p[l] \in S
        BY <1>1, <1>7, <2>2 DEF After
      <3>2. l \in 1..m /\ n + l \in 1..(j - 1)
        BY <2>2
      <3> QED
        BY <1>1, <1>2, <3>1, <3>2
    <2> QED
      BY <1>2, <2>1, <2>2
  <1> QED
    BY <1>3, <1>5, <1>6, <1>7

LEMMA NothingComes ==
  ASSUME NEW k, NEW S, NEW T
  PROVE  ~ Coming(<< >>, k, S) /\ Followed(<< >>, S, T) /\ After(<< >>, k, S, T)
  <1>1. \A j : j \notin 1..Len(<< >>)
    OBVIOUS
  <1> QED
    BY <1>1 DEF Coming, Followed, After

---------------------------------------------------------------------------
(* The clients.                                                              *)

\* Queues of messages, of each client from a set of its own.
ClientsOK(M) ==
  /\ DOMAIN outbox = PahoClients /\ \A c \in PahoClients : outbox[c] \in Seq(M[c])
  /\ sent \in [PahoClients -> Nat] /\ connected \in [PahoClients -> BOOLEAN]
  /\ \A c \in PahoClients : sent[c] <= Len(outbox[c]) /\ (c \notin Unsteady => sent[c] = 0)

QueueKeeps(c) == Keeps(outbox[c], sent[c], outbox'[c], sent'[c])
QueueDelivers(c, m) == Delivers(m, outbox[c], sent[c], outbox'[c], sent'[c])

LEMMA QuietStep ==
  ASSUME NEW M, ClientsOK(M), NEW c \in PahoClients, NEW wills,
         Acknowledge(c) \/ Drop(c, wills) \/ Reconnect(c)
  PROVE  ClientsOK(M)' /\ \A d \in PahoClients : QueueKeeps(d)
  <1>0. /\ DOMAIN outbox = PahoClients /\ \A d \in PahoClients : outbox[d] \in Seq(M[d])
        /\ sent \in [PahoClients -> Nat] /\ connected \in [PahoClients -> BOOLEAN]
        /\ \A d \in PahoClients : sent[d] <= Len(outbox[d]) /\ (d \notin Unsteady => sent[d] = 0)
    BY DEF ClientsOK
  <1>1. CASE Acknowledge(c)
    <2>1. /\ outbox' = [outbox EXCEPT ![c] = Tail(outbox[c])] /\ sent' = [sent EXCEPT ![c] = sent[c] - 1]
          /\ sent[c] > 0 /\ connected' = connected
      BY <1>1 DEF Acknowledge
    <2>2. sent[c] \in 1..Len(outbox[c]) /\ outbox[c] # << >> /\ sent[c] - 1 \in Nat
      BY <1>0, <2>1
    <2>3. Tail(outbox[c]) \in Seq(M[c]) /\ Len(Tail(outbox[c])) = Len(outbox[c]) - 1
      BY <1>0, <2>2
    <2>4. ClientsOK(M)'
      <3>1. DOMAIN outbox' = PahoClients /\ \A d \in PahoClients : outbox'[d] \in Seq(M[d])
        BY <1>0, <2>1, <2>3
      <3>2. sent' \in [PahoClients -> Nat] /\ connected' \in [PahoClients -> BOOLEAN]
        BY <1>0, <2>1, <2>2
      <3>3. \A d \in PahoClients : sent'[d] <= Len(outbox'[d]) /\ (d \notin Unsteady => sent'[d] = 0)
        <4> TAKE d \in PahoClients
        <4>1. CASE d = c
          <5>1. sent'[d] = sent[c] - 1 /\ outbox'[d] = Tail(outbox[c])
            BY <1>0, <2>1, <4>1
          <5> QED
            BY <1>0, <2>1, <2>2, <2>3, <4>1, <5>1
        <4>2. CASE d # c
          BY <1>0, <2>1, <4>2
        <4> QED
          BY <4>1, <4>2
      <3> QED
        BY <3>1, <3>2, <3>3 DEF ClientsOK
    <2>5. QueueKeeps(c)
      <3>1. Keeps(outbox[c], sent[c], Tail(outbox[c]), sent[c] - 1)
        BY <1>0, <2>2, TailKeeps
      <3>2. outbox'[c] = Tail(outbox[c]) /\ sent'[c] = sent[c] - 1
        BY <1>0, <2>1
      <3> QED
        BY <3>1, <3>2 DEF QueueKeeps
    <2>6. \A d \in PahoClients : d # c => QueueKeeps(d)
      BY <1>0, <2>1, SameKeeps DEF QueueKeeps
    <2> QED
      BY <2>4, <2>5, <2>6
  <1>2. CASE Drop(c, wills)
    <2>1. /\ outbox' = outbox /\ sent' = [sent EXCEPT ![c] = 0]
          /\ connected' = [connected EXCEPT ![c] = FALSE]
      BY <1>2 DEF Drop
    <2>2. \A d \in PahoClients : sent'[d] = IF d = c THEN 0 ELSE sent[d]
      BY <1>0, <2>1
    <2>3. ClientsOK(M)'
      <3>1. sent' \in [PahoClients -> Nat] /\ connected' \in [PahoClients -> BOOLEAN]
        BY <1>0, <2>1
      <3>2. \A d \in PahoClients : sent'[d] <= Len(outbox[d]) /\ (d \notin Unsteady => sent'[d] = 0)
        <4> TAKE d \in PahoClients
        <4>1. Len(outbox[d]) \in Nat
          BY <1>0
        <4> QED
          BY <1>0, <2>2, <4>1
      <3> QED
        BY <1>0, <2>1, <3>1, <3>2 DEF ClientsOK
    <2>4. QueueKeeps(c)
      <3>1. Keeps(outbox[c], sent[c], outbox[c], 0)
        BY <1>0, RestartKeeps
      <3> QED
        BY <2>1, <2>2, <3>1 DEF QueueKeeps
    <2>5. \A d \in PahoClients : d # c => QueueKeeps(d)
      BY <2>1, <2>2, SameKeeps DEF QueueKeeps
    <2> QED
      BY <2>3, <2>4, <2>5
  <1>3. CASE Reconnect(c)
    <2>1. /\ outbox' = outbox /\ sent' = sent /\ connected' = [connected EXCEPT ![c] = TRUE]
      BY <1>3 DEF Reconnect
    <2>2. connected' \in [PahoClients -> BOOLEAN]
      BY <1>0, <2>1
    <2>3. ClientsOK(M)'
      BY <1>0, <2>1, <2>2 DEF ClientsOK
    <2>4. \A d \in PahoClients : QueueKeeps(d)
      BY <2>1, SameKeeps DEF QueueKeeps
    <2> QED
      BY <2>3, <2>4
  <1> QED
    BY <1>1, <1>2, <1>3

\* The broker receives the client's next message.
LEMMA ForwardStep ==
  ASSUME NEW M, ClientsOK(M), NEW c \in PahoClients, Forward(c)
  PROVE  /\ ClientsOK(M)' /\ NextOf(c) \in M[c] /\ QueueDelivers(c, NextOf(c))
         /\ \A d \in PahoClients : d # c => QueueKeeps(d)
  <1>0. /\ DOMAIN outbox = PahoClients /\ \A d \in PahoClients : outbox[d] \in Seq(M[d])
        /\ sent \in [PahoClients -> Nat] /\ connected \in [PahoClients -> BOOLEAN]
        /\ \A d \in PahoClients : sent[d] <= Len(outbox[d]) /\ (d \notin Unsteady => sent[d] = 0)
    BY DEF ClientsOK
  <1> PICK m : m = NextOf(c)
    OBVIOUS
  <1>1. sent[c] < Len(outbox[c]) /\ sent[c] \in Nat /\ m = outbox[c][sent[c] + 1]
    BY <1>0 DEF Forward, HasNext, NextOf
  <1>2. m \in M[c]
    <2>1. sent[c] + 1 \in 1..Len(outbox[c])
      BY <1>0, <1>1
    <2> QED
      BY <1>0, <1>1, <2>1
  <1>3. CASE c \in Unsteady
    <2>1. /\ outbox' = outbox /\ sent' = [sent EXCEPT ![c] = sent[c] + 1] /\ connected' = connected
      BY <1>3 DEF Forward
    <2>2. \A d \in PahoClients : sent'[d] = IF d = c THEN sent[c] + 1 ELSE sent[d]
      BY <1>0, <2>1
    <2>3. ClientsOK(M)'
      <3>1. sent' \in [PahoClients -> Nat]
        BY <1>0, <1>1, <2>1
      <3>2. \A d \in PahoClients : sent'[d] <= Len(outbox[d]) /\ (d \notin Unsteady => sent'[d] = 0)
        <4> TAKE d \in PahoClients
        <4>1. Len(outbox[d]) \in Nat
          BY <1>0
        <4> QED
          BY <1>0, <1>1, <1>3, <2>2, <4>1
      <3> QED
        BY <1>0, <2>1, <3>1, <3>2 DEF ClientsOK
    <2>4. QueueDelivers(c, m)
      <3>1. Delivers(outbox[c][sent[c] + 1], outbox[c], sent[c], outbox[c], sent[c] + 1)
        BY <1>0, <1>1, NextDelivers
      <3> QED
        BY <1>1, <2>1, <2>2, <3>1 DEF QueueDelivers
    <2>5. \A d \in PahoClients : d # c => QueueKeeps(d)
      BY <2>1, <2>2, SameKeeps DEF QueueKeeps
    <2> QED
      BY <1>2, <2>3, <2>4, <2>5
  <1>4. CASE c \notin Unsteady
    <2>1. /\ outbox' = [outbox EXCEPT ![c] = Tail(outbox[c])] /\ sent' = sent /\ connected' = connected
      BY <1>4 DEF Forward
    <2>2. sent[c] = 0 /\ outbox[c] # << >> /\ m = outbox[c][1]
      <3>1. sent[c] = 0
        BY <1>0, <1>4
      <3>2. outbox[c] # << >>
        BY <1>0, <1>1
      <3> QED
        BY <1>1, <3>1, <3>2
    <2>3. Tail(outbox[c]) \in Seq(M[c]) /\ Len(Tail(outbox[c])) \in Nat
      BY <1>0, <2>2
    <2>4. outbox'[c] = Tail(outbox[c]) /\ \A d \in PahoClients : d # c => outbox'[d] = outbox[d]
      BY <1>0, <2>1
    <2>5. ClientsOK(M)'
      <3>1. DOMAIN outbox' = PahoClients /\ \A d \in PahoClients : outbox'[d] \in Seq(M[d])
        BY <1>0, <2>1, <2>3
      <3>2. \A d \in PahoClients : sent'[d] <= Len(outbox'[d]) /\ (d \notin Unsteady => sent'[d] = 0)
        BY <1>0, <2>1, <2>2, <2>3, <2>4
      <3> QED
        BY <1>0, <2>1, <3>1, <3>2 DEF ClientsOK
    <2>6. QueueDelivers(c, m)
      <3>1. Delivers(outbox[c][1], outbox[c], 0, Tail(outbox[c]), 0)
        BY <1>0, <2>2, HeadDelivers
      <3> QED
        BY <2>1, <2>2, <2>4, <3>1 DEF QueueDelivers
    <2>7. \A d \in PahoClients : d # c => QueueKeeps(d)
      BY <2>1, <2>4, SameKeeps DEF QueueKeeps
    <2> QED
      BY <1>2, <2>5, <2>6, <2>7
  <1> QED
    BY <1>3, <1>4

\* A client publishes messages.
LEMMA PublishStep ==
  ASSUME NEW M, ClientsOK(M), NEW c \in PahoClients, NEW p \in Seq(M[c]), publish(c, p)
  PROVE  /\ ClientsOK(M)' /\ sent' = sent /\ retained' = retained
         /\ \A d \in PahoClients : d # c => QueueKeeps(d)
         /\ \A S : Coming(outbox[c], sent[c], S) \/ Coming(p, 0, S) => Coming(outbox'[c], sent'[c], S)
         /\ \A S, T : Followed(p, S, T) /\ (Coming(p, 0, T) \/ Followed(outbox[c], S, T))
                        => Followed(outbox'[c], S, T)
         /\ \A S, T : After(outbox[c], sent[c], S, T) /\ After(p, 0, S, T)
                        => After(outbox'[c], sent'[c], S, T)
  <1>0. /\ DOMAIN outbox = PahoClients /\ \A d \in PahoClients : outbox[d] \in Seq(M[d])
        /\ sent \in [PahoClients -> Nat] /\ connected \in [PahoClients -> BOOLEAN]
        /\ \A d \in PahoClients : sent[d] <= Len(outbox[d]) /\ (d \notin Unsteady => sent[d] = 0)
    BY DEF ClientsOK
  <1> PICK r : r = outbox[c] \o p
    OBVIOUS
  <1>1. /\ outbox' = [outbox EXCEPT ![c] = r] /\ sent' = sent /\ connected' = connected
        /\ retained' = retained
    BY DEF publish
  <1>2. outbox'[c] = r /\ \A d \in PahoClients : d # c => outbox'[d] = outbox[d]
    BY <1>0, <1>1
  <1>3. r \in Seq(M[c]) /\ Len(r) >= Len(outbox[c]) /\ Len(r) \in Nat
    BY <1>0
  <1>4. ClientsOK(M)'
    <2>1. DOMAIN outbox' = PahoClients /\ \A d \in PahoClients : outbox'[d] \in Seq(M[d])
      BY <1>0, <1>1, <1>3
    <2>2. \A d \in PahoClients : sent'[d] <= Len(outbox'[d]) /\ (d \notin Unsteady => sent'[d] = 0)
      <3> TAKE d \in PahoClients
      <3>1. Len(outbox[d]) \in Nat /\ sent[d] \in Nat
        BY <1>0
      <3> QED
        BY <1>0, <1>1, <1>2, <1>3, <3>1
    <2> QED
      BY <1>0, <1>1, <2>1, <2>2 DEF ClientsOK
  <1>5. \A d \in PahoClients : d # c => QueueKeeps(d)
    BY <1>1, <1>2, SameKeeps DEF QueueKeeps
  <1>6. sent[c] \in 0..Len(outbox[c])
    BY <1>0
  <1>7. /\ \A S : Coming(outbox[c], sent[c], S) \/ Coming(p, 0, S) => Coming(r, sent[c], S)
        /\ \A S, T : Followed(p, S, T) /\ (Coming(p, 0, T) \/ Followed(outbox[c], S, T))
                        => Followed(r, S, T)
        /\ \A S, T : After(outbox[c], sent[c], S, T) /\ After(p, 0, S, T) => After(r, sent[c], S, T)
    <2>1. outbox[c] \in Seq(M[c])
      BY <1>0
    <2>2. ASSUME NEW S
          PROVE  /\ Coming(outbox[c], sent[c], S) \/ Coming(p, 0, S) => Coming(r, sent[c], S)
                 /\ \A T : Followed(p, S, T) /\ (Coming(p, 0, T) \/ Followed(outbox[c], S, T))
                              => Followed(r, S, T)
                 /\ \A T : After(outbox[c], sent[c], S, T) /\ After(p, 0, S, T)
                              => After(r, sent[c], S, T)
      BY <1>6, <2>1, PublishComes
    <2> QED
      BY <2>2, Zenon
  <1> QED
    BY <1>1, <1>2, <1>4, <1>5, <1>7

---------------------------------------------------------------------------
(* Peers.                                                                    *)

\* The messages of a peer: about its component, about itself, and the rest.
StatusMessage(p, up) ==
  Message(status(component[p]), IF up THEN status_online(capabilities[p]) ELSE status_offline, TRUE)
OwnMessage(p, up) ==
  Message(peer_status(p), [peer |-> p, status |-> IF up THEN "online" ELSE "offline"], TRUE)
StatusMessages(p) == {StatusMessage(p, up) : up \in BOOLEAN}
OwnMessages(p) == {OwnMessage(p, up) : up \in BOOLEAN}
Introduction(p) == Message(sim_discovery, [peer |-> p], TRUE)
Offer(p) == Message(discovery(component[p]), DiscoveryMessage(capabilities[p]), TRUE)

PeerMessages ==
  [p \in PahoClients |-> StatusMessages(p) \cup OwnMessages(p) \cup {Introduction(p), Offer(p)}]

ToCome(c, S) == Coming(outbox[c], sent[c], S)

\* The last of what a peer has queued about its component and about itself is the
\* truth, and it introduces itself only if it was started.
QueueTrue(p) ==
  /\ EndsIn(outbox[p], StatusMessages(p), {StatusMessage(p, running[p])})
  /\ EndsIn(outbox[p], OwnMessages(p), {OwnMessage(p, running[p])})
  /\ p \notin started => Followed(outbox[p], {Introduction(p)}, {})

\* The truth about a peer is on its way, or it is what the broker has.
OwnTopicTrue(p) ==
  \/ ToCome(p, OwnMessages(p))
  \/ /\ Retained(peer_status(p))
     /\ retained[peer_status(p)] = OwnMessage(p, running[p]).payload

\* The same of the topic of a component whose peers have all been stopped: one of
\* them has still to say so, or the broker has been told.
StatusTopicTrue(p) ==
  LET peers == Peers(TopicBase(component[p])) IN
  peers \subseteq asked /\ (\A d \in peers : ~ running[d]) =>
    \/ \E d \in peers : ToCome(d, StatusMessages(d))
    \/ /\ Retained(status(component[p])) /\ retained[status(component[p])] = status_offline

IntroducedTrue ==
  /\ introduced \subseteq started
  /\ \A p \in started : p \in introduced \/ ToCome(p, {Introduction(p)})
  /\ introduced # {} => Retained(sim_discovery)
  /\ Retained(sim_discovery) => retained[sim_discovery] \in [peer : started]

PeersInv ==
  /\ ClientsOK(PeerMessages)
  /\ running \in [PahoClients -> BOOLEAN]
  /\ asked \subseteq PahoClients /\ started \subseteq PahoClients
  /\ \A p \in PahoClients : QueueTrue(p)
  /\ \A p \in asked : OwnTopicTrue(p)
  /\ \A p \in PahoClients : StatusTopicTrue(p)
  /\ IntroducedTrue

LEMMA KeepIs ==
  ASSUME NEW topic, NEW payload, retained' = Keep(Only(topic, payload))
  PROVE  /\ DOMAIN retained' = {topic} \cup DOMAIN retained /\ retained'[topic] = payload
         /\ \A t \in DOMAIN retained : t # topic => retained'[t] = retained[t]
  BY DEF Keep, Only

LEMMA KeepNothing ==
  ASSUME retained' = Keep(<< >>)
  PROVE  /\ DOMAIN retained' = DOMAIN retained
         /\ \A t \in DOMAIN retained : retained'[t] = retained[t]
  <1>1. DOMAIN << >> = {}
    OBVIOUS
  <1> QED
    BY <1>1 DEF Keep

\* The topics of peers and what is on them.
LEMMA PeerTopics ==
  ASSUME NEW p \in PahoClients
  PROVE  /\ \A m \in PeerMessages[p] :
              /\ m.retain
              /\ \A d : m.topic = peer_status(d) => d = p /\ m \in OwnMessages(p)
              /\ \A d : m.topic = status(d) =>
                   m \in StatusMessages(p) /\ TopicBase(d) = TopicBase(component[p])
              /\ m.topic = sim_discovery <=> m = Introduction(p)
         /\ \A m \in OwnMessages(p) : m.topic = peer_status(p)
         /\ \A m \in StatusMessages(p) : m.topic = status(component[p])
         /\ Introduction(p).topic = sim_discovery /\ Introduction(p).payload = [peer |-> p]
         /\ Introduction(p) \in PeerMessages[p] /\ Offer(p) \in PeerMessages[p]
         /\ \A up \in BOOLEAN : StatusMessage(p, up) \in PeerMessages[p] /\ OwnMessage(p, up) \in PeerMessages[p]
  <1>1. /\ \A a, b, c, d, e : <<a, b>> # <<c, d, e>>
        /\ \A a, b, c, d : <<a, b>> = <<c, d>> => a = c /\ b = d
        /\ \A a, b, c, d, e, f : <<a, b, c>> = <<d, e, f>> => a = d /\ b = e /\ c = f
    OBVIOUS
  <1>2. /\ \A d : peer_status(d) = <<"oasis", d, "status">> /\ status(d) = <<TopicBase(d), "status">>
        /\ \A d : discovery(d) = <<TopicBase(d), "discovery">>
        /\ sim_discovery = <<"echo", "discovery", "simulates">>
    BY DEF peer_status, status, discovery, sim_discovery
  <1>3. \A up \in BOOLEAN : /\ StatusMessage(p, up).topic = status(component[p]) /\ StatusMessage(p, up).retain
                           /\ OwnMessage(p, up).topic = peer_status(p) /\ OwnMessage(p, up).retain
                           /\ StatusMessage(p, up) \in StatusMessages(p) /\ OwnMessage(p, up) \in OwnMessages(p)
    BY DEF StatusMessage, OwnMessage, Message, StatusMessages, OwnMessages
  <1>4. /\ Introduction(p).topic = sim_discovery /\ Introduction(p).payload = [peer |-> p] /\ Introduction(p).retain
        /\ Offer(p).topic = discovery(component[p]) /\ Offer(p).retain
    BY DEF Introduction, Offer, Message
  <1>5. /\ \A m \in OwnMessages(p) : m.topic = peer_status(p) /\ m.retain
        /\ \A m \in StatusMessages(p) : m.topic = status(component[p]) /\ m.retain
    BY <1>3 DEF OwnMessages, StatusMessages
  <1>6. PeerMessages[p] = StatusMessages(p) \cup OwnMessages(p) \cup {Introduction(p), Offer(p)}
    BY DEF PeerMessages
  <1>7. \A d : /\ peer_status(d) # sim_discovery /\ \A e : peer_status(d) # status(e) /\ peer_status(d) # discovery(e)
               /\ status(d) # sim_discovery /\ discovery(d) # sim_discovery
               /\ \A e : status(d) # discovery(e) /\ (peer_status(d) = peer_status(e) => d = e)
               /\ \A e : status(d) = status(e) => TopicBase(d) = TopicBase(e)
    <2>1. "oasis" # "echo" /\ "status" # "discovery"
      OBVIOUS
    <2> QED
      BY <1>1, <1>2, <2>1
  <1>8. ASSUME NEW m \in PeerMessages[p]
        PROVE  /\ m.retain
               /\ \A d : m.topic = peer_status(d) => d = p /\ m \in OwnMessages(p)
               /\ \A d : m.topic = status(d) =>
                    m \in StatusMessages(p) /\ TopicBase(d) = TopicBase(component[p])
               /\ m.topic = sim_discovery <=> m = Introduction(p)
    <2>1. CASE m \in StatusMessages(p)
      BY <1>4, <1>5, <1>7, <2>1
    <2>2. CASE m \in OwnMessages(p)
      BY <1>4, <1>5, <1>7, <2>2
    <2>3. CASE m = Introduction(p)
      BY <1>4, <1>7, <2>3
    <2>4. CASE m = Offer(p)
      BY <1>4, <1>7, <2>4
    <2> QED
      BY <1>6, <2>1, <2>2, <2>3, <2>4
  <1> QED
    BY <1>3, <1>4, <1>5, <1>6, <1>8

\* What start, stop and a heartbeat publish: the status of the peer twice, and then
\* perhaps what else it has to say.
Tells(w, p, up) ==
  /\ w \in Seq(PeerMessages[p]) /\ Len(w) >= 2
  /\ w[1] = StatusMessage(p, up) /\ w[2] = OwnMessage(p, up)
  /\ \A j \in 3..Len(w) : w[j] \in {Introduction(p), Offer(p)}

LEMMA TellsIs ==
  ASSUME NEW p \in PahoClients
  PROVE  /\ Tells(Offline(p), p, FALSE) /\ Tells(Online(p), p, TRUE)
         /\ Tells(Online(p) \o Discovery(p) \o Simulates(p), p, TRUE)
         /\ Coming(Online(p) \o Discovery(p) \o Simulates(p), 0, {Introduction(p)})
         /\ Len(Offline(p)) = 2 /\ Len(Online(p)) = 2
  <1> PICK M : M = PeerMessages[p]
    OBVIOUS
  <1> PICK a, b, c, d, x, y : /\ a = StatusMessage(p, TRUE) /\ b = OwnMessage(p, TRUE)
                              /\ x = StatusMessage(p, FALSE) /\ y = OwnMessage(p, FALSE)
                              /\ c = Offer(p) /\ d = Introduction(p)
    OBVIOUS
  <1>1. a \in M /\ b \in M /\ x \in M /\ y \in M /\ c \in M /\ d \in M
    BY PeerTopics
  <1>2. Online(p) = <<a, b>>
    BY DEF Online, StatusMessage, OwnMessage
  <1>3. Offline(p) = <<x, y>>
    BY DEF Offline, StatusMessage, OwnMessage
  <1>4. Discovery(p) = << >> \/ Discovery(p) = <<c>>
    BY DEF Discovery, Offer
  <1>5. Simulates(p) = <<d>>
    BY DEF Simulates, Introduction
  <1>6. /\ <<a, b>> \in Seq(M) /\ <<x, y>> \in Seq(M) /\ <<c>> \in Seq(M) /\ <<d>> \in Seq(M)
        /\ << >> \in Seq(M)
        /\ Len(<<a, b>>) = 2 /\ Len(<<x, y>>) = 2 /\ Len(<<c>>) = 1 /\ Len(<<d>>) = 1 /\ Len(<< >>) = 0
        /\ <<a, b>>[1] = a /\ <<a, b>>[2] = b /\ <<x, y>>[1] = x /\ <<x, y>>[2] = y
        /\ <<c>>[1] = c /\ <<d>>[1] = d
    <2>1. \A S : \A e, f \in S :
            /\ <<e, f>> \in Seq(S) /\ Len(<<e, f>>) = 2 /\ <<e, f>>[1] = e /\ <<e, f>>[2] = f
      OBVIOUS
    <2>2. \A S : \A e \in S : <<e>> \in Seq(S) /\ Len(<<e>>) = 1 /\ <<e>>[1] = e
      OBVIOUS
    <2>3. << >> \in Seq(M) /\ Len(<< >>) = 0
      OBVIOUS
    <2> QED
      BY <1>1, <2>1, <2>2, <2>3, Zenon
  <1>7. \A j : j \notin 3..2
    OBVIOUS
  <1>8. Tells(Offline(p), p, FALSE) /\ Tells(Online(p), p, TRUE)
    BY <1>2, <1>3, <1>6, <1>7 DEF Tells
  <1> PICK v : v = Online(p) \o Discovery(p)
    OBVIOUS
  <1> PICK w : w = v \o Simulates(p)
    OBVIOUS
  <1>9. \/ v \in Seq(M) /\ Len(v) = 2 /\ v[1] = a /\ v[2] = b
        \/ v \in Seq(M) /\ Len(v) = 3 /\ v[1] = a /\ v[2] = b /\ v[3] = c
    <2>1. CASE Discovery(p) = << >>
      BY <1>2, <1>6, <2>1
    <2>2. CASE Discovery(p) = <<c>>
      BY <1>2, <1>6, <2>2
    <2> QED
      BY <1>4, <2>1, <2>2
  <1>10. /\ w \in Seq(M) /\ Len(w) = Len(v) + 1 /\ w[Len(v) + 1] = d
         /\ \A j \in 1..Len(v) : w[j] = v[j]
    <2>1. v \in Seq(M) /\ w = v \o <<d>>
      BY <1>5, <1>9
    <2> QED
      BY <1>6, <2>1
  <1>11. Tells(w, p, TRUE) /\ Coming(w, 0, {d})
    <2>1. CASE Len(v) = 2 /\ v[1] = a /\ v[2] = b
      <3>1. Len(w) = 3 /\ w[1] = a /\ w[2] = b /\ w[3] = d
        <4>1. 2 + 1 = 3 /\ 1 \in 1..2 /\ 2 \in 1..2
          OBVIOUS
        <4> QED
          BY <1>10, <2>1, <4>1
      <3>2. \A j \in 3..3 : j = 3
        OBVIOUS
      <3>3. 3 \in 1..3 /\ 3 > 0
        OBVIOUS
      <3> QED
        BY <1>10, <3>1, <3>2, <3>3 DEF Tells, Coming
    <2>2. CASE Len(v) = 3 /\ v[1] = a /\ v[2] = b /\ v[3] = c
      <3>1. Len(w) = 4 /\ w[1] = a /\ w[2] = b /\ w[3] = c /\ w[4] = d
        <4>1. 3 + 1 = 4 /\ 1 \in 1..3 /\ 2 \in 1..3 /\ 3 \in 1..3
          OBVIOUS
        <4> QED
          BY <1>10, <2>2, <4>1
      <3>2. \A j \in 3..4 : j = 3 \/ j = 4
        OBVIOUS
      <3>3. 4 \in 1..4 /\ 4 > 0
        OBVIOUS
      <3> QED
        BY <1>10, <3>1, <3>2, <3>3 DEF Tells, Coming
    <2> QED
      BY <1>9, <2>1, <2>2
  <1> QED
    BY <1>2, <1>3, <1>6, <1>8, <1>11

LEMMA TellsMeans ==
  ASSUME NEW p \in PahoClients, NEW up \in BOOLEAN, NEW w, Tells(w, p, up)
  PROVE  /\ Coming(w, 0, StatusMessages(p)) /\ Coming(w, 0, OwnMessages(p))
         /\ EndsIn(w, StatusMessages(p), {StatusMessage(p, up)})
         /\ EndsIn(w, OwnMessages(p), {OwnMessage(p, up)})
         /\ Len(w) = 2 => Followed(w, {Introduction(p)}, {})
  <1>1. /\ Introduction(p) \notin StatusMessages(p) \cup OwnMessages(p)
        /\ Offer(p) \notin StatusMessages(p) \cup OwnMessages(p)
        /\ StatusMessages(p) \cap OwnMessages(p) = {}
        /\ StatusMessage(p, up) \in StatusMessages(p) /\ OwnMessage(p, up) \in OwnMessages(p)
    <2>1. /\ \A m \in OwnMessages(p) : m.topic = peer_status(p)
          /\ \A m \in StatusMessages(p) : m.topic = status(component[p])
          /\ Introduction(p).topic = sim_discovery
      BY PeerTopics
    <2>2. Offer(p).topic = discovery(component[p])
      BY DEF Offer, Message
    <2>3. /\ peer_status(p) # sim_discovery /\ peer_status(p) # discovery(component[p])
          /\ status(component[p]) # sim_discovery /\ status(component[p]) # discovery(component[p])
          /\ status(component[p]) # peer_status(p)
      <3>1. /\ \A a, b, c, d, e : <<a, b>> # <<c, d, e>>
            /\ \A a, b, c, d : <<a, b>> = <<c, d>> => a = c /\ b = d
            /\ \A a, b, c, d, e, f : <<a, b, c>> = <<d, e, f>> => a = d /\ b = e /\ c = f
        OBVIOUS
      <3>2. "oasis" # "echo" /\ "status" # "discovery"
        OBVIOUS
      <3> QED
        BY <3>1, <3>2 DEF peer_status, status, discovery, sim_discovery
    <2>4. StatusMessage(p, up) \in StatusMessages(p) /\ OwnMessage(p, up) \in OwnMessages(p)
      BY DEF StatusMessages, OwnMessages
    <2> QED
      BY <2>1, <2>2, <2>3, <2>4
  <1>2. /\ Len(w) \in Nat /\ 1 \in 1..Len(w) /\ 2 \in 1..Len(w) /\ 1 > 0 /\ 2 > 0
        /\ \A j \in 1..Len(w) : j = 1 \/ j = 2 \/ j \in 3..Len(w)
        /\ w[1] = StatusMessage(p, up) /\ w[2] = OwnMessage(p, up)
        /\ \A j \in 3..Len(w) : w[j] \in {Introduction(p), Offer(p)}
    BY DEF Tells
  <1>3. Coming(w, 0, StatusMessages(p)) /\ Coming(w, 0, OwnMessages(p))
    BY <1>1, <1>2 DEF Coming
  <1>4. EndsIn(w, StatusMessages(p), {StatusMessage(p, up)})
    BY <1>1, <1>2 DEF EndsIn, Followed
  <1>5. EndsIn(w, OwnMessages(p), {OwnMessage(p, up)})
    BY <1>1, <1>2 DEF EndsIn, Followed
  <1>6. Len(w) = 2 => Followed(w, {Introduction(p)}, {})
    BY <1>1, <1>2 DEF Followed
  <1> QED
    BY <1>3, <1>4, <1>5, <1>6

\* A step that leaves a peer and its queue alone, or delivers nothing new.
LEMMA QueueStaysTrue ==
  ASSUME NEW d \in PahoClients, QueueTrue(d), QueueKeeps(d), running'[d] = running[d],
         d \in started => d \in started'
  PROVE  QueueTrue(d)'
  BY DEF QueueTrue, QueueKeeps, Keeps, EndsIn

LEMMA PeersPublish ==
  ASSUME PeersInv, NEW p \in PahoClients, NEW up \in BOOLEAN, NEW w, Tells(w, p, up), publish(p, w),
         running' = [running EXCEPT ![p] = up], introduced' = introduced,
         asked \subseteq asked', asked' \subseteq asked \cup {p},
         started \subseteq started', started' \subseteq started \cup {p},
         p \in started' => p \in started \/ Coming(w, 0, {Introduction(p)}),
         p \notin started' => Followed(w, {Introduction(p)}, {})
  PROVE  PeersInv'
  <1>0. /\ ClientsOK(PeerMessages) /\ running \in [PahoClients -> BOOLEAN]
        /\ asked \subseteq PahoClients /\ started \subseteq PahoClients
        /\ \A d \in PahoClients : QueueTrue(d) /\ StatusTopicTrue(d)
        /\ \A d \in asked : OwnTopicTrue(d)
        /\ IntroducedTrue
    BY DEF PeersInv
  <1>w. w \in Seq(PeerMessages[p])
    BY DEF Tells
  <1>1. /\ ClientsOK(PeerMessages)' /\ retained' = retained
        /\ \A d \in PahoClients : d # p => QueueKeeps(d)
        /\ \A S : ToCome(p, S) \/ Coming(w, 0, S) => Coming(outbox'[p], sent'[p], S)
        /\ \A S, T : Followed(w, S, T) /\ (Coming(w, 0, T) \/ Followed(outbox[p], S, T))
                       => Followed(outbox'[p], S, T)
    BY <1>0, <1>w, PublishStep DEF ToCome
  <1>2. /\ Coming(w, 0, StatusMessages(p)) /\ Coming(w, 0, OwnMessages(p))
        /\ EndsIn(w, StatusMessages(p), {StatusMessage(p, up)})
        /\ EndsIn(w, OwnMessages(p), {OwnMessage(p, up)})
    BY TellsMeans
  <1>3. running'[p] = up /\ \A d \in PahoClients : d # p => running'[d] = running[d]
    BY <1>0
  <1>4. QueueTrue(p)'
    <2>1. EndsIn(outbox'[p], StatusMessages(p), {StatusMessage(p, up)})
      BY <1>1, <1>2 DEF EndsIn
    <2>2. EndsIn(outbox'[p], OwnMessages(p), {OwnMessage(p, up)})
      BY <1>1, <1>2 DEF EndsIn
    <2>3. p \notin started' => Followed(outbox'[p], {Introduction(p)}, {})
      <3> SUFFICES ASSUME p \notin started' PROVE Followed(outbox'[p], {Introduction(p)}, {})
        OBVIOUS
      <3>1. Followed(outbox[p], {Introduction(p)}, {})
        BY <1>0 DEF QueueTrue
      <3> QED
        BY <1>1, <3>1
    <2> QED
      BY <1>3, <2>1, <2>2, <2>3 DEF QueueTrue
  <1>5. \A d \in PahoClients : QueueTrue(d)'
    <2> TAKE d \in PahoClients
    <2>1. CASE d # p
      BY <1>0, <1>1, <1>3, <2>1, QueueStaysTrue
    <2> QED
      BY <1>4, <2>1
  <1>6. \A d \in PahoClients : d # p => \A S : ToCome(d, S) => Coming(outbox'[d], sent'[d], S)
    BY <1>1 DEF QueueKeeps, Keeps, ToCome
  <1>7. \A d \in asked' : OwnTopicTrue(d)'
    <2> TAKE d \in asked'
    <2>1. CASE d = p
      BY <1>1, <1>2, <2>1 DEF OwnTopicTrue, ToCome
    <2>2. CASE d # p
      <3>1. d \in asked /\ d \in PahoClients /\ running'[d] = running[d]
        BY <1>0, <1>3, <2>2
      <3>2. OwnTopicTrue(d)
        BY <1>0, <3>1
      <3>3. ToCome(d, OwnMessages(d)) => ToCome(d, OwnMessages(d))'
        BY <1>6, <2>2, <3>1 DEF ToCome
      <3>4. Retained(peer_status(d))' <=> Retained(peer_status(d))
        BY <1>1 DEF Retained
      <3> QED
        BY <1>1, <3>1, <3>2, <3>3, <3>4 DEF OwnTopicTrue
    <2> QED
      BY <2>1, <2>2
  <1>8. \A d \in PahoClients : StatusTopicTrue(d)'
    <2> TAKE d \in PahoClients
    <2> PICK peers : peers = Peers(TopicBase(component[d]))
      OBVIOUS
    <2>0. peers \subseteq PahoClients
      BY DEF Peers
    <2> SUFFICES ASSUME peers \subseteq asked', \A e \in peers : ~ running'[e]
                 PROVE  \/ \E e \in peers : Coming(outbox'[e], sent'[e], StatusMessages(e))
                        \/ /\ status(component[d]) \in DOMAIN retained'
                           /\ retained'[status(component[d])] = status_offline
      BY DEF StatusTopicTrue, ToCome, Retained
    <2>1. CASE p \in peers
      BY <1>1, <1>2, <2>1
    <2>2. CASE p \notin peers
      <3>1. peers \subseteq asked /\ \A e \in peers : ~ running[e]
        BY <1>3, <2>0, <2>2
      <3>2. \/ \E e \in peers : ToCome(e, StatusMessages(e))
            \/ /\ status(component[d]) \in DOMAIN retained
               /\ retained[status(component[d])] = status_offline
        BY <1>0, <3>1 DEF StatusTopicTrue, Retained
      <3>3. CASE \E e \in peers : ToCome(e, StatusMessages(e))
        BY <1>6, <2>0, <2>2, <3>3
      <3> QED
        BY <1>1, <3>2, <3>3
    <2> QED
      BY <2>1, <2>2
  <1>9. IntroducedTrue'
    <2>1. \A d \in started' : d \in introduced \/ Coming(outbox'[d], sent'[d], {Introduction(d)})
      <3> TAKE d \in started'
      <3>1. CASE d = p
        <4>1. p \in started => p \in introduced \/ ToCome(p, {Introduction(p)})
          BY <1>0 DEF IntroducedTrue
        <4> QED
          BY <1>1, <3>1, <4>1
      <3>2. CASE d # p
        <4>1. d \in started /\ d \in PahoClients
          BY <1>0, <3>2
        <4>2. d \in introduced \/ ToCome(d, {Introduction(d)})
          BY <1>0, <4>1 DEF IntroducedTrue
        <4> QED
          BY <1>6, <3>2, <4>1, <4>2
      <3> QED
        BY <3>1, <3>2
    <2>2. [peer : started] \subseteq [peer : started']
      OBVIOUS
    <2> QED
      BY <1>0, <1>1, <2>1, <2>2 DEF IntroducedTrue, ToCome, Retained
  <1>10. running' \in [PahoClients -> BOOLEAN] /\ asked' \subseteq PahoClients /\ started' \subseteq PahoClients
    BY <1>0
  <1> QED
    BY <1>1, <1>5, <1>7, <1>8, <1>9, <1>10 DEF PeersInv

LEMMA PeersActs ==
  ASSUME PeersInv, NEW p \in PahoClients, Start(p) \/ Stop(p) \/ Heartbeat(p)
  PROVE  PeersInv'
  <1>0. running \in [PahoClients -> BOOLEAN] /\ asked \subseteq PahoClients
    BY DEF PeersInv
  <1>1. CASE Start(p)
    <2> PICK w : w = Online(p) \o Discovery(p) \o Simulates(p)
      OBVIOUS
    <2>1. /\ publish(p, w) /\ running' = [running EXCEPT ![p] = TRUE] /\ introduced' = introduced
          /\ asked' = asked \cup {p} /\ started' = started \cup {p}
      BY <1>1 DEF Start, Count
    <2>2. Tells(w, p, TRUE) /\ Coming(w, 0, {Introduction(p)})
      BY TellsIs
    <2>3. /\ asked \subseteq asked' /\ asked' \subseteq asked \cup {p}
          /\ started \subseteq started' /\ started' \subseteq started \cup {p} /\ p \in started'
      BY <2>1
    <2>4. TRUE \in BOOLEAN
      OBVIOUS
    <2> QED
      BY <2>1, <2>2, <2>3, <2>4, PeersPublish
  <1>2. CASE Stop(p)
    <2> PICK w : w = Offline(p)
      OBVIOUS
    <2>1. /\ publish(p, w) /\ running' = [running EXCEPT ![p] = FALSE] /\ introduced' = introduced
          /\ asked' = asked \cup {p} /\ started' = started
      BY <1>2 DEF Stop, Count
    <2>2. Tells(w, p, FALSE) /\ Followed(w, {Introduction(p)}, {})
      BY TellsIs, TellsMeans
    <2>3. /\ asked \subseteq asked' /\ asked' \subseteq asked \cup {p}
          /\ started \subseteq started' /\ started' \subseteq started \cup {p}
          /\ p \in started' => p \in started
      BY <2>1
    <2>4. FALSE \in BOOLEAN
      OBVIOUS
    <2> QED
      BY <2>1, <2>2, <2>3, <2>4, PeersPublish
  <1>3. CASE Heartbeat(p)
    <2> PICK w : w = Online(p)
      OBVIOUS
    <2>1. /\ publish(p, w) /\ running[p] /\ running' = running /\ introduced' = introduced
          /\ asked' = asked /\ started' = started
      BY <1>3 DEF Heartbeat, peersVars
    <2>2. Tells(w, p, TRUE) /\ Followed(w, {Introduction(p)}, {})
      BY TellsIs, TellsMeans
    <2>3. /\ asked \subseteq asked' /\ asked' \subseteq asked \cup {p}
          /\ started \subseteq started' /\ started' \subseteq started \cup {p}
          /\ p \in started' => p \in started
      BY <2>1
    <2>4. running' = [running EXCEPT ![p] = TRUE] /\ TRUE \in BOOLEAN
      BY <1>0, <2>1
    <2> QED
      BY <2>1, <2>2, <2>3, <2>4, PeersPublish
  <1> QED
    BY <1>1, <1>2, <1>3

\* The broker receives nothing; what it keeps of a component may become its will.
LEMMA PeersQuiet ==
  ASSUME PeersInv, NEW p \in PahoClients, Acknowledge(p) \/ Drop(p, will(p)) \/ Reconnect(p),
         UNCHANGED peersVars
  PROVE  PeersInv'
  <1>0. /\ ClientsOK(PeerMessages) /\ running \in [PahoClients -> BOOLEAN]
        /\ asked \subseteq PahoClients /\ started \subseteq PahoClients
        /\ \A d \in PahoClients : QueueTrue(d) /\ StatusTopicTrue(d)
        /\ \A d \in asked : OwnTopicTrue(d)
        /\ IntroducedTrue
    BY DEF PeersInv
  <1>1. running' = running /\ asked' = asked /\ started' = started /\ introduced' = introduced
    BY DEF peersVars
  <1>2. ClientsOK(PeerMessages)' /\ \A d \in PahoClients : QueueKeeps(d)
    BY <1>0, QuietStep
  <1>3. \A d \in PahoClients : \A S : ToCome(d, S) => Coming(outbox'[d], sent'[d], S)
    BY <1>2 DEF QueueKeeps, Keeps, ToCome
  <1>4. /\ DOMAIN retained \subseteq DOMAIN retained'
        /\ \A t \in DOMAIN retained : \/ retained'[t] = retained[t]
                                      \/ t = status(component[p]) /\ retained'[t] = status_offline
        /\ \A t \in DOMAIN retained' : t \in DOMAIN retained \/ t = status(component[p])
    <2>1. CASE Drop(p, will(p))
      <3>1. retained' = Keep(will(p))
        BY <2>1 DEF Drop
      <3>2. will(p) = << >> \/ will(p) = Only(status(component[p]), status_offline)
        BY DEF will
      <3>3. CASE will(p) = << >>
        BY <3>1, <3>3, KeepNothing
      <3>4. CASE will(p) = Only(status(component[p]), status_offline)
        BY <3>1, <3>4, KeepIs
      <3> QED
        BY <3>2, <3>3, <3>4
    <2>2. CASE retained' = retained
      BY <2>2
    <2> QED
      BY <2>1, <2>2 DEF Acknowledge, Reconnect
  <1>t. \A d : status(component[p]) # peer_status(d) /\ status(component[p]) # sim_discovery
    <2>1. /\ \A a, b, c, d, e : <<a, b>> # <<c, d, e>>
      OBVIOUS
    <2> QED
      BY <2>1 DEF status, peer_status, sim_discovery
  <1>5. \A d \in PahoClients : QueueTrue(d)'
    BY <1>0, <1>1, <1>2, QueueStaysTrue
  <1>6. \A d \in asked' : OwnTopicTrue(d)'
    <2> TAKE d \in asked'
    <2>1. OwnTopicTrue(d) /\ d \in PahoClients
      BY <1>0, <1>1
    <2>2. CASE ToCome(d, OwnMessages(d))
      <3>1. Coming(outbox'[d], sent'[d], OwnMessages(d))
        BY <1>3, <2>1, <2>2
      <3> QED
        BY <3>1 DEF OwnTopicTrue, ToCome
    <2>3. CASE /\ peer_status(d) \in DOMAIN retained
               /\ retained[peer_status(d)] = OwnMessage(d, running[d]).payload
      <3>1. /\ peer_status(d) \in DOMAIN retained'
            /\ retained'[peer_status(d)] = OwnMessage(d, running[d]).payload
        BY <1>4, <1>t, <2>3
      <3> QED
        BY <1>1, <3>1 DEF OwnTopicTrue, Retained
    <2> QED
      BY <2>1, <2>2, <2>3 DEF OwnTopicTrue, Retained
  <1>7. \A d \in PahoClients : StatusTopicTrue(d)'
    <2> TAKE d \in PahoClients
    <2> PICK peers : peers = Peers(TopicBase(component[d]))
      OBVIOUS
    <2>0. peers \subseteq PahoClients
      BY DEF Peers
    <2> SUFFICES ASSUME peers \subseteq asked, \A e \in peers : ~ running[e]
                 PROVE  \/ \E e \in peers : Coming(outbox'[e], sent'[e], StatusMessages(e))
                        \/ /\ status(component[d]) \in DOMAIN retained'
                           /\ retained'[status(component[d])] = status_offline
      BY <1>1 DEF StatusTopicTrue, ToCome, Retained
    <2>2. \/ \E e \in peers : ToCome(e, StatusMessages(e))
          \/ /\ status(component[d]) \in DOMAIN retained
             /\ retained[status(component[d])] = status_offline
      BY <1>0 DEF StatusTopicTrue, Retained
    <2>3. CASE \E e \in peers : ToCome(e, StatusMessages(e))
      BY <1>3, <2>0, <2>3
    <2> QED
      BY <1>4, <2>2, <2>3
  <1>8. IntroducedTrue'
    <2>1. \A d \in started : d \in introduced \/ Coming(outbox'[d], sent'[d], {Introduction(d)})
      <3> TAKE d \in started
      <3>1. d \in introduced \/ ToCome(d, {Introduction(d)})
        BY <1>0 DEF IntroducedTrue
      <3> QED
        BY <1>0, <1>3, <3>1
    <2>2. introduced # {} => sim_discovery \in DOMAIN retained'
      BY <1>0, <1>4 DEF IntroducedTrue, Retained
    <2>3. sim_discovery \in DOMAIN retained' => retained'[sim_discovery] \in [peer : started]
      BY <1>0, <1>4, <1>t DEF IntroducedTrue, Retained
    <2>4. introduced \subseteq started
      BY <1>0 DEF IntroducedTrue
    <2> QED
      BY <1>1, <2>1, <2>2, <2>3, <2>4 DEF IntroducedTrue, ToCome, Retained
  <1> QED
    BY <1>0, <1>1, <1>2, <1>5, <1>6, <1>7, <1>8 DEF PeersInv

\* The broker receives a message of a peer.
LEMMA PeersForward ==
  ASSUME PeersInv, NEW p \in PahoClients, ForwardPresence(p)
  PROVE  PeersInv'
  <1>0. /\ ClientsOK(PeerMessages) /\ running \in [PahoClients -> BOOLEAN]
        /\ asked \subseteq PahoClients /\ started \subseteq PahoClients
        /\ \A d \in PahoClients : QueueTrue(d) /\ StatusTopicTrue(d)
        /\ \A d \in asked : OwnTopicTrue(d)
        /\ IntroducedTrue
    BY DEF PeersInv
  <1> PICK m : m = NextOf(p)
    OBVIOUS
  <1>1. /\ Forward(p) /\ running' = running /\ asked' = asked /\ started' = started
        /\ introduced' = IF m.topic = sim_discovery THEN introduced \cup {m.payload.peer} ELSE introduced
    BY DEF ForwardPresence
  <1>2. /\ ClientsOK(PeerMessages)' /\ m \in PeerMessages[p] /\ QueueDelivers(p, m)
        /\ \A d \in PahoClients : d # p => QueueKeeps(d)
    BY <1>0, <1>1, ForwardStep
  <1>3. /\ m.retain
        /\ \A d : m.topic = peer_status(d) => d = p /\ m \in OwnMessages(p)
        /\ \A d : m.topic = status(d) => m \in StatusMessages(p) /\ TopicBase(d) = TopicBase(component[p])
        /\ m.topic = sim_discovery <=> m = Introduction(p)
    BY <1>2, PeerTopics
  <1>t. /\ \A e \in OwnMessages(p) : e.topic = peer_status(p)
        /\ \A e \in StatusMessages(p) : e.topic = status(component[p])
        /\ Introduction(p).topic = sim_discovery /\ Introduction(p).payload = [peer |-> p]
    BY PeerTopics
  <1>4. retained' = Keep(Only(m.topic, m.payload))
    BY <1>1, <1>3 DEF Forward
  <1>5. /\ DOMAIN retained' = {m.topic} \cup DOMAIN retained /\ retained'[m.topic] = m.payload
        /\ \A t \in DOMAIN retained : t # m.topic => retained'[t] = retained[t]
    BY <1>4, KeepIs
  <1>6. /\ \A S : ToCome(p, S) => m \in S \/ Coming(outbox'[p], sent'[p], S)
        /\ \A S, T : Followed(outbox[p], S, T) =>
             Followed(outbox'[p], S, T) /\ (m \in S => Coming(outbox'[p], sent'[p], T))
    BY <1>2 DEF QueueDelivers, Delivers, ToCome
  <1>7. \A d \in PahoClients : d # p => \A S : ToCome(d, S) => Coming(outbox'[d], sent'[d], S)
    BY <1>2 DEF QueueKeeps, Keeps, ToCome
  <1>8. \A d \in PahoClients : QueueTrue(d)'
    <2> TAKE d \in PahoClients
    <2>1. CASE d # p
      BY <1>0, <1>1, <1>2, <2>1, QueueStaysTrue
    <2>2. CASE d = p
      BY <1>0, <1>1, <1>6, <2>2 DEF QueueTrue, EndsIn
    <2> QED
      BY <2>1, <2>2
  <1>9. \A d \in asked' : OwnTopicTrue(d)'
    <2> TAKE d \in asked'
    <2>1. OwnTopicTrue(d) /\ d \in PahoClients
      BY <1>0, <1>1
    <2> SUFFICES ASSUME ~ Coming(outbox'[d], sent'[d], OwnMessages(d))
                 PROVE  /\ peer_status(d) \in DOMAIN retained'
                        /\ retained'[peer_status(d)] = OwnMessage(d, running[d]).payload
      BY <1>1 DEF OwnTopicTrue, ToCome, Retained
    <2>2. CASE m.topic = peer_status(d)
      <3>1. d = p /\ m \in OwnMessages(p)
        BY <1>3, <2>2
      <3>2. Followed(outbox[p], OwnMessages(p) \ {OwnMessage(p, running[p])}, OwnMessages(p))
        BY <1>0 DEF QueueTrue, EndsIn
      <3>3. m = OwnMessage(p, running[p])
        BY <1>6, <3>1, <3>2
      <3> QED
        BY <1>5, <2>2, <3>1, <3>3
    <2>3. CASE m.topic # peer_status(d)
      <3>1. ~ ToCome(d, OwnMessages(d))
        <4>1. CASE d = p
          BY <1>6, <1>t, <2>3, <4>1
        <4>2. CASE d # p
          BY <1>7, <2>1, <4>2
        <4> QED
          BY <4>1, <4>2
      <3>2. /\ peer_status(d) \in DOMAIN retained
            /\ retained[peer_status(d)] = OwnMessage(d, running[d]).payload
        BY <2>1, <3>1 DEF OwnTopicTrue, Retained
      <3> QED
        BY <1>5, <2>3, <3>2
    <2> QED
      BY <2>2, <2>3
  <1>10. \A d \in PahoClients : StatusTopicTrue(d)'
    <2> TAKE d \in PahoClients
    <2> PICK peers : peers = Peers(TopicBase(component[d]))
      OBVIOUS
    <2>0. peers \subseteq PahoClients
      BY DEF Peers
    <2> SUFFICES ASSUME peers \subseteq asked, \A e \in peers : ~ running[e],
                        \A e \in peers : ~ Coming(outbox'[e], sent'[e], StatusMessages(e))
                 PROVE  /\ status(component[d]) \in DOMAIN retained'
                        /\ retained'[status(component[d])] = status_offline
      BY <1>1 DEF StatusTopicTrue, ToCome, Retained
    <2>2. CASE m.topic = status(component[d])
      <3>1. m \in StatusMessages(p) /\ TopicBase(component[d]) = TopicBase(component[p])
        BY <1>3, <2>2
      <3>2. p \in peers
        BY <3>1 DEF Peers
      <3>3. Followed(outbox[p], StatusMessages(p) \ {StatusMessage(p, running[p])}, StatusMessages(p))
        BY <1>0 DEF QueueTrue, EndsIn
      <3>4. m = StatusMessage(p, running[p])
        BY <1>6, <3>1, <3>2, <3>3
      <3>5. m.payload = status_offline
        BY <3>2, <3>4 DEF StatusMessage, Message
      <3> QED
        BY <1>5, <2>2, <3>5
    <2>3. CASE m.topic # status(component[d])
      <3>1. ~ \E e \in peers : ToCome(e, StatusMessages(e))
        <4> SUFFICES ASSUME NEW e \in peers, ToCome(e, StatusMessages(e)) PROVE FALSE
          OBVIOUS
        <4>1. e = p
          BY <1>7, <2>0
        <4>2. m \in StatusMessages(p)
          BY <1>6, <4>1
        <4>3. m.topic = status(component[p]) /\ TopicBase(component[p]) = TopicBase(component[d])
          BY <1>t, <4>1, <4>2 DEF Peers
        <4> QED
          BY <2>3, <4>3 DEF status
      <3>2. /\ status(component[d]) \in DOMAIN retained
            /\ retained[status(component[d])] = status_offline
        BY <1>0, <3>1 DEF StatusTopicTrue, Retained
      <3> QED
        BY <1>5, <2>3, <3>2
    <2> QED
      BY <2>2, <2>3
  <1>11. IntroducedTrue'
    <2>1. m = Introduction(p) => p \in started
      <3> SUFFICES ASSUME m = Introduction(p), p \notin started PROVE FALSE
        OBVIOUS
      <3>1. Followed(outbox[p], {Introduction(p)}, {})
        BY <1>0 DEF QueueTrue
      <3>2. Coming(outbox'[p], sent'[p], {})
        BY <1>6, <3>1
      <3> QED
        BY <3>2 DEF Coming
    <2>2. /\ m = Introduction(p) => introduced' = introduced \cup {p} /\ m.payload = [peer |-> p]
          /\ m # Introduction(p) => introduced' = introduced
      <3>1. [peer |-> p].peer = p
        OBVIOUS
      <3> QED
        BY <1>1, <1>3, <1>t, <3>1
    <2>3. introduced' \subseteq started
      BY <1>0, <2>1, <2>2 DEF IntroducedTrue
    <2>4. \A d \in started : d \in introduced' \/ Coming(outbox'[d], sent'[d], {Introduction(d)})
      <3> TAKE d \in started
      <3>1. d \in introduced \/ ToCome(d, {Introduction(d)})
        BY <1>0 DEF IntroducedTrue
      <3>2. CASE d = p
        BY <1>6, <2>2, <3>1, <3>2
      <3>3. CASE d # p
        BY <1>0, <1>7, <2>2, <3>1, <3>3
      <3> QED
        BY <3>2, <3>3
    <2>5. introduced' # {} => sim_discovery \in DOMAIN retained'
      <3>1. CASE m = Introduction(p)
        BY <1>3, <1>5, <3>1
      <3>2. CASE m # Introduction(p)
        BY <1>0, <1>5, <2>2, <3>2 DEF IntroducedTrue, Retained
      <3> QED
        BY <3>1, <3>2
    <2>6. sim_discovery \in DOMAIN retained' => retained'[sim_discovery] \in [peer : started]
      <3>1. CASE m = Introduction(p)
        BY <1>3, <1>5, <2>1, <2>2, <3>1
      <3>2. CASE m # Introduction(p)
        BY <1>0, <1>3, <1>5, <3>2 DEF IntroducedTrue, Retained
      <3> QED
        BY <3>1, <3>2
    <2> QED
      BY <1>1, <2>3, <2>4, <2>5, <2>6 DEF IntroducedTrue, ToCome, Retained
  <1> QED
    BY <1>0, <1>1, <1>2, <1>8, <1>9, <1>10, <1>11 DEF PeersInv

LEMMA PeersStart ==
  ASSUME BrokerInit, PeersInit
  PROVE  PeersInv
  <1>1. /\ \A d \in PahoClients : outbox[d] = << >> /\ sent[d] = 0
        /\ DOMAIN outbox = PahoClients /\ sent \in [PahoClients -> Nat]
        /\ connected \in [PahoClients -> BOOLEAN] /\ DOMAIN retained = {}
    <2>1. DOMAIN << >> = {} /\ 0 \in Nat
      OBVIOUS
    <2> QED
      BY <2>1 DEF BrokerInit
  <1>2. /\ running = [d \in PahoClients |-> FALSE] /\ asked = {} /\ started = {} /\ introduced = {}
    BY DEF PeersInit
  <1>3. ClientsOK(PeerMessages)
    <2>1. \A S : << >> \in Seq(S) /\ Len(<< >>) = 0 /\ 0 <= 0
      OBVIOUS
    <2> QED
      BY <1>1, <2>1 DEF ClientsOK
  <1>4. \A d \in PahoClients : QueueTrue(d)
    <2> TAKE d \in PahoClients
    <2>1. \A S, T : Followed(<< >>, S, T)
      BY NothingComes
    <2> QED
      BY <1>1, <2>1 DEF QueueTrue, EndsIn
  <1>5. \A d \in PahoClients : StatusTopicTrue(d)
    <2> TAKE d \in PahoClients
    <2>1. d \in Peers(TopicBase(component[d]))
      BY DEF Peers
    <2> QED
      BY <1>2, <2>1 DEF StatusTopicTrue
  <1>6. IntroducedTrue
    BY <1>1, <1>2 DEF IntroducedTrue, Retained
  <1>7. running \in [PahoClients -> BOOLEAN]
    BY <1>2
  <1> QED
    BY <1>2, <1>3, <1>4, <1>5, <1>6, <1>7 DEF PeersInv

LEMMA PeersStutter ==
  ASSUME PeersInv, UNCHANGED <<brokerVars, peersVars>>
  PROVE  PeersInv'
  <1>1. /\ outbox' = outbox /\ sent' = sent /\ retained' = retained /\ connected' = connected
        /\ running' = running /\ asked' = asked /\ started' = started /\ introduced' = introduced
    BY DEF brokerVars, peersVars
  <1> QED
    BY <1>1 DEF PeersInv, ClientsOK, QueueTrue, OwnTopicTrue, StatusTopicTrue, IntroducedTrue,
                ToCome, Retained

\* What is said when all has been delivered.
LEMMA PeersSettle ==
  ASSUME PeersInv
  PROVE  PeerTopicsTrue
  <1> SUFFICES ASSUME \A d \in PahoClients : outbox[d] = << >>
               PROVE  PeerTopicsTrue!2
    BY DEF PeerTopicsTrue, Delivered
  <1>1. \A d \in PahoClients : \A S : ~ ToCome(d, S)
    BY NothingComes DEF ToCome
  <1>2. \A p \in asked : retained[peer_status(p)] =
                           [peer |-> p, status |-> IF running[p] THEN "online" ELSE "offline"]
    <2> TAKE p \in asked
    <2>1. p \in PahoClients /\ OwnTopicTrue(p)
      BY DEF PeersInv
    <2>2. retained[peer_status(p)] = OwnMessage(p, running[p]).payload
      BY <1>1, <2>1 DEF OwnTopicTrue
    <2> QED
      BY <2>2 DEF OwnMessage, Message
  <1>3. \A b \in Bases :
          (Peers(b) \subseteq asked /\ \A p \in Peers(b) : ~ running[p])
            => \A p \in Peers(b) : retained[status(component[p])] = status_offline
    <2> SUFFICES ASSUME NEW b \in Bases, Peers(b) \subseteq asked, \A p \in Peers(b) : ~ running[p],
                        NEW p \in Peers(b)
                 PROVE  retained[status(component[p])] = status_offline
      OBVIOUS
    <2>1. p \in PahoClients /\ TopicBase(component[p]) = b /\ Peers(b) \subseteq PahoClients
      BY DEF Peers
    <2>2. StatusTopicTrue(p)
      BY <2>1 DEF PeersInv
    <2> QED
      BY <1>1, <2>1, <2>2 DEF StatusTopicTrue
  <1>4. introduced = started
    BY <1>1 DEF PeersInv, IntroducedTrue
  <1>5. started # {} => retained[sim_discovery].peer \in started
    BY <1>4 DEF PeersInv, IntroducedTrue
  <1> QED
    BY <1>2, <1>3, <1>4, <1>5

\* For any peers and components on a network, however often they are started and
\* stopped and whichever connections are lost: when all messages have been
\* delivered the topic of each peer says whether it runs, that of a component whose
\* peers have all been stopped says offline, and exactly the peers that were started
\* have been introduced.
THEOREM PeerTopicsTell == PeersSpec => []PeerTopicsTrue
  <1>1. BrokerInit /\ PeersInit => PeersInv
    BY PeersStart
  <1>2. PeersInv /\ [\/ PeersCall
                     \/ \E p \in PahoClients : Heartbeat(p) \/ NetworkOfPeers(p)]_<<brokerVars, peersVars>>
          => PeersInv'
    <2> SUFFICES ASSUME PeersInv,
                        [\/ PeersCall
                         \/ \E p \in PahoClients : Heartbeat(p) \/ NetworkOfPeers(p)]_<<brokerVars, peersVars>>
                 PROVE  PeersInv'
      OBVIOUS
    <2>1. CASE PeersCall
      BY <2>1, PeersActs DEF PeersCall
    <2>2. ASSUME NEW p \in PahoClients, Heartbeat(p)
          PROVE  PeersInv'
      BY <2>2, PeersActs
    <2>3. ASSUME NEW p \in PahoClients, NetworkOfPeers(p)
          PROVE  PeersInv'
      <3>1. CASE ForwardPresence(p)
        BY <3>1, PeersForward
      <3>2. CASE (Acknowledge(p) \/ Drop(p, will(p)) \/ Reconnect(p)) /\ UNCHANGED peersVars
        BY <3>2, PeersQuiet
      <3> QED
        BY <2>3, <3>1, <3>2 DEF NetworkOfPeers
    <2>4. CASE UNCHANGED <<brokerVars, peersVars>>
      BY <2>4, PeersStutter
    <2> QED
      BY <2>1, <2>2, <2>3, <2>4
  <1>3. PeersInv => PeerTopicsTrue
    BY PeersSettle
  <1> QED
    BY <1>1, <1>2, <1>3, PTL DEF PeersSpec

---------------------------------------------------------------------------
(* The status of interfaces.                                                 *)

Topics == {EchoStatus, WebUIStatus}
Voice == command("dawn")
Sound == command("mirage")
Events ==
  [change : {"registered", "swapped", "unregistered"}, interface : Interfaces,
   is_simulated : BOOLEAN, was_simulated : BOOLEAN \cup {Unknown}]

\* What a process publishes is about the interfaces it tracks.
EventMessages ==
  [c \in PahoClients |->
     {m \in [topic : Topics \cup {Voice, Sound}, payload : Events, retain : BOOLEAN] :
        c \in Owner[m.payload.interface] /\ (m.retain <=> m.topic = EchoStatus)}]

About(topic, i) ==
  {m \in [topic : {topic}, payload : Events, retain : BOOLEAN] : m.payload.interface = i}

\* What a subscriber learns from an event, and the messages it learns it from.
ModeIn(event) == IF event.change = "unregistered" THEN Untracked ELSE event.is_simulated
Teaching(topic, i, mode) == {m \in About(topic, i) : ModeIn(m.payload) = mode}
Announcing(i, mode) == {m \in About(Voice, i) : m.payload.is_simulated = mode}

\* Of every interface a process tracks, the last events it has queued are the truth;
\* after an announcement comes the sound.
EventsTrue(c, i) ==
  /\ \A topic \in Topics : EndsIn(outbox[c], About(topic, i), Teaching(topic, i, tracked[c][i]))
  /\ EndsIn(outbox[c], About(Voice, i), Announcing(i, simulated[c][i]))
  /\ Followed(outbox[c], About(Voice, i), About(Sound, i))

\* What is said of an interface is the truth in a process, or that process has still
\* to say something of it.
SaidTrue(topic, i, mode) ==
  \E c \in Owner[i] : ToCome(c, About(topic, i)) \/ mode = tracked[c][i]

TopicOf(s) == IF s = WebUI THEN WebUIStatus ELSE EchoStatus

KnownTrue(s) ==
  /\ \A i \in Interfaces : known[s][i] # Unknown => SaidTrue(TopicOf(s), i, known[s][i])
  /\ s # WebUI /\ Retained(EchoStatus) => \E i \in Interfaces : known[s][i] # Unknown

EarlyTrue(s) ==
  \A i \in Interfaces : \A c \in PahoClients : Owner[i] = {c} /\ known[s][i] = Unknown =>
    ToCome(c, About(TopicOf(s), i)) \/ tracked[c][i] = Untracked

RetainedTrue ==
  /\ DOMAIN retained \subseteq {EchoStatus}
  /\ Retained(EchoStatus) =>
       /\ retained[EchoStatus] \in Events
       /\ SaidTrue(EchoStatus, retained[EchoStatus].interface, ModeIn(retained[EchoStatus]))
  /\ changes > 0 => \/ Retained(EchoStatus)
                    \/ \E i \in Interfaces : \E c \in Owner[i] : ToCome(c, About(EchoStatus, i))

ChannelTypes ==
  /\ ClientsOK(EventMessages)
  /\ simulated \in [PahoClients -> [Interfaces -> BOOLEAN]]
  /\ tracked \in [PahoClients -> [Interfaces -> BOOLEAN \cup {Untracked}]]
  /\ known \in [Subscribers -> [Interfaces -> BOOLEAN \cup {Untracked, Unknown}]]
  /\ spoken \in [Interfaces -> BOOLEAN \cup {Unknown}]
  /\ listening \subseteq Subscribers /\ FromStart \subseteq listening
  /\ alerts \subseteq Interfaces /\ changes \in Nat

KnownInv ==
  /\ ChannelTypes /\ RetainedTrue
  /\ \A i \in Interfaces : \A c \in Owner[i] : EventsTrue(c, i)
  /\ \A s \in listening : KnownTrue(s)
  /\ \A s \in FromStart : EarlyTrue(s)
  /\ \A s \in Subscribers \ listening : \A i \in Interfaces : known[s][i] = Unknown

\* The mode announced of an interface is the one it has, or the announcement is on
\* its way; every announcement has its sound, and no sound comes before it.
SpokenTrue(i) ==
  /\ \A c \in PahoClients : Owner[i] = {c} =>
       \/ ToCome(c, About(Voice, i))
       \/ IF spoken[i] = Unknown THEN simulated[c][i] ELSE spoken[i] = simulated[c][i]
  /\ spoken[i] # Unknown => i \in alerts \/ \E c \in Owner[i] : ToCome(c, About(Sound, i))
  /\ spoken[i] = Unknown => /\ i \notin alerts
                            /\ \A c \in Owner[i] :
                                 After(outbox[c], sent[c], About(Voice, i), About(Sound, i))

SpokenInv == KnownInv /\ \A i \in Interfaces : SpokenTrue(i)

\* A list with one more message.
Grown(r, v, x, n) == Len(r) = n + 1 /\ r[n + 1] = x /\ \A j \in 1..n : r[j] = v[j]
LEMMA OneMore ==
  ASSUME NEW M, NEW v \in Seq(M), NEW x \in M, NEW n \in Nat, Len(v) = n
  PROVE  v \o <<x>> \in Seq(M) /\ Grown(v \o <<x>>, v, x, n)
  <1>1. <<x>> \in Seq(M) /\ Len(<<x>>) = 1 /\ <<x>>[1] = x
    OBVIOUS
  <1> QED
    BY <1>1 DEF Grown

\* Lists of two and of four messages.
LEMMA TwoMessages ==
  ASSUME NEW M, NEW a \in M, NEW b \in M, NEW w, w = <<a>> \o << >> \o << >> \o <<b>>
  PROVE  /\ w \in Seq(M)
         /\ \A S : a \in S \/ b \in S => Coming(w, 0, S)
         /\ \A S, T : b \notin S /\ (a \in S => b \in T) => Followed(w, S, T)
         /\ \A S, T : a \notin T /\ b \notin T => After(w, 0, S, T)
  <1>1. <<a>> \o << >> \o << >> = <<a>>
    OBVIOUS
  <1>2. Len(w) = 2 /\ w[1] = a /\ w[2] = b /\ w \in Seq(M)
    <2>1. <<a>> \in Seq(M) /\ Len(<<a>>) = 1 /\ <<a>>[1] = a /\ 1 \in 1..1 /\ 1 + 1 = 2 /\ 1 \in Nat
      OBVIOUS
    <2>2. w = <<a>> \o <<b>>
      BY <1>1
    <2>3. <<a>> \o <<b>> \in Seq(M) /\ Grown(<<a>> \o <<b>>, <<a>>, b, 1)
      BY <2>1, OneMore
    <2> QED
      BY <2>1, <2>2, <2>3 DEF Grown
  <1>3. /\ \A j \in 1..2 : j = 1 \/ j = 2
        /\ 1 \in 1..2 /\ 2 \in 1..2 /\ 1 > 0 /\ 2 > 0 /\ 2 > 1
    OBVIOUS
  <1>4. \A S : a \in S \/ b \in S => Coming(w, 0, S)
    BY <1>2, <1>3 DEF Coming
  <1>5. \A S, T : b \notin S /\ (a \in S => b \in T) => Followed(w, S, T)
    BY <1>2, <1>3 DEF Coming, Followed
  <1>6. \A S, T : a \notin T /\ b \notin T => After(w, 0, S, T)
    BY <1>2, <1>3 DEF After
  <1> QED
    BY <1>2, <1>4, <1>5, <1>6, Zenon

FourSaid(w, a, b, d, f) ==
  /\ \A S : a \in S \/ b \in S \/ f \in S => Coming(w, 0, S)
  /\ \A S, T : (a \in S => f \in T) /\ (b \in S => d \in T) /\ d \notin S /\ f \notin S
               => Followed(w, S, T)
  /\ \A S, T : a \notin T /\ b \notin T /\ f \notin T /\ (d \in T => b \in S) => After(w, 0, S, T)

LEMMA FourMessages ==
  ASSUME NEW M, NEW a \in M, NEW b \in M, NEW d \in M, NEW f \in M,
         NEW w, w = <<a>> \o <<b>> \o <<d>> \o <<f>>
  PROVE  /\ w \in Seq(M)
         /\ FourSaid(w, a, b, d, f)
  <1>s. <<a>> \in Seq(M) /\ Len(<<a>>) = 1 /\ <<a>>[1] = a /\ 1 \in Nat /\ 2 \in Nat /\ 3 \in Nat
    OBVIOUS
  <1>t. /\ 1 \in 1..1 /\ 1 \in 1..2 /\ 2 \in 1..2 /\ 1 \in 1..3 /\ 2 \in 1..3 /\ 3 \in 1..3
        /\ 1 + 1 = 2 /\ 2 + 1 = 3 /\ 3 + 1 = 4
    OBVIOUS
  <1> DEFINE l == <<a>> \o <<b>>
             r == l \o <<d>>
  <1>k. w = r \o <<f>>
    OBVIOUS
  <1>l. l \in Seq(M) /\ Grown(l, <<a>>, b, 1)
    BY <1>s, OneMore
  <1> HIDE DEF l
  <1>m. Len(l) = 2 /\ l[1] = a /\ l[2] = b
    BY <1>l, <1>t, <1>s DEF Grown
  <1>o. r \in Seq(M) /\ Grown(r, l, d, 2)
    BY <1>l, <1>m, <1>s, OneMore
  <1> HIDE DEF r
  <1>p. Len(r) = 3 /\ r[1] = a /\ r[2] = b /\ r[3] = d
    BY <1>m, <1>o, <1>t DEF Grown
  <1>u. w \in Seq(M) /\ Grown(w, r, f, 3)
    <2>1. r \o <<f>> \in Seq(M) /\ Grown(r \o <<f>>, r, f, 3)
      BY <1>o, <1>p, <1>s, OneMore
    <2> QED
      BY <1>k, <2>1, Zenon
  <1>2. Len(w) = 4 /\ w[1] = a /\ w[2] = b /\ w[3] = d /\ w[4] = f /\ w \in Seq(M)
    BY <1>p, <1>t, <1>u DEF Grown
  <1>3. /\ \A j \in 1..4 : j = 1 \/ j = 2 \/ j = 3 \/ j = 4
        /\ 1 \in 1..4 /\ 2 \in 1..4 /\ 3 \in 1..4 /\ 4 \in 1..4
        /\ 1 > 0 /\ 2 > 0 /\ 4 > 0 /\ 3 > 2 /\ 4 > 1 /\ 2 \in 1..(3 - 1)
    OBVIOUS
  <1>4. \A S : a \in S \/ b \in S \/ f \in S => Coming(w, 0, S)
    BY <1>2, <1>3 DEF Coming
  <1>5. ASSUME NEW S, NEW T, a \in S => f \in T, b \in S => d \in T, d \notin S, f \notin S
        PROVE  Followed(w, S, T)
    <2>1. w[1] \in S => Coming(w, 1, T)
      BY <1>2, <1>3, <1>5 DEF Coming
    <2>2. w[2] \in S => Coming(w, 2, T)
      BY <1>2, <1>3, <1>5 DEF Coming
    <2>3. w[3] \notin S /\ w[4] \notin S
      BY <1>2, <1>5
    <2> QED
      BY <1>2, <1>3, <2>1, <2>2, <2>3 DEF Followed
  <1>6. \A S, T : a \notin T /\ b \notin T /\ f \notin T /\ (d \in T => b \in S) => After(w, 0, S, T)
    BY <1>2, <1>3 DEF After
  <1> QED
    BY <1>2, <1>4, <1>5, <1>6 DEF FourSaid

LEMMA TopicsDiffer ==
  /\ EchoStatus # WebUIStatus /\ Voice # Sound
  /\ EchoStatus # Voice /\ EchoStatus # Sound /\ WebUIStatus # Voice /\ WebUIStatus # Sound
  <1>1. /\ \A a, b, c, d, e : <<a, b>> # <<c, d, e>>
        /\ \A a, b, c : <<a>> # <<b, c>>
        /\ \A a, b, c, d : <<a>> # <<b, c, d>>
        /\ \A a, b : <<a>> = <<b>> => a = b
    OBVIOUS
  <1>2. "dawn" # "hud" /\ "dawn" \notin {"mirage", "Mirage", "MIRAGE"}
    OBVIOUS
  <1>3. Voice = <<"dawn">> /\ Sound = <<"hud">>
    BY <1>2 DEF Voice, Sound, command, TopicBase
  <1> QED
    BY <1>1, <1>2, <1>3 DEF EchoStatus, WebUIStatus

\* A message is about its topic and its interface and about no other.
LEMMA AboutOne ==
  ASSUME NEW c \in PahoClients, NEW m \in EventMessages[c]
  PROVE  /\ m.payload \in Events /\ m.payload.interface \in Interfaces
         /\ m.topic \in Topics \cup {Voice, Sound} /\ c \in Owner[m.payload.interface]
         /\ m.retain <=> m.topic = EchoStatus
         /\ \A topic, i : m \in About(topic, i) <=> topic = m.topic /\ i = m.payload.interface
  <1>1. /\ m \in [topic : Topics \cup {Voice, Sound}, payload : Events, retain : BOOLEAN]
        /\ c \in Owner[m.payload.interface] /\ (m.retain <=> m.topic = EchoStatus)
    BY DEF EventMessages
  <1>2. \A e \in Events : e.interface \in Interfaces
    BY DEF Events
  <1>3. \A topic, i : m \in About(topic, i) <=> topic = m.topic /\ i = m.payload.interface
    BY <1>1 DEF About
  <1> QED
    BY <1>1, <1>2, <1>3

\* What the listeners publish for an event: on both topics that the interface is as
\* the event has it, and of a change of mode the announcement and then the sound.
Said(w, c, e) ==
  /\ w \in Seq(EventMessages[c])
  /\ \A topic \in Topics :
       /\ Coming(w, 0, About(topic, e.interface))
       /\ EndsIn(w, About(topic, e.interface), Teaching(topic, e.interface, ModeIn(e)))
  /\ \A topic, i : i # e.interface => \A S \in SUBSET About(topic, i) : \A T : Followed(w, S, T)
  /\ \A i : /\ After(w, 0, About(Voice, i), About(Sound, i))
            /\ Followed(w, About(Voice, i), About(Sound, i))
  /\ ModeChanged(e) =>
       /\ Coming(w, 0, About(Voice, e.interface))
       /\ EndsIn(w, About(Voice, e.interface), Announcing(e.interface, e.is_simulated))
  /\ ~ ModeChanged(e) => \A S \in SUBSET About(Voice, e.interface) : \A T : Followed(w, S, T)

LEMMA EmitSays ==
  ASSUME NEW e \in Events, NEW c \in Owner[e.interface], c \in PahoClients,
         NEW w, w = MQTTBroadcast(e) \o TTSNotification(e) \o AudioAlert(e) \o WebUIStatusMessage(e)
  PROVE  Said(w, c, e)
  <1> PICK x, y, u, v : /\ x = Message(EchoStatus, e, TRUE) /\ y = Message(WebUIStatus, e, FALSE)
                        /\ u = Message(Voice, e, FALSE) /\ v = Message(Sound, e, FALSE)
    OBVIOUS
  <1> PICK i : i = e.interface
    OBVIOUS
  <1> PICK M : M = EventMessages[c]
    OBVIOUS
  <1>1. /\ x.topic = EchoStatus /\ y.topic = WebUIStatus /\ u.topic = Voice /\ v.topic = Sound
        /\ x.payload = e /\ y.payload = e /\ u.payload = e /\ v.payload = e
        /\ x.retain = TRUE /\ y.retain = FALSE /\ u.retain = FALSE /\ v.retain = FALSE
    BY DEF Message
  <1>2. x \in M /\ y \in M /\ u \in M /\ v \in M
    <2>1. \A topic \in Topics \cup {Voice, Sound} : \A b \in BOOLEAN :
            Message(topic, e, b) \in [topic : Topics \cup {Voice, Sound}, payload : Events, retain : BOOLEAN]
      BY DEF Message
    <2>2. EchoStatus \in Topics /\ WebUIStatus \in Topics
      BY DEF Topics
    <2> QED
      BY <1>1, <2>1, <2>2, TopicsDiffer DEF EventMessages
  <1>3. /\ \A topic, j : x \in About(topic, j) <=> topic = EchoStatus /\ j = i
        /\ \A topic, j : y \in About(topic, j) <=> topic = WebUIStatus /\ j = i
        /\ \A topic, j : u \in About(topic, j) <=> topic = Voice /\ j = i
        /\ \A topic, j : v \in About(topic, j) <=> topic = Sound /\ j = i
    <2>1. \A m \in M : \A topic, j : m \in About(topic, j) <=> topic = m.topic /\ j = m.payload.interface
      BY AboutOne
    <2>2. \A topic, j : x \in About(topic, j) <=> topic = EchoStatus /\ j = i
      <3>1. \A topic, j : x \in About(topic, j) <=> topic = x.topic /\ j = x.payload.interface
        BY <1>2, <2>1
      <3>2. x.topic = EchoStatus /\ x.payload.interface = i
        BY <1>1
      <3> QED
        BY <3>1, <3>2
    <2>3. \A topic, j : y \in About(topic, j) <=> topic = WebUIStatus /\ j = i
      <3>1. \A topic, j : y \in About(topic, j) <=> topic = y.topic /\ j = y.payload.interface
        BY <1>2, <2>1
      <3>2. y.topic = WebUIStatus /\ y.payload.interface = i
        BY <1>1
      <3> QED
        BY <3>1, <3>2
    <2>4. \A topic, j : u \in About(topic, j) <=> topic = Voice /\ j = i
      <3>1. \A topic, j : u \in About(topic, j) <=> topic = u.topic /\ j = u.payload.interface
        BY <1>2, <2>1
      <3>2. u.topic = Voice /\ u.payload.interface = i
        BY <1>1
      <3> QED
        BY <3>1, <3>2
    <2>5. \A topic, j : v \in About(topic, j) <=> topic = Sound /\ j = i
      <3>1. \A topic, j : v \in About(topic, j) <=> topic = v.topic /\ j = v.payload.interface
        BY <1>2, <2>1
      <3>2. v.topic = Sound /\ v.payload.interface = i
        BY <1>1
      <3> QED
        BY <3>1, <3>2
    <2> QED
      BY <2>2, <2>3, <2>4, <2>5
  <1>4. /\ x \in Teaching(EchoStatus, i, ModeIn(e)) /\ y \in Teaching(WebUIStatus, i, ModeIn(e))
        /\ u \in Announcing(i, e.is_simulated)
    BY <1>1, <1>3 DEF Teaching, Announcing
  <1>5. \A topic \in Topics : topic = EchoStatus \/ topic = WebUIStatus
    BY DEF Topics
  <1>6. /\ MQTTBroadcast(e) = <<x>> /\ WebUIStatusMessage(e) = <<y>>
        /\ ModeChanged(e) => TTSNotification(e) = <<u>> /\ AudioAlert(e) = <<v>>
        /\ ~ ModeChanged(e) => TTSNotification(e) = << >> /\ AudioAlert(e) = << >>
    BY DEF MQTTBroadcast, WebUIStatusMessage, TTSNotification, AudioAlert, Voice, Sound
  <1>7. CASE ModeChanged(e)
    <2>1. w = <<x>> \o <<u>> \o <<v>> \o <<y>>
      BY <1>6, <1>7
    <2>2. /\ w \in Seq(M)
          /\ \A S : x \in S \/ u \in S \/ y \in S => Coming(w, 0, S)
          /\ \A S, T : (x \in S => y \in T) /\ (u \in S => v \in T) /\ v \notin S /\ y \notin S
                       => Followed(w, S, T)
          /\ \A S, T : x \notin T /\ u \notin T /\ y \notin T /\ (v \in T => u \in S) => After(w, 0, S, T)
      <3>1. w \in Seq(M) /\ FourSaid(w, x, u, v, y)
        BY <1>2, <2>1, FourMessages
      <3> QED
        BY <3>1 DEF FourSaid
    <2>3. \A topic \in Topics : Coming(w, 0, About(topic, i))
      BY <1>3, <1>5, <2>2
    <2>4. \A topic \in Topics : EndsIn(w, About(topic, i), Teaching(topic, i, ModeIn(e)))
      <3>1. EndsIn(w, About(EchoStatus, i), Teaching(EchoStatus, i, ModeIn(e)))
        BY <1>3, <1>4, <2>2, TopicsDiffer DEF EndsIn
      <3>2. EndsIn(w, About(WebUIStatus, i), Teaching(WebUIStatus, i, ModeIn(e)))
        BY <1>3, <1>4, <2>2, TopicsDiffer DEF EndsIn
      <3> QED
        BY <1>5, <3>1, <3>2
    <2>5. \A topic, j : j # i => \A S \in SUBSET About(topic, j) : \A T : Followed(w, S, T)
      BY <1>3, <2>2
    <2>6. \A j : /\ After(w, 0, About(Voice, j), About(Sound, j))
                 /\ Followed(w, About(Voice, j), About(Sound, j))
      BY <1>3, <2>2, TopicsDiffer
    <2>7. Coming(w, 0, About(Voice, i)) /\ EndsIn(w, About(Voice, i), Announcing(i, e.is_simulated))
      BY <1>3, <1>4, <2>2, TopicsDiffer DEF EndsIn
    <2> QED
      BY <1>7, <2>2, <2>3, <2>4, <2>5, <2>6, <2>7 DEF Said
  <1>8. CASE ~ ModeChanged(e)
    <2>1. w = <<x>> \o << >> \o << >> \o <<y>>
      BY <1>6, <1>8
    <2>2. /\ w \in Seq(M)
          /\ \A S : x \in S \/ y \in S => Coming(w, 0, S)
          /\ \A S, T : y \notin S /\ (x \in S => y \in T) => Followed(w, S, T)
          /\ \A S, T : x \notin T /\ y \notin T => After(w, 0, S, T)
      BY <1>2, <2>1, TwoMessages, Zenon
    <2>3. \A topic \in Topics : Coming(w, 0, About(topic, i))
      BY <1>3, <1>5, <2>2
    <2>4. \A topic \in Topics : EndsIn(w, About(topic, i), Teaching(topic, i, ModeIn(e)))
      <3>1. EndsIn(w, About(EchoStatus, i), Teaching(EchoStatus, i, ModeIn(e)))
        BY <1>3, <1>4, <2>2, TopicsDiffer DEF EndsIn
      <3>2. EndsIn(w, About(WebUIStatus, i), Teaching(WebUIStatus, i, ModeIn(e)))
        BY <1>3, <1>4, <2>2, TopicsDiffer DEF EndsIn
      <3> QED
        BY <1>5, <3>1, <3>2
    <2>5. \A topic, j : j # i => \A S \in SUBSET About(topic, j) : \A T : Followed(w, S, T)
      BY <1>3, <2>2
    <2>6. \A j : /\ After(w, 0, About(Voice, j), About(Sound, j))
                 /\ Followed(w, About(Voice, j), About(Sound, j))
      BY <1>3, <2>2, TopicsDiffer
    <2>7. \A S \in SUBSET About(Voice, i) : \A T : Followed(w, S, T)
      BY <1>3, <2>2, TopicsDiffer
    <2> QED
      BY <1>8, <2>2, <2>3, <2>4, <2>5, <2>6, <2>7 DEF Said
  <1> QED
    BY <1>7, <1>8

\* A step that leaves an interface and the queue of its process alone, or delivers
\* nothing new.
LEMMA EventsStayTrue ==
  ASSUME NEW c, NEW i, EventsTrue(c, i), QueueKeeps(c),
         simulated'[c][i] = simulated[c][i], tracked'[c][i] = tracked[c][i]
  PROVE  EventsTrue(c, i)'
  <1>1. \A S, T : Followed(outbox[c], S, T) => Followed(outbox'[c], S, T)
    BY DEF QueueKeeps, Keeps
  <1> QED
    BY <1>1 DEF EventsTrue, EndsIn

\* What a process does to its interface i and tells as the event e.
Tell(c, i, e) ==
  /\ publish(c, MQTTBroadcast(e) \o TTSNotification(e) \o AudioAlert(e) \o WebUIStatusMessage(e))
  /\ e \in Events /\ e.interface = i
  /\ simulated' \in [PahoClients -> [Interfaces -> BOOLEAN]]
  /\ tracked' \in [PahoClients -> [Interfaces -> BOOLEAN \cup {Untracked}]]
  /\ \A d \in PahoClients, j \in Interfaces : d # c \/ j # i =>
       simulated'[d][j] = simulated[d][j] /\ tracked'[d][j] = tracked[d][j]
  /\ tracked'[c][i] = ModeIn(e)
  /\ ModeChanged(e) => simulated'[c][i] = e.is_simulated
  /\ ~ ModeChanged(e) => simulated'[c][i] = simulated[c][i]
  /\ changes' = changes + 1 /\ UNCHANGED <<listening, known, spoken, alerts>>

LEMMA TellKeeps ==
  ASSUME ClientsOK(EventMessages), NEW i \in Interfaces, NEW c \in Owner[i], c \in PahoClients,
         NEW e, Tell(c, i, e)
  PROVE  /\ ClientsOK(EventMessages)' /\ retained' = retained
         /\ \A d \in PahoClients : d # c => QueueKeeps(d)
         /\ \A d \in PahoClients : \A S : ToCome(d, S) => Coming(outbox'[d], sent'[d], S)
         /\ \A topic \in Topics :
              /\ Coming(outbox'[c], sent'[c], About(topic, i))
              /\ EndsIn(outbox'[c], About(topic, i), Teaching(topic, i, ModeIn(e)))
         /\ ModeChanged(e) => /\ Coming(outbox'[c], sent'[c], About(Voice, i))
                              /\ EndsIn(outbox'[c], About(Voice, i), Announcing(i, e.is_simulated))
         /\ \A topic, j : j # i \/ (topic = Voice /\ ~ ModeChanged(e)) =>
              \A S \in SUBSET About(topic, j) : \A T :
                Followed(outbox[c], S, T) => Followed(outbox'[c], S, T)
         /\ \A j : /\ Followed(outbox[c], About(Voice, j), About(Sound, j))
                        => Followed(outbox'[c], About(Voice, j), About(Sound, j))
                   /\ After(outbox[c], sent[c], About(Voice, j), About(Sound, j))
                        => After(outbox'[c], sent'[c], About(Voice, j), About(Sound, j))
  <1> PICK w : w = MQTTBroadcast(e) \o TTSNotification(e) \o AudioAlert(e) \o WebUIStatusMessage(e)
    OBVIOUS
  <1>1. publish(c, w) /\ e \in Events /\ e.interface = i
    BY DEF Tell
  <1>2. Said(w, c, e)
    BY <1>1, EmitSays
  <1>3. w \in Seq(EventMessages[c])
    BY <1>2 DEF Said
  <1>4. /\ ClientsOK(EventMessages)' /\ retained' = retained
        /\ \A d \in PahoClients : d # c => QueueKeeps(d)
        /\ \A S : Coming(outbox[c], sent[c], S) \/ Coming(w, 0, S) => Coming(outbox'[c], sent'[c], S)
        /\ \A S, T : Followed(w, S, T) /\ (Coming(w, 0, T) \/ Followed(outbox[c], S, T))
                       => Followed(outbox'[c], S, T)
        /\ \A S, T : After(outbox[c], sent[c], S, T) /\ After(w, 0, S, T)
                       => After(outbox'[c], sent'[c], S, T)
    BY <1>1, <1>3, PublishStep
  <1>5. \A d \in PahoClients : \A S : ToCome(d, S) => Coming(outbox'[d], sent'[d], S)
    <2> TAKE d \in PahoClients
    <2>1. CASE d = c
      BY <1>4, <2>1 DEF ToCome
    <2>2. CASE d # c
      BY <1>4, <2>2 DEF QueueKeeps, Keeps, ToCome
    <2> QED
      BY <2>1, <2>2
  <1>6. \A topic \in Topics :
          /\ Coming(outbox'[c], sent'[c], About(topic, i))
          /\ EndsIn(outbox'[c], About(topic, i), Teaching(topic, i, ModeIn(e)))
    BY <1>1, <1>2, <1>4 DEF Said, EndsIn
  <1>7. ModeChanged(e) => /\ Coming(outbox'[c], sent'[c], About(Voice, i))
                          /\ EndsIn(outbox'[c], About(Voice, i), Announcing(i, e.is_simulated))
    BY <1>1, <1>2, <1>4 DEF Said, EndsIn
  <1>8. \A topic, j : j # i \/ (topic = Voice /\ ~ ModeChanged(e)) =>
          \A S \in SUBSET About(topic, j) : \A T :
            Followed(outbox[c], S, T) => Followed(outbox'[c], S, T)
    BY <1>1, <1>2, <1>4 DEF Said
  <1>9. \A j : /\ Followed(outbox[c], About(Voice, j), About(Sound, j))
                    => Followed(outbox'[c], About(Voice, j), About(Sound, j))
               /\ After(outbox[c], sent[c], About(Voice, j), About(Sound, j))
                    => After(outbox'[c], sent'[c], About(Voice, j), About(Sound, j))
    BY <1>2, <1>4 DEF Said
  <1> QED
    BY <1>4, <1>5, <1>6, <1>7, <1>8, <1>9

LEMMA TellKnown ==
  ASSUME KnownInv, NEW i \in Interfaces, NEW c \in Owner[i], NEW e, Tell(c, i, e)
  PROVE  KnownInv'
  <1>0. /\ ClientsOK(EventMessages) /\ ChannelTypes /\ RetainedTrue
        /\ \A j \in Interfaces : \A d \in Owner[j] : EventsTrue(d, j)
        /\ \A s \in listening : KnownTrue(s)
        /\ \A s \in FromStart : EarlyTrue(s)
        /\ c \in PahoClients /\ \A j \in Interfaces : Owner[j] \subseteq PahoClients
        /\ FromStart \subseteq Subscribers /\ listening \subseteq Subscribers
        /\ EchoStatus \in Topics /\ \A s : TopicOf(s) \in Topics
        /\ \A s \in Subscribers \ listening : \A j \in Interfaces : known[s][j] = Unknown
    BY ChannelConstants DEF KnownInv, ChannelTypes, Topics, TopicOf
  <1>1. /\ ClientsOK(EventMessages)' /\ retained' = retained
        /\ \A d \in PahoClients : d # c => QueueKeeps(d)
        /\ \A d \in PahoClients : \A S : ToCome(d, S) => Coming(outbox'[d], sent'[d], S)
        /\ \A topic \in Topics :
             /\ Coming(outbox'[c], sent'[c], About(topic, i))
             /\ EndsIn(outbox'[c], About(topic, i), Teaching(topic, i, ModeIn(e)))
        /\ ModeChanged(e) => /\ Coming(outbox'[c], sent'[c], About(Voice, i))
                             /\ EndsIn(outbox'[c], About(Voice, i), Announcing(i, e.is_simulated))
        /\ \A topic, j : j # i \/ (topic = Voice /\ ~ ModeChanged(e)) =>
             \A S \in SUBSET About(topic, j) : \A T :
               Followed(outbox[c], S, T) => Followed(outbox'[c], S, T)
        /\ \A j : Followed(outbox[c], About(Voice, j), About(Sound, j))
                    => Followed(outbox'[c], About(Voice, j), About(Sound, j))
    BY <1>0, TellKeeps
  <1>2. /\ \A d \in PahoClients, j \in Interfaces : d # c \/ j # i =>
             simulated'[d][j] = simulated[d][j] /\ tracked'[d][j] = tracked[d][j]
        /\ tracked'[c][i] = ModeIn(e)
        /\ ModeChanged(e) => simulated'[c][i] = e.is_simulated
        /\ ~ ModeChanged(e) => simulated'[c][i] = simulated[c][i]
        /\ changes' = changes + 1 /\ listening' = listening /\ known' = known
        /\ spoken' = spoken /\ alerts' = alerts
    BY DEF Tell
  <1>3. ChannelTypes'
    <2>1. /\ simulated' \in [PahoClients -> [Interfaces -> BOOLEAN]]
          /\ tracked' \in [PahoClients -> [Interfaces -> BOOLEAN \cup {Untracked}]]
      BY DEF Tell
    <2>2. changes' \in Nat
      BY <1>0, <1>2 DEF ChannelTypes
    <2> QED
      BY <1>0, <1>1, <1>2, <2>1, <2>2 DEF ChannelTypes
  <1>4. \A j \in Interfaces : \A d \in Owner[j] : EventsTrue(d, j)'
    <2> SUFFICES ASSUME NEW j \in Interfaces, NEW d \in Owner[j] PROVE EventsTrue(d, j)'
      OBVIOUS
    <2>0. EventsTrue(d, j) /\ d \in PahoClients
      BY <1>0
    <2>1. CASE d # c
      BY <1>1, <1>2, <2>0, <2>1, EventsStayTrue
    <2>2. CASE d = c /\ j # i
      <3>1. \A topic, mode : About(topic, j) \ Teaching(topic, j, mode) \in SUBSET About(topic, j)
        OBVIOUS
      <3>2. \A mode : About(Voice, j) \ Announcing(j, mode) \in SUBSET About(Voice, j)
        OBVIOUS
      <3>3. simulated'[c][j] = simulated[c][j] /\ tracked'[c][j] = tracked[c][j]
        BY <1>0, <1>2, <2>2
      <3>4. \A topic \in Topics : EndsIn(outbox'[c], About(topic, j), Teaching(topic, j, tracked[c][j]))
        BY <1>1, <2>0, <2>2, <3>1 DEF EventsTrue, EndsIn
      <3>5. EndsIn(outbox'[c], About(Voice, j), Announcing(j, simulated[c][j]))
        BY <1>1, <2>0, <2>2, <3>2 DEF EventsTrue, EndsIn
      <3>6. Followed(outbox'[c], About(Voice, j), About(Sound, j))
        BY <1>1, <2>0, <2>2 DEF EventsTrue
      <3> QED
        BY <2>2, <3>3, <3>4, <3>5, <3>6 DEF EventsTrue
    <2>3. CASE d = c /\ j = i
      <3>1. \A topic \in Topics : EndsIn(outbox'[c], About(topic, i), Teaching(topic, i, tracked'[c][i]))
        BY <1>1, <1>2
      <3>2. EndsIn(outbox'[c], About(Voice, i), Announcing(i, simulated'[c][i]))
        <4>1. CASE ModeChanged(e)
          BY <1>1, <1>2, <4>1
        <4>2. CASE ~ ModeChanged(e)
          <5>1. About(Voice, i) \ Announcing(i, simulated[c][i]) \in SUBSET About(Voice, i)
            OBVIOUS
          <5>2. Followed(outbox[c], About(Voice, i) \ Announcing(i, simulated[c][i]), About(Voice, i))
            BY <2>0, <2>3 DEF EventsTrue, EndsIn
          <5>3. Followed(outbox'[c], About(Voice, i) \ Announcing(i, simulated[c][i]), About(Voice, i))
            BY <1>1, <4>2, <5>1, <5>2
          <5> QED
            BY <1>2, <4>2, <5>3 DEF EndsIn
        <4> QED
          BY <4>1, <4>2
      <3>3. Followed(outbox'[c], About(Voice, i), About(Sound, i))
        BY <1>1, <2>0, <2>3 DEF EventsTrue
      <3> QED
        BY <2>3, <3>1, <3>2, <3>3 DEF EventsTrue
    <2> QED
      BY <2>1, <2>2, <2>3
  <1>5. \A topic \in Topics : \A j \in Interfaces : \A mode :
          SaidTrue(topic, j, mode) =>
            \E d \in Owner[j] : Coming(outbox'[d], sent'[d], About(topic, j)) \/ mode = tracked'[d][j]
    <2> SUFFICES ASSUME NEW topic \in Topics, NEW j \in Interfaces, NEW mode, SaidTrue(topic, j, mode)
                 PROVE  \E d \in Owner[j] :
                          Coming(outbox'[d], sent'[d], About(topic, j)) \/ mode = tracked'[d][j]
      OBVIOUS
    <2>1. PICK d \in Owner[j] : ToCome(d, About(topic, j)) \/ mode = tracked[d][j]
      BY DEF SaidTrue
    <2>2. d \in PahoClients
      BY <1>0
    <2>3. CASE d = c /\ j = i
      BY <1>1, <2>3
    <2>4. CASE d # c \/ j # i
      BY <1>1, <1>2, <2>1, <2>2, <2>4
    <2> QED
      BY <2>3, <2>4
  <1>6. RetainedTrue'
    <2>1. Retained(EchoStatus) =>
            /\ retained[EchoStatus] \in Events
            /\ retained[EchoStatus].interface \in Interfaces
            /\ SaidTrue(EchoStatus, retained[EchoStatus].interface, ModeIn(retained[EchoStatus]))
      <3>1. \A f \in Events : f.interface \in Interfaces
        BY DEF Events
      <3> QED
        BY <1>0, <3>1 DEF RetainedTrue
    <2>2. \E j \in Interfaces : \E d \in Owner[j] : Coming(outbox'[d], sent'[d], About(EchoStatus, j))
      BY <1>0, <1>1
    <2>3. EchoStatus \in DOMAIN retained =>
            /\ retained[EchoStatus] \in Events
            /\ \E d \in Owner[retained[EchoStatus].interface] :
                 \/ Coming(outbox'[d], sent'[d], About(EchoStatus, retained[EchoStatus].interface))
                 \/ ModeIn(retained[EchoStatus]) = tracked'[d][retained[EchoStatus].interface]
      BY <1>0, <1>5, <2>1 DEF Retained
    <2>4. DOMAIN retained \subseteq {EchoStatus}
      BY <1>0 DEF RetainedTrue
    <2> QED
      BY <1>1, <2>2, <2>3, <2>4 DEF RetainedTrue, Retained, SaidTrue, ToCome
  <1>7. \A s \in listening' : KnownTrue(s)'
    <2> TAKE s \in listening'
    <2>1. KnownTrue(s)
      BY <1>0, <1>2
    <2>2. \A j \in Interfaces : known[s][j] # Unknown =>
            \E d \in Owner[j] : \/ Coming(outbox'[d], sent'[d], About(TopicOf(s), j))
                                \/ known[s][j] = tracked'[d][j]
      BY <1>0, <1>5, <2>1 DEF KnownTrue
    <2>3. s # WebUI /\ Retained(EchoStatus) => \E j \in Interfaces : known[s][j] # Unknown
      BY <2>1 DEF KnownTrue
    <2> QED
      BY <1>1, <1>2, <2>2, <2>3 DEF KnownTrue, SaidTrue, ToCome, Retained
  <1>8. \A s \in FromStart : EarlyTrue(s)'
    <2> SUFFICES ASSUME NEW s \in FromStart, NEW j \in Interfaces, NEW d \in PahoClients, Owner[j] = {d},
                        known[s][j] = Unknown
                 PROVE  Coming(outbox'[d], sent'[d], About(TopicOf(s), j)) \/ tracked'[d][j] = Untracked
      BY <1>2 DEF EarlyTrue, ToCome
    <2>1. ToCome(d, About(TopicOf(s), j)) \/ tracked[d][j] = Untracked
      BY <1>0 DEF EarlyTrue
    <2>2. CASE d = c /\ j = i
      BY <1>0, <1>1, <2>2
    <2>3. CASE d # c \/ j # i
      BY <1>1, <1>2, <2>1, <2>3
    <2> QED
      BY <2>2, <2>3
  <1> QED
    BY <1>0, <1>2, <1>3, <1>4, <1>6, <1>7, <1>8 DEF KnownInv

LEMMA TellSpoken ==
  ASSUME SpokenInv, NEW i \in Interfaces, NEW c \in Owner[i], NEW e, Tell(c, i, e)
  PROVE  SpokenInv'
  <1>0. /\ KnownInv /\ ClientsOK(EventMessages) /\ c \in PahoClients
        /\ \A j \in Interfaces : SpokenTrue(j) /\ Owner[j] \subseteq PahoClients
    BY ChannelConstants DEF SpokenInv, KnownInv, ChannelTypes
  <1>1. KnownInv'
    BY <1>0, TellKnown
  <1>2. /\ \A d \in PahoClients : d # c => QueueKeeps(d)
        /\ \A d \in PahoClients : \A S : ToCome(d, S) => Coming(outbox'[d], sent'[d], S)
        /\ ModeChanged(e) => Coming(outbox'[c], sent'[c], About(Voice, i))
        /\ \A j : After(outbox[c], sent[c], About(Voice, j), About(Sound, j))
                    => After(outbox'[c], sent'[c], About(Voice, j), About(Sound, j))
    BY <1>0, TellKeeps
  <1>3. /\ \A d \in PahoClients, j \in Interfaces : d # c \/ j # i => simulated'[d][j] = simulated[d][j]
        /\ ~ ModeChanged(e) => simulated'[c][i] = simulated[c][i]
        /\ spoken' = spoken /\ alerts' = alerts
    BY DEF Tell
  <1>4. \A d \in PahoClients : \A j :
          After(outbox[d], sent[d], About(Voice, j), About(Sound, j))
            => After(outbox'[d], sent'[d], About(Voice, j), About(Sound, j))
    <2> TAKE d \in PahoClients
    <2>1. d # c => QueueKeeps(d)
      BY <1>2
    <2> QED
      BY <1>2, <2>1 DEF QueueKeeps, Keeps
  <1>5. \A j \in Interfaces : SpokenTrue(j)'
    <2> TAKE j \in Interfaces
    <2>0. SpokenTrue(j) /\ Owner[j] \subseteq PahoClients
      BY <1>0
    <2>1. \A d \in PahoClients : Owner[j] = {d} =>
            \/ Coming(outbox'[d], sent'[d], About(Voice, j))
            \/ IF spoken[j] = Unknown THEN simulated'[d][j] ELSE spoken[j] = simulated'[d][j]
      <3> SUFFICES ASSUME NEW d \in PahoClients, Owner[j] = {d}
                   PROVE  \/ Coming(outbox'[d], sent'[d], About(Voice, j))
                          \/ IF spoken[j] = Unknown THEN simulated'[d][j] ELSE spoken[j] = simulated'[d][j]
        OBVIOUS
      <3>1. \/ ToCome(d, About(Voice, j))
            \/ IF spoken[j] = Unknown THEN simulated[d][j] ELSE spoken[j] = simulated[d][j]
        BY <2>0 DEF SpokenTrue
      <3>2. CASE d = c /\ j = i /\ ModeChanged(e)
        BY <1>2, <3>2
      <3>3. CASE ~ (d = c /\ j = i /\ ModeChanged(e))
        <4>1. simulated'[d][j] = simulated[d][j]
          BY <1>3, <3>3
        <4> QED
          BY <1>2, <3>1, <4>1
      <3> QED
        BY <3>2, <3>3
    <2>2. spoken[j] # Unknown => j \in alerts \/ \E d \in Owner[j] : Coming(outbox'[d], sent'[d], About(Sound, j))
      BY <1>2, <2>0 DEF SpokenTrue
    <2>3. spoken[j] = Unknown =>
            /\ j \notin alerts
            /\ \A d \in Owner[j] : After(outbox'[d], sent'[d], About(Voice, j), About(Sound, j))
      BY <1>4, <2>0 DEF SpokenTrue
    <2> QED
      BY <1>3, <2>1, <2>2, <2>3 DEF SpokenTrue, ToCome
  <1> QED
    BY <1>1, <1>5 DEF SpokenInv

\* Whatever changes in a process is told as it is.
LEMMA ChangeTells ==
  ASSUME ChannelTypes, NEW i \in Interfaces, NEW c \in PahoClients, NEW to \in BOOLEAN,
         Register(c, i) \/ Unregister(c, i) \/ Swap(c, i, to)
  PROVE  \E e : Tell(c, i, e)
  <1>0. /\ simulated \in [PahoClients -> [Interfaces -> BOOLEAN]]
        /\ tracked \in [PahoClients -> [Interfaces -> BOOLEAN \cup {Untracked}]]
        /\ simulated[c][i] \in BOOLEAN /\ tracked[c][i] \in BOOLEAN \cup {Untracked}
    BY DEF ChannelTypes
  <1>1. \A change \in {"registered", "swapped", "unregistered"} :
          \A is \in BOOLEAN, was \in BOOLEAN \cup {Unknown} :
            /\ Event(change, i, is, was) \in Events
            /\ Event(change, i, is, was).change = change
            /\ Event(change, i, is, was).interface = i
            /\ Event(change, i, is, was).is_simulated = is
            /\ Event(change, i, is, was).was_simulated = was
    BY DEF Event, Events
  <1>2. "registered" # "swapped" /\ "registered" # "unregistered" /\ "swapped" # "unregistered"
    OBVIOUS
  <1>3. CASE Register(c, i)
    <2> PICK e : e = Event("registered", i, simulated[c][i], Unknown)
      OBVIOUS
    <2>1. /\ tracked' = [tracked EXCEPT ![c][i] = simulated[c][i]] /\ simulated' = simulated
          /\ Emit(c, e)
      BY <1>3 DEF Register
    <2>2. e \in Events /\ e.interface = i /\ ModeIn(e) = simulated[c][i] /\ ~ ModeChanged(e)
      BY <1>0, <1>1, <1>2 DEF ModeIn, ModeChanged
    <2>3. /\ tracked' \in [PahoClients -> [Interfaces -> BOOLEAN \cup {Untracked}]]
          /\ tracked'[c][i] = simulated[c][i]
          /\ \A d \in PahoClients, j \in Interfaces : d # c \/ j # i => tracked'[d][j] = tracked[d][j]
      BY <1>0, <2>1
    <2> QED
      BY <1>0, <2>1, <2>2, <2>3 DEF Emit, Tell
  <1>4. CASE Unregister(c, i)
    <2> PICK e : e = Event("unregistered", i, tracked[c][i], Unknown)
      OBVIOUS
    <2>1. /\ tracked' = [tracked EXCEPT ![c][i] = Untracked] /\ simulated' = simulated
          /\ tracked[c][i] # Untracked /\ Emit(c, e)
      BY <1>4 DEF Unregister
    <2>2. e \in Events /\ e.interface = i /\ ModeIn(e) = Untracked /\ ~ ModeChanged(e)
      BY <1>0, <1>1, <1>2, <2>1 DEF ModeIn, ModeChanged
    <2>3. /\ tracked' \in [PahoClients -> [Interfaces -> BOOLEAN \cup {Untracked}]]
          /\ tracked'[c][i] = Untracked
          /\ \A d \in PahoClients, j \in Interfaces : d # c \/ j # i => tracked'[d][j] = tracked[d][j]
      BY <1>0, <2>1
    <2> QED
      BY <1>0, <2>1, <2>2, <2>3 DEF Emit, Tell
  <1>5. CASE Swap(c, i, to)
    <2> PICK e : e = Event("swapped", i, to, simulated[c][i])
      OBVIOUS
    <2>1. /\ tracked' = [tracked EXCEPT ![c][i] = to] /\ simulated' = [simulated EXCEPT ![c][i] = to]
          /\ Emit(c, e)
      BY <1>5 DEF Swap
    <2>2. /\ e \in Events /\ e.interface = i /\ ModeIn(e) = to /\ e.is_simulated = to
          /\ ~ ModeChanged(e) => to = simulated[c][i]
      BY <1>0, <1>1, <1>2 DEF ModeIn, ModeChanged
    <2>3. /\ tracked' \in [PahoClients -> [Interfaces -> BOOLEAN \cup {Untracked}]]
          /\ tracked'[c][i] = to
          /\ \A d \in PahoClients, j \in Interfaces : d # c \/ j # i => tracked'[d][j] = tracked[d][j]
      BY <1>0, <2>1
    <2>4. /\ simulated' \in [PahoClients -> [Interfaces -> BOOLEAN]]
          /\ simulated'[c][i] = to
          /\ \A d \in PahoClients, j \in Interfaces : d # c \/ j # i => simulated'[d][j] = simulated[d][j]
      BY <1>0, <2>1
    <2> QED
      BY <2>1, <2>2, <2>3, <2>4 DEF Emit, Tell
  <1> QED
    BY <1>3, <1>4, <1>5

\* The broker receives nothing, and nobody notices anything.
LEMMA ChannelsQuiet ==
  ASSUME SpokenInv, ClientsOK(EventMessages)', \A d \in PahoClients : QueueKeeps(d),
         DOMAIN retained' = DOMAIN retained, \A t \in DOMAIN retained : retained'[t] = retained[t],
         UNCHANGED channelVars
  PROVE  SpokenInv'
  <1>0. /\ KnownInv /\ ChannelTypes /\ RetainedTrue
        /\ \A j \in Interfaces : \A d \in Owner[j] : EventsTrue(d, j)
        /\ \A s \in listening : KnownTrue(s)
        /\ \A s \in FromStart : EarlyTrue(s)
        /\ \A j \in Interfaces : SpokenTrue(j) /\ Owner[j] \subseteq PahoClients
        /\ \A s \in Subscribers \ listening : \A j \in Interfaces : known[s][j] = Unknown
    BY ChannelConstants DEF KnownInv, SpokenInv
  <1>1. /\ simulated' = simulated /\ tracked' = tracked /\ changes' = changes
        /\ listening' = listening /\ known' = known /\ spoken' = spoken /\ alerts' = alerts
    BY DEF channelVars
  <1>2. \A d \in PahoClients : \A S : ToCome(d, S) => Coming(outbox'[d], sent'[d], S)
    BY DEF QueueKeeps, Keeps, ToCome
  <1>3. \A d \in PahoClients : \A S, T :
          After(outbox[d], sent[d], S, T) => After(outbox'[d], sent'[d], S, T)
    BY DEF QueueKeeps, Keeps
  <1>4. ChannelTypes'
    BY <1>0, <1>1 DEF ChannelTypes
  <1>5. \A j \in Interfaces : \A d \in Owner[j] : EventsTrue(d, j)'
    BY <1>0, <1>1, EventsStayTrue
  <1>6. \A topic : \A j \in Interfaces : \A mode : SaidTrue(topic, j, mode) =>
          \E d \in Owner[j] : Coming(outbox'[d], sent'[d], About(topic, j)) \/ mode = tracked[d][j]
    BY <1>0, <1>2 DEF SaidTrue
  <1>7. RetainedTrue'
    <2>1. EchoStatus \in DOMAIN retained =>
            /\ retained[EchoStatus] \in Events
            /\ retained[EchoStatus].interface \in Interfaces
            /\ SaidTrue(EchoStatus, retained[EchoStatus].interface, ModeIn(retained[EchoStatus]))
      <3>1. \A f \in Events : f.interface \in Interfaces
        BY DEF Events
      <3> QED
        BY <1>0, <3>1 DEF RetainedTrue, Retained
    <2>2. EchoStatus \in DOMAIN retained =>
            \E d \in Owner[retained[EchoStatus].interface] :
              \/ Coming(outbox'[d], sent'[d], About(EchoStatus, retained[EchoStatus].interface))
              \/ ModeIn(retained[EchoStatus]) = tracked[d][retained[EchoStatus].interface]
      BY <1>6, <2>1
    <2>3. changes > 0 =>
            \/ EchoStatus \in DOMAIN retained
            \/ \E j \in Interfaces : \E d \in Owner[j] : Coming(outbox'[d], sent'[d], About(EchoStatus, j))
      BY <1>0, <1>2 DEF RetainedTrue, Retained
    <2>4. DOMAIN retained \subseteq {EchoStatus}
      BY <1>0 DEF RetainedTrue
    <2> QED
      BY <1>1, <2>1, <2>2, <2>3, <2>4 DEF RetainedTrue, Retained, SaidTrue, ToCome
  <1>8. \A s \in listening' : KnownTrue(s)'
    <2> TAKE s \in listening'
    <2>1. KnownTrue(s)
      BY <1>0, <1>1
    <2>2. \A j \in Interfaces : known[s][j] # Unknown =>
            \E d \in Owner[j] : \/ Coming(outbox'[d], sent'[d], About(TopicOf(s), j))
                                \/ known[s][j] = tracked[d][j]
      BY <1>6, <2>1 DEF KnownTrue
    <2>3. s # WebUI /\ EchoStatus \in DOMAIN retained => \E j \in Interfaces : known[s][j] # Unknown
      BY <2>1 DEF KnownTrue, Retained
    <2> QED
      BY <1>1, <2>2, <2>3 DEF KnownTrue, SaidTrue, ToCome, Retained
  <1>9. \A s \in FromStart : EarlyTrue(s)'
    BY <1>0, <1>1, <1>2 DEF EarlyTrue, ToCome
  <1>10. \A j \in Interfaces : SpokenTrue(j)'
    <2> TAKE j \in Interfaces
    <2>0. SpokenTrue(j) /\ Owner[j] \subseteq PahoClients
      BY <1>0
    <2>1. \A d \in PahoClients : Owner[j] = {d} =>
            \/ Coming(outbox'[d], sent'[d], About(Voice, j))
            \/ IF spoken[j] = Unknown THEN simulated[d][j] ELSE spoken[j] = simulated[d][j]
      BY <1>2, <2>0 DEF SpokenTrue
    <2>2. spoken[j] # Unknown => j \in alerts \/ \E d \in Owner[j] : Coming(outbox'[d], sent'[d], About(Sound, j))
      BY <1>2, <2>0 DEF SpokenTrue
    <2>3. spoken[j] = Unknown =>
            /\ j \notin alerts
            /\ \A d \in Owner[j] : After(outbox'[d], sent'[d], About(Voice, j), About(Sound, j))
      BY <1>3, <2>0 DEF SpokenTrue
    <2> QED
      BY <1>1, <2>1, <2>2, <2>3 DEF SpokenTrue, ToCome
  <1> QED
    BY <1>0, <1>1, <1>4, <1>5, <1>7, <1>8, <1>9, <1>10 DEF KnownInv, SpokenInv

\* Somebody subscribes and learns what the broker has kept.
LEMMA SubscribeStep ==
  ASSUME SpokenInv, NEW s \in Subscribers, Subscribe(s)
  PROVE  SpokenInv'
  <1>0. /\ KnownInv /\ ChannelTypes /\ RetainedTrue
        /\ \A j \in Interfaces : \A d \in Owner[j] : EventsTrue(d, j)
        /\ \A r \in listening : KnownTrue(r)
        /\ \A r \in FromStart : EarlyTrue(r)
        /\ \A j \in Interfaces : SpokenTrue(j)
        /\ \A r \in Subscribers \ listening : \A j \in Interfaces : known[r][j] = Unknown
        /\ known \in [Subscribers -> [Interfaces -> BOOLEAN \cup {Untracked, Unknown}]]
        /\ FromStart \subseteq listening /\ listening \subseteq Subscribers
        /\ Unknown \notin BOOLEAN \cup {Untracked}
    BY ChannelConstants DEF KnownInv, SpokenInv, ChannelTypes
  <1>1. /\ simulated' = simulated /\ tracked' = tracked /\ changes' = changes /\ spoken' = spoken
        /\ alerts' = alerts /\ outbox' = outbox /\ sent' = sent /\ retained' = retained
        /\ connected' = connected /\ listening' = listening \cup {s} /\ s \notin listening
    BY DEF Subscribe, brokerVars
  <1> PICK event : event = retained[EchoStatus]
    OBVIOUS
  <1>2. ASSUME s # WebUI, Retained(EchoStatus)
        PROVE  /\ known' \in [Subscribers -> [Interfaces -> BOOLEAN \cup {Untracked, Unknown}]]
               /\ KnownTrue(s)' /\ \A r \in Subscribers : r # s => known'[r] = known[r]
    <2>1. /\ event \in Events /\ event.interface \in Interfaces /\ ModeIn(event) \in BOOLEAN \cup {Untracked}
          /\ SaidTrue(EchoStatus, event.interface, ModeIn(event))
      <3>1. \A f \in Events : f.interface \in Interfaces /\ ModeIn(f) \in BOOLEAN \cup {Untracked}
        BY DEF Events, ModeIn
      <3> QED
        BY <1>0, <1>2, <3>1 DEF RetainedTrue
    <2>2. known' = [known EXCEPT ![s] = [known[s] EXCEPT ![event.interface] = ModeIn(event)]]
      BY <1>2 DEF Subscribe, Learn, ModeIn
    <2>3. /\ known' \in [Subscribers -> [Interfaces -> BOOLEAN \cup {Untracked, Unknown}]]
          /\ known'[s][event.interface] = ModeIn(event)
          /\ \A j \in Interfaces : j # event.interface => known'[s][j] = known[s][j]
          /\ \A r \in Subscribers : r # s => known'[r] = known[r]
      BY <1>0, <2>1, <2>2
    <2>4. KnownTrue(s)'
      <3>1. TopicOf(s) = EchoStatus
        BY <1>2 DEF TopicOf
      <3>2. \A j \in Interfaces : known'[s][j] # Unknown => SaidTrue(EchoStatus, j, known'[s][j])
        BY <1>0, <1>1, <2>1, <2>3
      <3>3. known'[s][event.interface] # Unknown
        BY <1>0, <2>1, <2>3
      <3> QED
        BY <1>1, <2>1, <3>1, <3>2, <3>3 DEF KnownTrue, SaidTrue, ToCome
    <2> QED
      BY <2>3, <2>4
  <1>3. ASSUME ~ (s # WebUI /\ Retained(EchoStatus))
        PROVE  /\ known' \in [Subscribers -> [Interfaces -> BOOLEAN \cup {Untracked, Unknown}]]
               /\ KnownTrue(s)' /\ \A r \in Subscribers : r # s => known'[r] = known[r]
    <2>1. known' = known
      BY <1>3 DEF Subscribe
    <2>2. KnownTrue(s)'
      BY <1>0, <1>1, <1>3, <2>1 DEF KnownTrue, Retained
    <2> QED
      BY <1>0, <2>1, <2>2
  <1>4. /\ known' \in [Subscribers -> [Interfaces -> BOOLEAN \cup {Untracked, Unknown}]]
        /\ KnownTrue(s)' /\ \A r \in Subscribers : r # s => known'[r] = known[r]
    BY <1>2, <1>3
  <1>5. \A r \in listening' : KnownTrue(r)'
    <2> TAKE r \in listening'
    <2>1. CASE r = s
      BY <1>4, <2>1
    <2>2. CASE r # s
      <3>1. KnownTrue(r) /\ known'[r] = known[r]
        BY <1>0, <1>1, <1>4, <2>2
      <3> QED
        BY <1>1, <3>1 DEF KnownTrue, SaidTrue, ToCome, Retained
    <2> QED
      BY <2>1, <2>2
  <1>6. \A r \in FromStart : EarlyTrue(r)'
    <2> TAKE r \in FromStart
    <2>1. EarlyTrue(r) /\ known'[r] = known[r]
      BY <1>0, <1>1, <1>4
    <2> QED
      BY <1>1, <2>1 DEF EarlyTrue, ToCome
  <1>7. \A r \in Subscribers \ listening' : \A j \in Interfaces : known'[r][j] = Unknown
    BY <1>0, <1>1, <1>4
  <1>8. ChannelTypes'
    BY <1>0, <1>1, <1>4 DEF ChannelTypes, ClientsOK
  <1>9. RetainedTrue' /\ \A j \in Interfaces : SpokenTrue(j)'
    BY <1>0, <1>1 DEF RetainedTrue, SpokenTrue, SaidTrue, ToCome, Retained
  <1>10. \A j \in Interfaces : \A d \in Owner[j] : EventsTrue(d, j)'
    BY <1>0, <1>1 DEF EventsTrue
  <1> QED
    BY <1>5, <1>6, <1>7, <1>8, <1>9, <1>10 DEF KnownInv, SpokenInv

\* What the broker forwards is the truth, or the process has more to say about it.
LEMMA ForwardTells ==
  ASSUME SpokenInv, NEW c \in PahoClients, Forward(c), NEW m, m = NextOf(c),
         simulated' = simulated, tracked' = tracked
  PROVE  /\ ClientsOK(EventMessages)' /\ m \in EventMessages[c]
         /\ \A j \in Interfaces : \A d \in Owner[j] : EventsTrue(d, j)'
         /\ \A d \in PahoClients : \A S : ToCome(d, S) => m \in S \/ Coming(outbox'[d], sent'[d], S)
         /\ \A d \in PahoClients : \A S, T : After(outbox[d], sent[d], S, T) =>
              (d = c => m \notin T) /\ (m \in S \/ After(outbox'[d], sent'[d], S, T))
         /\ m.topic \in Topics =>
              \/ Coming(outbox'[c], sent'[c], About(m.topic, m.payload.interface))
              \/ ModeIn(m.payload) = tracked[c][m.payload.interface]
         /\ m.topic = Voice =>
              /\ \/ Coming(outbox'[c], sent'[c], About(Voice, m.payload.interface))
                 \/ m.payload.is_simulated = simulated[c][m.payload.interface]
              /\ Coming(outbox'[c], sent'[c], About(Sound, m.payload.interface))
  <1>0. /\ ClientsOK(EventMessages) /\ \A j \in Interfaces : \A d \in Owner[j] : EventsTrue(d, j)
        /\ \A j \in Interfaces : Owner[j] \subseteq PahoClients
    BY ChannelConstants DEF SpokenInv, KnownInv, ChannelTypes
  <1>1. /\ ClientsOK(EventMessages)' /\ m \in EventMessages[c] /\ QueueDelivers(c, m)
        /\ \A d \in PahoClients : d # c => QueueKeeps(d)
    BY <1>0, ForwardStep
  <1> PICK i : i = m.payload.interface
    OBVIOUS
  <1>2. /\ i \in Interfaces /\ c \in Owner[i] /\ m.payload \in Events
        /\ \A topic, j : m \in About(topic, j) <=> topic = m.topic /\ j = i
    BY <1>1, AboutOne
  <1>3. /\ \A S : ToCome(c, S) => m \in S \/ Coming(outbox'[c], sent'[c], S)
        /\ \A S, T : Followed(outbox[c], S, T) =>
             Followed(outbox'[c], S, T) /\ (m \in S => Coming(outbox'[c], sent'[c], T))
        /\ \A S, T : After(outbox[c], sent[c], S, T) =>
             m \notin T /\ (m \in S \/ After(outbox'[c], sent'[c], S, T))
    BY <1>1 DEF QueueDelivers, Delivers, ToCome
  <1>4. \A j \in Interfaces : \A d \in Owner[j] : EventsTrue(d, j)'
    <2> SUFFICES ASSUME NEW j \in Interfaces, NEW d \in Owner[j] PROVE EventsTrue(d, j)'
      OBVIOUS
    <2>1. EventsTrue(d, j) /\ d \in PahoClients
      BY <1>0
    <2>2. CASE d # c
      BY <1>1, <2>1, <2>2, EventsStayTrue
    <2>3. CASE d = c
      BY <1>3, <2>1, <2>3 DEF EventsTrue, EndsIn
    <2> QED
      BY <2>2, <2>3
  <1>5. \A d \in PahoClients : \A S : ToCome(d, S) => m \in S \/ Coming(outbox'[d], sent'[d], S)
    <2> TAKE d \in PahoClients
    <2>1. CASE d = c
      BY <1>3, <2>1
    <2>2. CASE d # c
      BY <1>1, <2>2 DEF QueueKeeps, Keeps, ToCome
    <2> QED
      BY <2>1, <2>2
  <1>6. \A d \in PahoClients : \A S, T : After(outbox[d], sent[d], S, T) =>
          (d = c => m \notin T) /\ (m \in S \/ After(outbox'[d], sent'[d], S, T))
    <2> TAKE d \in PahoClients
    <2>1. CASE d = c
      BY <1>3, <2>1
    <2>2. CASE d # c
      BY <1>1, <2>2 DEF QueueKeeps, Keeps
    <2> QED
      BY <2>1, <2>2
  <1>7. EventsTrue(c, i)
    BY <1>0, <1>2
  <1>8. m.topic \in Topics =>
          \/ Coming(outbox'[c], sent'[c], About(m.topic, i)) \/ ModeIn(m.payload) = tracked[c][i]
    <2> SUFFICES ASSUME m.topic \in Topics, ModeIn(m.payload) # tracked[c][i]
                 PROVE  Coming(outbox'[c], sent'[c], About(m.topic, i))
      OBVIOUS
    <2>1. m \in About(m.topic, i) \ Teaching(m.topic, i, tracked[c][i])
      BY <1>2 DEF Teaching
    <2>2. Followed(outbox[c], About(m.topic, i) \ Teaching(m.topic, i, tracked[c][i]), About(m.topic, i))
      BY <1>7 DEF EventsTrue, EndsIn
    <2> QED
      BY <1>3, <2>1, <2>2
  <1>9. m.topic = Voice =>
          /\ \/ Coming(outbox'[c], sent'[c], About(Voice, i)) \/ m.payload.is_simulated = simulated[c][i]
          /\ Coming(outbox'[c], sent'[c], About(Sound, i))
    <2> SUFFICES ASSUME m.topic = Voice
                 PROVE  /\ \/ Coming(outbox'[c], sent'[c], About(Voice, i))
                           \/ m.payload.is_simulated = simulated[c][i]
                        /\ Coming(outbox'[c], sent'[c], About(Sound, i))
      OBVIOUS
    <2>1. m \in About(Voice, i)
      BY <1>2
    <2>2. Coming(outbox'[c], sent'[c], About(Sound, i))
      BY <1>3, <1>7, <2>1 DEF EventsTrue
    <2>3. ASSUME m.payload.is_simulated # simulated[c][i]
          PROVE  Coming(outbox'[c], sent'[c], About(Voice, i))
      <3>1. m \in About(Voice, i) \ Announcing(i, simulated[c][i])
        BY <2>1, <2>3 DEF Announcing
      <3>2. Followed(outbox[c], About(Voice, i) \ Announcing(i, simulated[c][i]), About(Voice, i))
        BY <1>7 DEF EventsTrue, EndsIn
      <3> QED
        BY <1>3, <3>1, <3>2
    <2> QED
      BY <2>2, <2>3
  <1> QED
    BY <1>1, <1>4, <1>5, <1>6, <1>8, <1>9

LEMMA ForwardKnown ==
  ASSUME SpokenInv, NEW c \in PahoClients, ForwardEvent(c)
  PROVE  KnownInv'
  <1>0. /\ ChannelTypes /\ RetainedTrue
        /\ \A s \in listening : KnownTrue(s)
        /\ \A s \in FromStart : EarlyTrue(s)
        /\ \A j \in Interfaces : Owner[j] \subseteq PahoClients
        /\ \A s \in Subscribers \ listening : \A j \in Interfaces : known[s][j] = Unknown
        /\ known \in [Subscribers -> [Interfaces -> BOOLEAN \cup {Untracked, Unknown}]]
        /\ spoken \in [Interfaces -> BOOLEAN \cup {Unknown}] /\ alerts \subseteq Interfaces
        /\ FromStart \subseteq listening /\ listening \subseteq Subscribers
        /\ Unknown \notin BOOLEAN \cup {Untracked}
    BY ChannelConstants DEF KnownInv, SpokenInv, ChannelTypes
  <1> PICK m : m = NextOf(c)
    OBVIOUS
  <1> PICK i : i = m.payload.interface
    OBVIOUS
  <1> PICK mode : mode = ModeIn(m.payload)
    OBVIOUS
  <1>1. /\ Forward(c) /\ simulated' = simulated /\ tracked' = tracked /\ changes' = changes
        /\ listening' = listening
        /\ known' = [s \in Subscribers |-> IF Hears(s, m.topic) THEN Learn(known[s], m.payload) ELSE known[s]]
        /\ spoken' = IF m.topic = Voice THEN [spoken EXCEPT ![i] = m.payload.is_simulated] ELSE spoken
        /\ alerts' = IF m.topic = Sound THEN alerts \cup {i} ELSE alerts
    BY DEF ForwardEvent, Voice, Sound
  <1>2. /\ ClientsOK(EventMessages)' /\ m \in EventMessages[c]
        /\ \A j \in Interfaces : \A d \in Owner[j] : EventsTrue(d, j)'
        /\ \A d \in PahoClients : \A S : ToCome(d, S) => m \in S \/ Coming(outbox'[d], sent'[d], S)
        /\ m.topic \in Topics => Coming(outbox'[c], sent'[c], About(m.topic, i)) \/ mode = tracked[c][i]
    BY <1>1, ForwardTells
  <1>3. /\ i \in Interfaces /\ c \in Owner[i] /\ m.payload \in Events
        /\ m.retain <=> m.topic = EchoStatus
        /\ \A topic, j : m \in About(topic, j) <=> topic = m.topic /\ j = i
    BY <1>2, AboutOne
  <1>4. mode \in BOOLEAN \cup {Untracked} /\ m.payload.is_simulated \in BOOLEAN /\ mode # Unknown
    BY <1>0, <1>3 DEF ModeIn, Events
  <1>5. \A s \in Subscribers :
          /\ s \in listening /\ m.topic = TopicOf(s) =>
               known'[s][i] = mode /\ \A j \in Interfaces : j # i => known'[s][j] = known[s][j]
          /\ ~ (s \in listening /\ m.topic = TopicOf(s)) => known'[s] = known[s]
    <2> TAKE s \in Subscribers
    <2>1. Hears(s, m.topic) <=> s \in listening /\ m.topic = TopicOf(s)
      BY DEF Hears, TopicOf
    <2>2. Learn(known[s], m.payload) = [known[s] EXCEPT ![i] = mode]
      BY DEF Learn, ModeIn
    <2>3. known[s] \in [Interfaces -> BOOLEAN \cup {Untracked, Unknown}]
      BY <1>0
    <2>4. /\ Learn(known[s], m.payload)[i] = mode
          /\ \A j \in Interfaces : j # i => Learn(known[s], m.payload)[j] = known[s][j]
      BY <1>3, <2>2, <2>3
    <2> QED
      BY <1>1, <2>1, <2>4
  <1>6. known' \in [Subscribers -> [Interfaces -> BOOLEAN \cup {Untracked, Unknown}]]
    <2>1. \A s \in Subscribers :
            Learn(known[s], m.payload) \in [Interfaces -> BOOLEAN \cup {Untracked, Unknown}]
      <3> TAKE s \in Subscribers
      <3>1. Learn(known[s], m.payload) = [known[s] EXCEPT ![i] = mode]
        BY DEF Learn, ModeIn
      <3>2. known[s] \in [Interfaces -> BOOLEAN \cup {Untracked, Unknown}]
        BY <1>0
      <3> QED
        BY <1>4, <3>1, <3>2
    <2> QED
      BY <1>0, <1>1, <2>1
  <1>7. /\ spoken' \in [Interfaces -> BOOLEAN \cup {Unknown}] /\ alerts' \subseteq Interfaces
    BY <1>0, <1>1, <1>3, <1>4
  <1>8. ChannelTypes'
    BY <1>0, <1>1, <1>2, <1>6, <1>7 DEF ChannelTypes
  <1>9. \A topic, j, it : topic # m.topic \/ j # i => (j \in Interfaces /\ SaidTrue(topic, j, it) =>
          \E d \in Owner[j] : Coming(outbox'[d], sent'[d], About(topic, j)) \/ it = tracked[d][j])
    <2> SUFFICES ASSUME NEW topic, NEW j \in Interfaces, NEW it, topic # m.topic \/ j # i,
                        SaidTrue(topic, j, it)
                 PROVE  \E d \in Owner[j] :
                          Coming(outbox'[d], sent'[d], About(topic, j)) \/ it = tracked[d][j]
      OBVIOUS
    <2>1. PICK d \in Owner[j] : ToCome(d, About(topic, j)) \/ it = tracked[d][j]
      BY DEF SaidTrue
    <2>2. d \in PahoClients /\ m \notin About(topic, j)
      BY <1>0, <1>3
    <2> QED
      BY <1>2, <2>1, <2>2
  <1>10. m.topic \in Topics =>
           \E d \in Owner[i] : Coming(outbox'[d], sent'[d], About(m.topic, i)) \/ mode = tracked[d][i]
    BY <1>2, <1>3
  <1>11. /\ DOMAIN retained' \subseteq {EchoStatus}
         /\ m.topic = EchoStatus => EchoStatus \in DOMAIN retained' /\ retained'[EchoStatus] = m.payload
         /\ m.topic # EchoStatus => retained' = retained
    <2>1. DOMAIN retained \subseteq {EchoStatus}
      BY <1>0 DEF RetainedTrue
    <2>2. CASE m.topic = EchoStatus
      <3>1. retained' = Keep(Only(m.topic, m.payload))
        BY <1>1, <1>3, <2>2 DEF Forward
      <3>2. DOMAIN retained' = {m.topic} \cup DOMAIN retained /\ retained'[m.topic] = m.payload
        BY <3>1, KeepIs
      <3> QED
        BY <2>1, <2>2, <3>2
    <2>3. CASE m.topic # EchoStatus
      <3>1. retained' = retained
        BY <1>1, <1>3, <2>3 DEF Forward
      <3> QED
        BY <2>1, <2>3, <3>1
    <2> QED
      BY <2>2, <2>3
  <1>12. RetainedTrue'
    <2>1. CASE m.topic = EchoStatus
      <3>1. EchoStatus \in Topics
        BY DEF Topics
      <3> QED
        BY <1>1, <1>3, <1>10, <1>11, <2>1, <3>1 DEF RetainedTrue, Retained, SaidTrue, ToCome
    <2>2. CASE m.topic # EchoStatus
      <3>1. EchoStatus \in DOMAIN retained =>
              /\ retained[EchoStatus] \in Events
              /\ retained[EchoStatus].interface \in Interfaces
              /\ SaidTrue(EchoStatus, retained[EchoStatus].interface, ModeIn(retained[EchoStatus]))
        <4>1. \A f \in Events : f.interface \in Interfaces
          BY DEF Events
        <4> QED
          BY <1>0, <4>1 DEF RetainedTrue, Retained
      <3>2. EchoStatus \in DOMAIN retained =>
              \E d \in Owner[retained[EchoStatus].interface] :
                \/ Coming(outbox'[d], sent'[d], About(EchoStatus, retained[EchoStatus].interface))
                \/ ModeIn(retained[EchoStatus]) = tracked[d][retained[EchoStatus].interface]
        BY <1>9, <2>2, <3>1
      <3>3. changes > 0 =>
              \/ EchoStatus \in DOMAIN retained
              \/ \E j \in Interfaces : \E d \in Owner[j] : Coming(outbox'[d], sent'[d], About(EchoStatus, j))
        <4>1. \A j : m \notin About(EchoStatus, j)
          BY <1>3, <2>2
        <4>2. \A j \in Interfaces : \A d \in Owner[j] :
                ToCome(d, About(EchoStatus, j)) => Coming(outbox'[d], sent'[d], About(EchoStatus, j))
          BY <1>0, <1>2, <4>1
        <4> QED
          BY <1>0, <4>2 DEF RetainedTrue, Retained
      <3> QED
        BY <1>1, <1>11, <2>2, <3>1, <3>2, <3>3 DEF RetainedTrue, Retained, SaidTrue, ToCome
    <2> QED
      BY <2>1, <2>2
  <1>13. \A s \in listening' : KnownTrue(s)'
    <2> TAKE s \in listening'
    <2>0. /\ s \in Subscribers /\ s \in listening /\ KnownTrue(s) /\ TopicOf(s) \in Topics
          /\ s # WebUI <=> TopicOf(s) = EchoStatus
      BY <1>0, <1>1, TopicsDiffer DEF TopicOf, Topics
    <2>1. \A j \in Interfaces : known'[s][j] # Unknown =>
            \E d \in Owner[j] : \/ Coming(outbox'[d], sent'[d], About(TopicOf(s), j))
                                \/ known'[s][j] = tracked[d][j]
      <3> SUFFICES ASSUME NEW j \in Interfaces, known'[s][j] # Unknown
                   PROVE  \E d \in Owner[j] : \/ Coming(outbox'[d], sent'[d], About(TopicOf(s), j))
                                              \/ known'[s][j] = tracked[d][j]
        OBVIOUS
      <3>1. CASE m.topic = TopicOf(s) /\ j = i
        <4>1. known'[s][j] = mode
          BY <1>5, <2>0, <3>1
        <4> QED
          BY <1>10, <2>0, <3>1, <4>1
      <3>2. CASE m.topic # TopicOf(s) \/ j # i
        <4>1. known'[s][j] = known[s][j]
          BY <1>5, <2>0, <3>2
        <4>2. SaidTrue(TopicOf(s), j, known[s][j])
          BY <2>0, <4>1 DEF KnownTrue
        <4> QED
          BY <1>9, <3>2, <4>1, <4>2
      <3> QED
        BY <3>1, <3>2
    <2>2. s # WebUI /\ EchoStatus \in DOMAIN retained' => \E j \in Interfaces : known'[s][j] # Unknown
      <3>1. CASE m.topic = TopicOf(s)
        <4>1. known'[s][i] = mode
          BY <1>5, <2>0, <3>1
        <4> QED
          BY <1>3, <1>4, <4>1
      <3>2. CASE m.topic # TopicOf(s)
        <4>1. known'[s] = known[s]
          BY <1>5, <2>0, <3>2
        <4>2. s # WebUI => retained' = retained
          BY <1>11, <2>0, <3>2
        <4> QED
          BY <2>0, <4>1, <4>2 DEF KnownTrue, Retained
      <3> QED
        BY <3>1, <3>2
    <2> QED
      BY <1>1, <2>1, <2>2 DEF KnownTrue, SaidTrue, ToCome, Retained
  <1>14. \A s \in FromStart : EarlyTrue(s)'
    <2> SUFFICES ASSUME NEW s \in FromStart, NEW j \in Interfaces, NEW d \in PahoClients, Owner[j] = {d},
                        known'[s][j] = Unknown
                 PROVE  Coming(outbox'[d], sent'[d], About(TopicOf(s), j)) \/ tracked[d][j] = Untracked
      BY <1>1 DEF EarlyTrue, ToCome
    <2>1. s \in Subscribers /\ s \in listening
      BY <1>0
    <2>2. m.topic # TopicOf(s) \/ j # i
      BY <1>4, <1>5, <2>1
    <2>3. known[s][j] = Unknown
      BY <1>5, <2>1, <2>2
    <2>4. ToCome(d, About(TopicOf(s), j)) \/ tracked[d][j] = Untracked
      BY <1>0, <2>3 DEF EarlyTrue
    <2>5. m \notin About(TopicOf(s), j)
      BY <1>3, <2>2
    <2> QED
      BY <1>2, <2>4, <2>5
  <1>15. \A s \in Subscribers \ listening' : \A j \in Interfaces : known'[s][j] = Unknown
    BY <1>0, <1>1, <1>5
  <1> QED
    BY <1>2, <1>8, <1>12, <1>13, <1>14, <1>15 DEF KnownInv

LEMMA ForwardSpoken ==
  ASSUME SpokenInv, NEW c \in PahoClients, ForwardEvent(c)
  PROVE  SpokenInv'
  <1>0. /\ \A j \in Interfaces : SpokenTrue(j) /\ Owner[j] \subseteq PahoClients
        /\ spoken \in [Interfaces -> BOOLEAN \cup {Unknown}] /\ alerts \subseteq Interfaces
        /\ Unknown \notin BOOLEAN \cup {Untracked}
    BY ChannelConstants DEF KnownInv, SpokenInv, ChannelTypes
  <1> PICK m : m = NextOf(c)
    OBVIOUS
  <1> PICK i : i = m.payload.interface
    OBVIOUS
  <1>1. /\ Forward(c) /\ simulated' = simulated /\ tracked' = tracked
        /\ spoken' = IF m.topic = Voice THEN [spoken EXCEPT ![i] = m.payload.is_simulated] ELSE spoken
        /\ alerts' = IF m.topic = Sound THEN alerts \cup {i} ELSE alerts
    BY DEF ForwardEvent, Voice, Sound
  <1>2. /\ m \in EventMessages[c]
        /\ \A d \in PahoClients : \A S : ToCome(d, S) => m \in S \/ Coming(outbox'[d], sent'[d], S)
        /\ \A d \in PahoClients : \A S, T : After(outbox[d], sent[d], S, T) =>
             (d = c => m \notin T) /\ (m \in S \/ After(outbox'[d], sent'[d], S, T))
        /\ m.topic = Voice =>
             /\ \/ Coming(outbox'[c], sent'[c], About(Voice, i)) \/ m.payload.is_simulated = simulated[c][i]
             /\ Coming(outbox'[c], sent'[c], About(Sound, i))
    BY <1>1, ForwardTells
  <1>3. /\ i \in Interfaces /\ c \in Owner[i] /\ m.payload \in Events
        /\ \A topic, j : m \in About(topic, j) <=> topic = m.topic /\ j = i
    BY <1>2, AboutOne
  <1>4. m.payload.is_simulated \in BOOLEAN /\ m.payload.is_simulated # Unknown
    BY <1>0, <1>3 DEF Events
  <1>5. \A j \in Interfaces : SpokenTrue(j)'
    <2> TAKE j \in Interfaces
    <2>0. SpokenTrue(j) /\ Owner[j] \subseteq PahoClients
      BY <1>0
    <2>1. CASE m.topic = Voice /\ j = i
      <3>1. spoken'[i] = m.payload.is_simulated
        BY <1>0, <1>1, <1>3, <2>1
      <3>2. \A d \in PahoClients : Owner[i] = {d} =>
              \/ Coming(outbox'[d], sent'[d], About(Voice, i)) \/ spoken'[i] = simulated[d][i]
        BY <1>2, <1>3, <2>1, <3>1
      <3>3. \E d \in Owner[i] : Coming(outbox'[d], sent'[d], About(Sound, i))
        BY <1>2, <1>3, <2>1
      <3> QED
        BY <1>1, <1>4, <2>1, <3>1, <3>2, <3>3 DEF SpokenTrue, ToCome
    <2>2. CASE m.topic = Sound /\ j = i
      <3>1. Voice # Sound
        BY TopicsDiffer
      <3>2. spoken' = spoken /\ i \in alerts'
        BY <1>1, <2>2, <3>1
      <3>3. spoken[i] # Unknown
        <4> SUFFICES ASSUME spoken[i] = Unknown PROVE FALSE
          OBVIOUS
        <4>1. After(outbox[c], sent[c], About(Voice, i), About(Sound, i))
          BY <1>3, <2>0, <2>2 DEF SpokenTrue
        <4>2. m \in About(Sound, i)
          BY <1>3, <2>2
        <4> QED
          BY <1>2, <4>1, <4>2
      <3>4. \A d \in PahoClients : Owner[i] = {d} =>
              \/ Coming(outbox'[d], sent'[d], About(Voice, i)) \/ spoken[i] = simulated[d][i]
        <4> SUFFICES ASSUME NEW d \in PahoClients, Owner[i] = {d}
                     PROVE  \/ Coming(outbox'[d], sent'[d], About(Voice, i)) \/ spoken[i] = simulated[d][i]
          OBVIOUS
        <4>1. ToCome(d, About(Voice, i)) \/ spoken[i] = simulated[d][i]
          BY <2>0, <2>2, <3>3 DEF SpokenTrue
        <4>2. m \notin About(Voice, i)
          BY <1>3, <2>2, <3>1
        <4> QED
          BY <1>2, <4>1, <4>2
      <3> QED
        BY <1>1, <2>2, <3>2, <3>3, <3>4 DEF SpokenTrue, ToCome
    <2>3. CASE (m.topic # Voice /\ m.topic # Sound) \/ j # i
      <3>1. m \notin About(Voice, j) /\ m \notin About(Sound, j)
        BY <1>3, <2>3
      <3>2. spoken'[j] = spoken[j] /\ (j \in alerts' <=> j \in alerts)
        BY <1>0, <1>1, <2>3
      <3>3. \A d \in PahoClients : Owner[j] = {d} =>
              \/ Coming(outbox'[d], sent'[d], About(Voice, j))
              \/ IF spoken[j] = Unknown THEN simulated[d][j] ELSE spoken[j] = simulated[d][j]
        BY <1>2, <2>0, <3>1 DEF SpokenTrue
      <3>4. spoken[j] # Unknown => j \in alerts \/ \E d \in Owner[j] : Coming(outbox'[d], sent'[d], About(Sound, j))
        BY <1>2, <2>0, <3>1 DEF SpokenTrue
      <3>5. spoken[j] = Unknown =>
              /\ j \notin alerts
              /\ \A d \in Owner[j] : After(outbox'[d], sent'[d], About(Voice, j), About(Sound, j))
        BY <1>2, <2>0, <3>1 DEF SpokenTrue
      <3> QED
        BY <1>1, <3>2, <3>3, <3>4, <3>5 DEF SpokenTrue, ToCome
    <2> QED
      BY <2>1, <2>2, <2>3
  <1> QED
    BY <1>5, ForwardKnown DEF SpokenInv

LEMMA ChannelsStart ==
  ASSUME BrokerInit, ChannelsInit
  PROVE  SpokenInv
  <1>1. /\ \A d \in PahoClients : outbox[d] = << >> /\ sent[d] = 0
        /\ DOMAIN outbox = PahoClients /\ sent \in [PahoClients -> Nat]
        /\ connected \in [PahoClients -> BOOLEAN] /\ DOMAIN retained = {}
    <2>1. DOMAIN << >> = {} /\ 0 \in Nat
      OBVIOUS
    <2> QED
      BY <2>1 DEF BrokerInit
  <1>2. /\ simulated = [c \in PahoClients |-> [i \in Interfaces |-> TRUE]]
        /\ tracked = [c \in PahoClients |-> [i \in Interfaces |-> Untracked]]
        /\ changes = 0 /\ listening = FromStart
        /\ known = [s \in Subscribers |-> [i \in Interfaces |-> Unknown]]
        /\ spoken = [i \in Interfaces |-> Unknown] /\ alerts = {}
        /\ FromStart \subseteq Subscribers /\ \A i \in Interfaces : Owner[i] \subseteq PahoClients
    BY ChannelConstants DEF ChannelsInit
  <1>3. ChannelTypes
    <2>1. \A S : << >> \in Seq(S) /\ Len(<< >>) = 0 /\ 0 <= 0
      OBVIOUS
    <2>2. ClientsOK(EventMessages)
      BY <1>1, <2>1 DEF ClientsOK
    <2> QED
      BY <1>2, <2>2 DEF ChannelTypes
  <1>4. \A S, T : Followed(<< >>, S, T) /\ After(<< >>, 0, S, T)
    BY NothingComes
  <1>5. \A j \in Interfaces : \A d \in Owner[j] : EventsTrue(d, j)
    <2> TAKE j \in Interfaces
    <2> TAKE d \in Owner[j]
    <2>1. outbox[d] = << >>
      BY <1>1, <1>2
    <2> QED
      BY <1>4, <2>1 DEF EventsTrue, EndsIn
  <1>6. RetainedTrue
    <2>1. ~ (changes > 0)
      BY <1>2
    <2> QED
      BY <1>1, <2>1 DEF RetainedTrue, Retained
  <1>7. \A s \in FromStart : KnownTrue(s) /\ EarlyTrue(s)
    BY <1>1, <1>2 DEF KnownTrue, EarlyTrue, Retained
  <1>8. \A j \in Interfaces : SpokenTrue(j)
    BY <1>1, <1>2, <1>4 DEF SpokenTrue
  <1> QED
    BY <1>2, <1>3, <1>5, <1>6, <1>7, <1>8 DEF KnownInv, SpokenInv

LEMMA ChannelsStep ==
  ASSUME SpokenInv,
         [\/ Change \/ \E s \in Subscribers : Subscribe(s)
          \/ \E c \in PahoClients : NetworkOfChannels(c)]_<<brokerVars, channelVars>>
  PROVE  SpokenInv'
  <1>0. ClientsOK(EventMessages) /\ ChannelTypes
    BY DEF SpokenInv, KnownInv, ChannelTypes
  <1>1. ASSUME Change
        PROVE  SpokenInv'
    <2> PICK i \in Interfaces : \E c \in Owner[i] :
               Register(c, i) \/ Unregister(c, i) \/ \E to \in BOOLEAN : Swap(c, i, to)
      BY <1>1 DEF Change
    <2>1. PICK c \in Owner[i] :
            Register(c, i) \/ Unregister(c, i) \/ \E to \in BOOLEAN : Swap(c, i, to)
      OBVIOUS
    <2>2. c \in PahoClients
      BY ChannelConstants
    <2>3. \E to \in BOOLEAN : Register(c, i) \/ Unregister(c, i) \/ Swap(c, i, to)
      BY <2>1
    <2>4. PICK e : Tell(c, i, e)
      BY <1>0, <2>2, <2>3, ChangeTells
    <2> QED
      BY <2>4, TellSpoken
  <1>2. ASSUME NEW c \in PahoClients, NetworkOfChannels(c)
        PROVE  SpokenInv'
    <2>1. CASE ForwardEvent(c)
      BY <2>1, ForwardSpoken
    <2>2. ASSUME Acknowledge(c) \/ Drop(c, << >>) \/ Reconnect(c), UNCHANGED channelVars
          PROVE  SpokenInv'
      <3>1. ClientsOK(EventMessages)' /\ \A d \in PahoClients : QueueKeeps(d)
        BY <1>0, <2>2, QuietStep
      <3>2. retained' = retained \/ retained' = Keep(<< >>)
        BY <2>2 DEF Acknowledge, Drop, Reconnect
      <3>3. DOMAIN retained' = DOMAIN retained /\ \A t \in DOMAIN retained : retained'[t] = retained[t]
        BY <3>2, KeepNothing
      <3> QED
        BY <2>2, <3>1, <3>3, ChannelsQuiet
    <2> QED
      BY <1>2, <2>1, <2>2 DEF NetworkOfChannels
  <1>3. ASSUME UNCHANGED <<brokerVars, channelVars>>
        PROVE  SpokenInv'
    <2>1. outbox' = outbox /\ sent' = sent /\ connected' = connected /\ retained' = retained
      BY <1>3 DEF brokerVars
    <2>2. ClientsOK(EventMessages)' /\ \A d \in PahoClients : QueueKeeps(d)
      BY <1>0, <2>1, SameKeeps DEF ClientsOK, QueueKeeps
    <2> QED
      BY <1>3, <2>1, <2>2, ChannelsQuiet
  <1> QED
    BY <1>1, <1>2, <1>3, SubscribeStep

\* What is known when all has been delivered.
LEMMA KnownSettles ==
  ASSUME SpokenInv
  PROVE  KnownModeTrue
  <1> SUFFICES ASSUME \A d \in PahoClients : outbox[d] = << >>
               PROVE  KnownModeTrue!2
    BY DEF KnownModeTrue, Delivered
  <1>0. /\ RetainedTrue /\ \A s \in listening : KnownTrue(s)
        /\ \A s \in FromStart : EarlyTrue(s)
        /\ \A j \in Interfaces : Owner[j] \subseteq PahoClients
    BY ChannelConstants DEF KnownInv, SpokenInv
  <1>1. \A d \in PahoClients : \A S : ~ ToCome(d, S)
    BY NothingComes DEF ToCome
  <1>2. \A s \in listening : \A i \in Interfaces :
          known[s][i] \in {Unknown} \cup {tracked[c][i] : c \in Owner[i]}
    BY <1>0, <1>1 DEF KnownTrue, SaidTrue
  <1>3. \A s \in FromStart : \A i \in Own :
          known[s][i] = Unknown => tracked[OwnerOf(i)][i] = Untracked
    <2> SUFFICES ASSUME NEW s \in FromStart, NEW i \in Own, known[s][i] = Unknown
                 PROVE  tracked[OwnerOf(i)][i] = Untracked
      OBVIOUS
    <2>1. PICK c \in PahoClients : Owner[i] = {c}
      BY DEF Own
    <2>2. i \in Interfaces /\ OwnerOf(i) = c
      BY <2>1 DEF Own, OwnerOf
    <2>3. ToCome(c, About(TopicOf(s), i)) \/ tracked[c][i] = Untracked
      BY <1>0, <2>1, <2>2 DEF EarlyTrue
    <2> QED
      BY <1>1, <2>2, <2>3
  <1>4. \A s \in listening \ {WebUI} : changes > 0 => \E i \in Interfaces : known[s][i] # Unknown
    BY <1>0, <1>1 DEF RetainedTrue, KnownTrue
  <1> QED
    BY <1>2, <1>3, <1>4

LEMMA AnnouncedSettles ==
  ASSUME SpokenInv
  PROVE  AnnouncedModeTrue
  <1> SUFFICES ASSUME \A d \in PahoClients : outbox[d] = << >>
               PROVE  AnnouncedModeTrue!2
    BY DEF AnnouncedModeTrue, Delivered
  <1>0. /\ \A j \in Interfaces : SpokenTrue(j) /\ Owner[j] \subseteq PahoClients
        /\ alerts \subseteq Interfaces
    BY ChannelConstants DEF KnownInv, SpokenInv, ChannelTypes
  <1>1. \A d \in PahoClients : \A S : ~ ToCome(d, S)
    BY NothingComes DEF ToCome
  <1>2. \A i \in Own : IF spoken[i] = Unknown THEN simulated[OwnerOf(i)][i]
                       ELSE spoken[i] = simulated[OwnerOf(i)][i]
    <2> TAKE i \in Own
    <2>1. PICK c \in PahoClients : Owner[i] = {c}
      BY DEF Own
    <2>2. i \in Interfaces /\ OwnerOf(i) = c
      BY <2>1 DEF Own, OwnerOf
    <2> QED
      BY <1>0, <1>1, <2>1, <2>2 DEF SpokenTrue
  <1>3. alerts = {i \in Interfaces : spoken[i] # Unknown}
    BY <1>0, <1>1 DEF SpokenTrue
  <1> QED
    BY <1>2, <1>3

\* For any processes, interfaces and subscribers and whichever connections are lost:
\* when all messages have been delivered, what a subscriber knows of an interface is
\* what a tracker of it has, one that has listened from the beginning knows of every
\* interface that one process tracks, and one that comes late knows of some.
THEOREM SubscribersKnowTheMode == ChannelsSpec => []KnownModeTrue
  <1>1. BrokerInit /\ ChannelsInit => SpokenInv
    BY ChannelsStart
  <1>2. SpokenInv /\ [\/ Change \/ \E s \in Subscribers : Subscribe(s)
                      \/ \E c \in PahoClients : NetworkOfChannels(c)]_<<brokerVars, channelVars>>
          => SpokenInv'
    BY ChannelsStep
  <1>3. SpokenInv => KnownModeTrue
    BY KnownSettles
  <1> QED
    BY <1>1, <1>2, <1>3, PTL DEF ChannelsSpec

\* In the same way: the mode announced last of an interface that one process tracks is
\* the one it has, nothing is announced of one that is what it was, and the HUD has
\* played its sound for exactly the interfaces of which a mode was announced.
THEOREM AnnouncementsAreTrue == ChannelsSpec => []AnnouncedModeTrue
  <1>1. BrokerInit /\ ChannelsInit => SpokenInv
    BY ChannelsStart
  <1>2. SpokenInv /\ [\/ Change \/ \E s \in Subscribers : Subscribe(s)
                      \/ \E c \in PahoClients : NetworkOfChannels(c)]_<<brokerVars, channelVars>>
          => SpokenInv'
    BY ChannelsStep
  <1>3. SpokenInv => AnnouncedModeTrue
    BY AnnouncedSettles
  <1> QED
    BY <1>1, <1>2, <1>3, PTL DEF ChannelsSpec
=============================================================================
