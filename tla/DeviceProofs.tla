---------------------------- MODULE DeviceProofs ----------------------------
(***************************************************************************)
(* Proofs about the device mocks of simulation/layer0: I2CBus, PinBank,       *)
(* ManagedCamera, SensorArray and Streams, each used by any number of threads *)
(* that make any number of calls.  What a history variable excuses (clashed,  *)
(* raced, jostled, shared, disturbed) is what overlapping calls may spoil; the *)
(* invariants say what no interleaving of the others can.                     *)
(***************************************************************************)
EXTENDS I2CBus, PinBank, ManagedCamera, SensorArray, Streams, BasicLemmas

---------------------------------------------------------------------------
(* The threads: how one of them moves while the others stay.                 *)

LEMMA CallMoved ==
  ASSUME NEW C, call \in [Threads -> C], NEW t \in Threads, NEW c, call' = [call EXCEPT ![t] = c]
  PROVE  /\ call'[t] = c
         /\ \A u \in Threads : u # t => call'[u] = call[u]
         /\ c \in C => call' \in [Threads -> C]
  OBVIOUS

\* A step of a call leaves the fields that it does not name.
LEMMA CallStepped ==
  ASSUME NEW C, call \in [Threads -> C], NEW t \in Threads, NEW step,
         call' = [call EXCEPT ![t].step = step]
  PROVE  call' = [call EXCEPT ![t] = [call[t] EXCEPT !.step = step]]
  OBVIOUS

---------------------------------------------------------------------------
(* Streams: what a call has read so far, and what has been accepted.         *)

StreamTypes ==
  /\ call \in [Threads -> StreamRecords \cup {Idle}]
  /\ counter \in [StreamDevices -> Nat]
  /\ accepted \in [StreamDevices -> Nat]

InUse(c, d) == c # Idle /\ c.device = d

\* The call c at its device, whose counter is at n and which has accepted m.
StreamRight(c, n, m) ==
  IF c.step = "reset" THEN m = 0
  ELSE IF c.device # "mic"
  THEN c.step \in {"running", "count", "add"} /\ n = m /\ (c.step = "add" => c.count = n)
  ELSE /\ c.amount = 1
       /\ \A k \in 1..Len(c.samples) : c.samples[k] = m + k - 1
       /\ n = m + Len(c.samples) - (IF c.step \in {"count", "add"} THEN 1 ELSE 0)
       /\ c.step = "running" => Len(c.samples) = 0
       /\ c.step = "sample" => Len(c.samples) < chunk_size
       /\ c.step \in {"count", "add"} => Len(c.samples) \in 1..chunk_size
       /\ c.step = "add" => c.count = n
       /\ c.step = "chunk" => Len(c.samples) = chunk_size

\* A device that no two calls have met at is used by one call at most, and that
\* call and its counters agree; between the calls, the counters do.
StreamInv ==
  \A d \in StreamDevices \ disturbed :
    /\ \A t, u \in Threads : InUse(call[t], d) /\ InUse(call[u], d) => t = u
    /\ \A t \in Threads : InUse(call[t], d) => StreamRight(call[t], counter[d], accepted[d])
    /\ (\A t \in Threads : ~ InUse(call[t], d)) => counter[d] = accepted[d]

LEMMA StreamCalls ==
  ASSUME NEW c \in StreamRecords
  PROVE  /\ c # Idle /\ c.device \in StreamDevices /\ "device" \in DOMAIN c
         /\ c.step # "reset" =>
              /\ c.amount \in Nat /\ c.samples \in Seq(Nat) /\ c.count \in Nat
              /\ c.step \in {"running", "sample", "count", "add", "chunk"}
              /\ DOMAIN c = {"step", "device", "amount", "samples", "count"}
         /\ c.step \in {"sample", "chunk"} => c.device = "mic"
  <1>0. c # Idle
    BY StreamConstants
  <1>1. CASE c \in [step : {"reset"}, device : StreamDevices]
    BY <1>0, <1>1
  <1>2. ASSUME NEW S, NEW D \in SUBSET StreamDevices,
               c \in [step : S, device : D, amount : Nat, samples : Seq(Nat), count : Nat]
        PROVE  /\ c.step \in S /\ c.device \in D /\ c.device \in StreamDevices /\ "device" \in DOMAIN c
               /\ c.amount \in Nat /\ c.samples \in Seq(Nat) /\ c.count \in Nat
               /\ DOMAIN c = {"step", "device", "amount", "samples", "count"}
    BY <1>2
  <1>3. CASE c \in [step : {"running", "count", "add"}, device : StreamDevices,
                    amount : Nat, samples : Seq(Nat), count : Nat]
    BY <1>0, <1>2, <1>3
  <1>4. CASE c \in [step : {"sample", "chunk"}, device : {"mic"},
                    amount : Nat, samples : Seq(Nat), count : Nat]
    <2>1. {"mic"} \in SUBSET StreamDevices
      BY DEF StreamDevices
    <2> QED
      BY <1>0, <1>2, <1>4, <2>1
  <1> QED
    BY <1>1, <1>3, <1>4 DEF StreamRecords

LEMMA StreamUses ==
  ASSUME StreamTypes, NEW t \in Threads
  PROVE  /\ \A d : Using(t, d) <=> InUse(call[t], d)
         /\ call[t] # Idle => call[t] \in StreamRecords
         /\ \A step : At(t, step) => call[t] # Idle /\ call[t].step = step
  BY StreamCalls DEF Using, InUse, Has, At, StreamTypes

\* One call goes on at its device d, and no other call is at d.
LEMMA StreamStays ==
  ASSUME StreamTypes, StreamInv, NEW t \in Threads, NEW d \in StreamDevices,
         NEW c \in StreamRecords \cup {Idle},
         call' = [call EXCEPT ![t] = c],
         call[t] = Idle \/ call[t].device = d, c = Idle \/ c.device = d,
         counter' \in [StreamDevices -> Nat], accepted' \in [StreamDevices -> Nat],
         \A e \in StreamDevices : e # d =>
           counter'[e] = counter[e] /\ accepted'[e] = accepted[e] /\ (e \in disturbed' <=> e \in disturbed),
         d \notin disturbed' => \A u \in Threads : u # t => ~ InUse(call[u], d),
         d \notin disturbed' => IF c = Idle THEN counter'[d] = accepted'[d]
                                ELSE StreamRight(c, counter'[d], accepted'[d])
  PROVE  StreamTypes' /\ StreamInv'
  <1>1. /\ call'[t] = c
        /\ \A u \in Threads : u # t => call'[u] = call[u]
        /\ call' \in [Threads -> StreamRecords \cup {Idle}]
    BY CallMoved DEF StreamTypes
  <1>2. StreamTypes'
    BY <1>1 DEF StreamTypes
  <1>3. ASSUME NEW e \in StreamDevices, e \notin disturbed'
        PROVE  /\ \A u, v \in Threads : InUse(call'[u], e) /\ InUse(call'[v], e) => u = v
               /\ \A u \in Threads : InUse(call'[u], e) => StreamRight(call'[u], counter'[e], accepted'[e])
               /\ (\A u \in Threads : ~ InUse(call'[u], e)) => counter'[e] = accepted'[e]
    <2>1. CASE e # d
      <3>1. \A u \in Threads : InUse(call'[u], e) <=> InUse(call[u], e)
        BY <1>1, <2>1 DEF InUse
      <3>2. \A u \in Threads : InUse(call[u], e) => call'[u] = call[u]
        BY <1>1, <2>1 DEF InUse
      <3>3. e \notin disturbed /\ counter'[e] = counter[e] /\ accepted'[e] = accepted[e]
        BY <1>3, <2>1
      <3> QED
        BY <3>1, <3>2, <3>3 DEF StreamInv
    <2>2. CASE e = d
      <3>1. \A u \in Threads : u # t => ~ InUse(call'[u], d)
        BY <1>1, <1>3, <2>2
      <3>2. InUse(call'[t], d) <=> c # Idle
        BY <1>1 DEF InUse
      <3> QED
        BY <1>1, <1>3, <2>2, <3>1, <3>2
    <2> QED
      BY <2>1, <2>2
  <1> QED
    BY <1>2, <1>3 DEF StreamInv

LEMMA StreamStepInv ==
  ASSUME StreamTypes, StreamInv, NEW t \in Threads, StreamStep(t)
  PROVE  StreamTypes' /\ StreamInv'
  <1> DEFINE c == call[t]
             d == c.device
             n == counter[d]
             m == accepted[d]
  <1>1. c \in StreamRecords /\ c # Idle /\ d \in StreamDevices
    BY StreamUses, StreamCalls DEF StreamStep, ResetCounter, CheckRunning, TakeSample, LoadCounter, StoreCounter,
       ChunkReturns, At
  <1>2. d \notin disturbed =>
          (\A u \in Threads : u # t => ~ InUse(call[u], d)) /\ StreamRight(c, n, m)
    BY <1>1 DEF StreamInv, InUse
  <1>3. n \in Nat /\ m \in Nat /\ chunk_size \in Nat \ {0} /\ counter = [counter EXCEPT ![d] = n]
    BY <1>1, StreamConstants DEF StreamTypes
  <1>4. /\ call \in [Threads -> StreamRecords \cup {Idle}]
        /\ counter \in [StreamDevices -> Nat] /\ accepted \in [StreamDevices -> Nat]
    BY DEF StreamTypes
  <1>5. c.step # "reset" =>
              /\ c.amount \in Nat /\ c.samples \in Seq(Nat) /\ c.count \in Nat
              /\ c.step \in {"running", "sample", "count", "add", "chunk"}
              /\ DOMAIN c = {"step", "device", "amount", "samples", "count"}
              /\ c.step \in {"sample", "chunk"} => d = "mic"
    BY <1>1, StreamCalls
  \* The step leaves the call as b, the counter at x and the history at y.
  <1>6. ASSUME NEW b \in StreamRecords \cup {Idle}, NEW x \in Nat, NEW y \in Nat,
               call' = [call EXCEPT ![t] = b], b = Idle \/ b.device = d,
               counter' = [counter EXCEPT ![d] = x], accepted' = [accepted EXCEPT ![d] = y],
               UNCHANGED disturbed,
               StreamRight(c, n, m) => IF b = Idle THEN x = y ELSE StreamRight(b, x, y)
        PROVE  StreamTypes' /\ StreamInv'
    <2>1. /\ counter' \in [StreamDevices -> Nat] /\ accepted' \in [StreamDevices -> Nat]
          /\ counter'[d] = x /\ accepted'[d] = y
          /\ \A e \in StreamDevices : e # d => counter'[e] = counter[e] /\ accepted'[e] = accepted[e]
      BY <1>1, <1>4, <1>6
    <2> HIDE DEF d, n, m
    <2>2. call[t] = Idle \/ call[t].device = d
      BY DEF d
    <2>3. d \notin disturbed' => IF b = Idle THEN counter'[d] = accepted'[d]
                                ELSE StreamRight(b, counter'[d], accepted'[d])
      BY <1>2, <1>6, <2>1
    <2> QED
      BY <1>1, <1>2, <1>6, <2>1, <2>2, <2>3, StreamStays
  <1>7. counter = [counter EXCEPT ![d] = n] /\ accepted = [accepted EXCEPT ![d] = m]
    BY <1>1, <1>4
  <1>8. ASSUME NEW s \in {"sample", "count", "chunk"}, c.step # "reset",
               s # "count" => d = "mic"
        PROVE  LET b == [c EXCEPT !.step = s]
               IN  /\ b \in StreamRecords /\ b # Idle /\ b.device = d /\ b.step = s /\ b.amount = c.amount
                   /\ b.samples = c.samples /\ b.count = c.count
    <2> DEFINE b == [c EXCEPT !.step = s]
    <2>1. /\ DOMAIN b = {"step", "device", "amount", "samples", "count"}
          /\ b.device = d /\ b.step = s /\ b.amount = c.amount /\ b.samples = c.samples /\ b.count = c.count
      BY <1>5, <1>8
    <2>2. b = [step |-> s, device |-> d, amount |-> c.amount, samples |-> c.samples, count |-> c.count]
      BY <1>5, <1>8
    <2>3. b \in StreamRecords
      <3>1. CASE s = "count"
        BY <1>1, <1>5, <1>8, <2>2, <3>1 DEF StreamRecords
      <3>2. CASE s \in {"sample", "chunk"} /\ d = "mic"
        BY <1>1, <1>5, <1>8, <2>2, <3>2 DEF StreamRecords
      <3> QED
        BY <1>8, <3>1, <3>2
    <2> QED
      BY <2>1, <2>3, StreamCalls
  <1>9. ASSUME NEW s, call' = [call EXCEPT ![t].step = s]
        PROVE  call' = [call EXCEPT ![t] = [c EXCEPT !.step = s]]
    BY <1>4, <1>9, CallStepped
  <1> HIDE DEF n, m, d
  <1>a. CASE ResetCounter(t)
    <2>1. /\ c.step = "reset" /\ call' = [call EXCEPT ![t] = Idle]
          /\ counter' = [counter EXCEPT ![d] = 0] /\ UNCHANGED <<accepted, disturbed>>
      BY <1>a DEF ResetCounter, At, Return, d
    <2>2. StreamRight(c, n, m) => m = 0
      BY <2>1 DEF StreamRight
    <2> QED
      BY <1>3, <1>6, <1>7, <2>1, <2>2
  <1>b. CASE CheckRunning(t)
    <2>1. c.step = "running" /\ UNCHANGED <<running, counter, accepted, disturbed>>
      BY <1>b DEF CheckRunning, At, streamState
    <2>2. CASE call' = [call EXCEPT ![t] = Idle]
      <3>1. StreamRight(c, n, m) => n = m
        BY <1>3, <1>5, <2>1 DEF StreamRight
      <3> QED
        BY <1>3, <1>6, <1>7, <2>1, <2>2, <3>1
    <2>3. ASSUME NEW s \in {"sample", "count"}, s = IF d = "mic" THEN "sample" ELSE "count",
                 call' = [call EXCEPT ![t].step = s]
          PROVE  StreamTypes' /\ StreamInv'
      <3>1. PICK b : b = [c EXCEPT !.step = s]
        OBVIOUS
      <3>2. /\ b \in StreamRecords /\ b # Idle /\ b.device = d /\ b.step = s /\ b.amount = c.amount
            /\ b.samples = c.samples /\ b.count = c.count
        BY <1>8, <2>1, <2>3, <3>1
      <3>3. StreamRight(c, n, m) => StreamRight(b, n, m)
        <4>1. SUFFICES ASSUME StreamRight(c, n, m) PROVE StreamRight(b, n, m)
          OBVIOUS
        <4>2. CASE d = "mic"
          <5>1. /\ c.amount = 1 /\ Len(c.samples) = 0 /\ n = m
                /\ \A k \in 1..Len(c.samples) : c.samples[k] = m + k - 1
            BY <1>3, <2>1, <4>1, <4>2 DEF StreamRight, d
          <5> QED
            BY <1>3, <2>3, <3>2, <4>2, <5>1 DEF StreamRight
        <4>3. CASE d # "mic"
          BY <2>1, <2>3, <3>2, <4>1, <4>3 DEF StreamRight, d
        <4> QED
          BY <4>2, <4>3
      <3> QED
        BY <1>3, <1>6, <1>7, <1>9, <2>1, <2>3, <3>1, <3>2, <3>3
    <2> QED
      BY <1>b, <2>2, <2>3 DEF CheckRunning, Return, Goto, d
  <1>c. CASE TakeSample(t)
    <2>1. /\ c.step = "sample" /\ UNCHANGED <<running, counter, accepted, disturbed>>
          /\ call' = [call EXCEPT ![t] = [c EXCEPT !.step = "count", !.samples = Append(@, counter["mic"])]]
      BY <1>c DEF TakeSample, At, streamState, Continue
    <2>2. PICK b : b = [c EXCEPT !.step = "count", !.samples = Append(@, counter["mic"])]
      OBVIOUS
    <2>3. /\ b = [step |-> "count", device |-> d, amount |-> c.amount,
                  samples |-> Append(c.samples, counter["mic"]), count |-> c.count]
          /\ b.device = d /\ b.step = "count" /\ b.amount = c.amount
          /\ b.samples = Append(c.samples, counter["mic"])
      BY <1>5, <2>1, <2>2 DEF d
    <2>4. counter["mic"] \in Nat
      BY <1>4 DEF StreamDevices
    <2>5. b \in StreamRecords
      BY <1>1, <1>5, <2>1, <2>3, <2>4 DEF StreamRecords
    <2>6. StreamRight(c, n, m) => StreamRight(b, n, m)
      <3>1. SUFFICES ASSUME StreamRight(c, n, m) PROVE StreamRight(b, n, m)
        OBVIOUS
      <3>2. d = "mic" /\ counter["mic"] = n
        BY <2>1, <3>1 DEF StreamRight, d, n
      <3>3. PICK L : L = Len(c.samples)
        OBVIOUS
      <3>4. L \in Nat /\ L < chunk_size /\ n = m + L /\ \A k \in 1..L : c.samples[k] = m + k - 1
        BY <1>3, <1>5, <2>1, <3>1, <3>2, <3>3 DEF StreamRight, d
      <3>5. /\ Len(b.samples) = L + 1 /\ b.samples[L + 1] = n
            /\ \A k \in 1..L : b.samples[k] = c.samples[k]
        BY <1>5, <2>1, <2>3, <3>2, <3>3, SeqPush
      <3>6. \A k \in 1..(L + 1) : b.samples[k] = m + k - 1
        <4>1. \A k \in 1..(L + 1) : k \in 1..L \/ k = L + 1
          BY <3>4
        <4> QED
          BY <1>3, <3>4, <3>5, <4>1
      <3>7. L + 1 \in 1..chunk_size /\ n = m + (L + 1) - 1
        BY <1>3, <3>4
      <3>8. b.amount = 1
        BY <2>1, <2>3, <3>1, <3>2 DEF StreamRight, d
      <3> QED
        BY <2>3, <3>2, <3>5, <3>6, <3>7, <3>8 DEF StreamRight
    <2>7. b # Idle /\ call' = [call EXCEPT ![t] = b]
      BY <2>1, <2>2, <2>5, StreamCalls
    <2>8. counter' = [counter EXCEPT ![d] = n] /\ accepted' = [accepted EXCEPT ![d] = m]
      BY <1>7, <2>1
    <2>9. StreamRight(c, n, m) => IF b = Idle THEN n = m ELSE StreamRight(b, n, m)
      BY <2>6, <2>7
    <2>a. b.device = d /\ UNCHANGED disturbed
      BY <2>1, <2>3
    <2> QED
      BY <1>3, <1>6, <2>5, <2>7, <2>8, <2>9, <2>a
  <1>d. CASE LoadCounter(t)
    <2>1. /\ c.step = "count" /\ UNCHANGED <<running, counter, accepted, disturbed>>
          /\ call' = [call EXCEPT ![t] = [c EXCEPT !.step = "add", !.count = n]]
      BY <1>d DEF LoadCounter, At, streamState, Continue, n, d
    <2>2. PICK b : b = [c EXCEPT !.step = "add", !.count = n]
      OBVIOUS
    <2>3. /\ b = [step |-> "add", device |-> d, amount |-> c.amount, samples |-> c.samples, count |-> n]
          /\ b.device = d /\ b.step = "add" /\ b.amount = c.amount /\ b.samples = c.samples /\ b.count = n
      BY <1>5, <2>1, <2>2 DEF d
    <2>4. b \in StreamRecords
      BY <1>1, <1>3, <1>5, <2>1, <2>3 DEF StreamRecords
    <2>5. StreamRight(c, n, m) => StreamRight(b, n, m)
      BY <1>3, <1>5, <2>1, <2>3 DEF StreamRight, d
    <2>6. b # Idle /\ call' = [call EXCEPT ![t] = b]
      BY <2>1, <2>2, <2>4, StreamCalls
    <2>7. counter' = [counter EXCEPT ![d] = n] /\ accepted' = [accepted EXCEPT ![d] = m]
      BY <1>7, <2>1
    <2>8. StreamRight(c, n, m) => IF b = Idle THEN n = m ELSE StreamRight(b, n, m)
      BY <2>5, <2>6
    <2>9. b.device = d /\ UNCHANGED disturbed
      BY <2>1, <2>3
    <2> QED
      BY <1>3, <1>6, <2>4, <2>6, <2>7, <2>8, <2>9
  <1>e. CASE StoreCounter(t)
    <2>1. /\ c.step = "add" /\ UNCHANGED <<running, disturbed>>
          /\ counter' = [counter EXCEPT ![d] = c.count + c.amount]
      BY <1>e DEF StoreCounter, At, d
    <2>2. c.count + c.amount \in Nat
      BY <1>5, <2>1
    <2>3. CASE d = "mic"
      <3> DEFINE s == IF Len(c.samples) < chunk_size THEN "sample" ELSE "chunk"
      <3>1. call' = [call EXCEPT ![t] = [c EXCEPT !.step = s]] /\ UNCHANGED accepted
        BY <1>e, <1>9, <2>3 DEF StoreCounter, Goto, d
      <3>2. PICK b : b = [c EXCEPT !.step = s]
        OBVIOUS
      <3>3. /\ b \in StreamRecords /\ b # Idle /\ b.device = d /\ b.step = s /\ b.amount = c.amount
            /\ b.samples = c.samples /\ b.count = c.count
        BY <1>8, <2>1, <2>3, <3>2
      <3>4. StreamRight(c, n, m) => StreamRight(b, c.count + c.amount, m)
        <4>1. SUFFICES ASSUME StreamRight(c, n, m) PROVE StreamRight(b, c.count + c.amount, m)
          OBVIOUS
        <4>2. PICK L : L = Len(c.samples)
          OBVIOUS
        <4>3. /\ c.amount = 1 /\ n = m + L - 1 /\ L \in 1..chunk_size /\ c.count = n
              /\ \A k \in 1..L : c.samples[k] = m + k - 1
          BY <2>1, <2>3, <4>1, <4>2 DEF StreamRight, d
        <4>4. c.count + c.amount = m + L - 0 /\ (~ (L < chunk_size) => L = chunk_size)
          BY <1>3, <4>3
        <4>5. b.step = (IF L < chunk_size THEN "sample" ELSE "chunk")
          BY <3>3, <4>2
        <4> HIDE DEF s
        <4> QED
          BY <2>3, <3>3, <4>2, <4>3, <4>4, <4>5 DEF StreamRight
      <3> QED
        BY <1>3, <1>6, <1>7, <2>1, <2>2, <3>1, <3>2, <3>3, <3>4
    <2>4. CASE d # "mic"
      <3>1. /\ call' = [call EXCEPT ![t] = Idle]
            /\ accepted' = [accepted EXCEPT ![d] = m + c.amount]
        BY <1>e, <1>1, <1>4, <2>4 DEF StoreCounter, Return, d, m
      <3>2. StreamRight(c, n, m) => c.count + c.amount = m + c.amount
        BY <2>1, <2>4 DEF StreamRight, d
      <3>3. m + c.amount \in Nat
        BY <1>3, <1>5, <2>1
      <3> QED
        BY <1>6, <2>1, <2>2, <3>1, <3>2, <3>3
    <2> QED
      BY <2>3, <2>4
  <1>f. CASE ChunkReturns(t)
    <2>1. c.step = "chunk" /\ UNCHANGED <<running, counter, disturbed>> /\ call' = [call EXCEPT ![t] = Idle]
      BY <1>f DEF ChunkReturns, At, Return
    <2>2. accepted' = [accepted EXCEPT !["mic"] = @ + chunk_size]
      BY <1>f DEF ChunkReturns
    <2>3. CASE d = "mic"
      <3>1. accepted' = [accepted EXCEPT ![d] = m + chunk_size]
        BY <1>4, <2>2, <2>3 DEF m
      <3>2. StreamRight(c, n, m) => n = m + chunk_size
        BY <1>3, <2>1, <2>3 DEF StreamRight, d
      <3>3. m + chunk_size \in Nat
        BY <1>3
      <3> QED
        BY <1>3, <1>6, <1>7, <2>1, <3>1, <3>2, <3>3
    <2>4. d = "mic"
      BY <1>5, <2>1
    <2> QED
      BY <2>3, <2>4
  <1> QED
    BY <1>a, <1>b, <1>c, <1>d, <1>e, <1>f DEF StreamStep

LEMMA StreamCallInv ==
  ASSUME StreamTypes, StreamInv, NEW t \in Threads, StreamCall(t)
  PROVE  StreamTypes' /\ StreamInv'
  <1>0. /\ call \in [Threads -> StreamRecords \cup {Idle}]
        /\ counter \in [StreamDevices -> Nat] /\ accepted \in [StreamDevices -> Nat]
    BY DEF StreamTypes
  <1>1. \A d, u \in Threads : Using(u, d) <=> InUse(call[u], d)
    BY StreamUses
  <1>2. ASSUME NEW d \in StreamDevices, start(t, d)
        PROVE  StreamTypes' /\ StreamInv'
    <2>1. PICK b : b = [step |-> "reset", device |-> d]
      OBVIOUS
    <2>2. b \in StreamRecords /\ b.device = d /\ b.step = "reset"
      BY <2>1 DEF StreamRecords
    <2>3. /\ call[t] = Idle /\ call' = [call EXCEPT ![t] = b] /\ UNCHANGED counter
          /\ accepted' = [accepted EXCEPT ![d] = 0]
          /\ disturbed' = IF \E u \in Threads : Using(u, d) THEN disturbed \cup {d} ELSE disturbed \ {d}
      BY <1>2, <2>1 DEF start, Begin
    <2>4. /\ accepted' \in [StreamDevices -> Nat] /\ accepted'[d] = 0
          /\ \A e \in StreamDevices : e # d => accepted'[e] = accepted[e] /\ (e \in disturbed' <=> e \in disturbed)
      BY <1>0, <2>3
    <2>5. d \notin disturbed' => \A u \in Threads : ~ InUse(call[u], d)
      BY <1>1, <2>3, StreamUses
    <2>6. StreamRight(b, counter'[d], accepted'[d])
      BY <2>2, <2>4 DEF StreamRight
    <2>7. b # Idle
      BY <2>2, StreamCalls
    <2> QED
      BY <1>0, <2>2, <2>3, <2>4, <2>5, <2>6, <2>7, StreamStays
  <1>3. ASSUME NEW d \in StreamDevices, stop(t, d)
        PROVE  StreamTypes' /\ StreamInv'
    BY <1>3 DEF stop, Quick, StreamTypes, StreamInv
  <1>4. ASSUME NEW d \in StreamDevices, NEW n \in Nat, d = "mic" => n = 1, use(t, d, n)
        PROVE  StreamTypes' /\ StreamInv'
    <2>1. PICK b : b = [step |-> "running", device |-> d, amount |-> n, samples |-> << >>, count |-> 0]
      OBVIOUS
    <2>2. /\ b \in StreamRecords /\ b.device = d /\ b.step = "running" /\ b.amount = n
          /\ b.samples = << >> /\ Len(b.samples) = 0
      BY <2>1 DEF StreamRecords
    <2>3. /\ call[t] = Idle /\ call' = [call EXCEPT ![t] = b] /\ UNCHANGED <<counter, accepted>>
          /\ disturbed' = IF \E u \in Threads \ {t} : Using(u, d) THEN disturbed \cup {d} ELSE disturbed
      BY <1>4, <2>1 DEF use, Begin, Disturb
    <2>4. d \notin disturbed' => \A u \in Threads : ~ InUse(call[u], d)
      BY <2>3, StreamUses DEF InUse
    <2>5. d \notin disturbed' => counter[d] = accepted[d]
      BY <2>3, <2>4 DEF StreamInv
    <2>6. d \notin disturbed' => StreamRight(b, counter'[d], accepted'[d])
      <3>1. counter[d] \in Nat /\ accepted[d] \in Nat
        BY <1>0
      <3> QED
        BY <1>4, <2>2, <2>3, <2>5, <3>1 DEF StreamRight
    <2>7. b # Idle /\ \A e \in StreamDevices : e # d => (e \in disturbed' <=> e \in disturbed)
      BY <2>2, <2>3, StreamCalls
    <2> QED
      BY <1>0, <2>2, <2>3, <2>4, <2>6, <2>7, StreamStays
  <1>5. /\ {"mic", "spi", "speaker"} = StreamDevices /\ 1 \in Nat /\ \A n \in Lengths : n \in Nat
    BY StreamConstants DEF StreamDevices
  <1> QED
    BY <1>2, <1>3, <1>4, <1>5 DEF StreamCall

LEMMA StreamsSuffice ==
  ASSUME StreamTypes, StreamInv
  PROVE  StreamsWhole
  <1>1. ASSUME "mic" \notin disturbed, NEW t \in Threads, At(t, "chunk")
        PROVE  /\ Len(call[t].samples) = chunk_size
               /\ \A k \in 1..chunk_size : call[t].samples[k] = accepted["mic"] + k - 1
    <2>1. call[t] \in StreamRecords /\ call[t].step = "chunk" /\ call[t] # Idle
      BY <1>1, StreamUses
    <2>2. call[t].device = "mic"
      BY <2>1, StreamCalls
    <2>3. StreamRight(call[t], counter["mic"], accepted["mic"])
      BY <1>1, <2>1, <2>2 DEF StreamInv, InUse, StreamDevices
    <2> QED
      BY <2>1, <2>2, <2>3 DEF StreamRight
  <1>2. ASSUME NEW d \in {"speaker", "spi"} \ disturbed, \A t \in Threads : ~ Using(t, d)
        PROVE  counter[d] = accepted[d]
    BY <1>2, StreamUses DEF StreamInv, StreamDevices
  <1> QED
    BY <1>1, <1>2 DEF StreamsWhole

\* StreamsWhole holds: a device that no two calls have met at is used by one call
\* at a time, which finds its counter where the last one has left it.
THEOREM ChunksJoin == StreamSpec => []StreamsWhole
  <1>1. CallersInit /\ StreamInit => StreamTypes /\ StreamInv
    BY DEF CallersInit, StreamInit, StreamTypes, StreamInv, InUse
  <1>2. StreamTypes /\ StreamInv /\ [\E t \in Threads : StreamCall(t) \/ StreamStep(t)]_streamVars
          => StreamTypes' /\ StreamInv'
    <2>1. StreamTypes /\ StreamInv /\ UNCHANGED streamVars => StreamTypes' /\ StreamInv'
      BY DEF streamVars, callerVars, StreamTypes, StreamInv, InUse
    <2> QED
      BY <2>1, StreamCallInv, StreamStepInv
  <1> QED
    BY <1>1, <1>2, StreamsSuffice, PTL DEF StreamSpec

---------------------------------------------------------------------------
(* PinBank: who is writing a pin, and what its callback has seen.            *)

PinEntries ==
  [mode : {"in", "out"}, value : {LOW, HIGH}, edge_callback : Callbacks \cup {NoCallback}]

PinTypes ==
  /\ call \in [Threads -> PinRecords \cup {Idle}]
  /\ pins \in [Pins -> PinEntries \cup {NotSetUp}]
  /\ seen \in [Pins -> {LOW, HIGH}]

AtPin(c, p) == c # Idle /\ c.pin = p

Watched(x) == x # NotSetUp /\ x.edge_callback # NoCallback

\* The call c of output at a pin whose entry is x, seen last at y: until the value
\* is written, the callback knows it; then it knows the value that was read.
OutputRight(c, x, y) ==
  /\ c.step \in {"check", "read", "write"} => (Watched(x) => y = x.value)
  /\ c.step = "write" => (x # NotSetUp => c.old = x.value)
  /\ c.step = "edge" => (x # NotSetUp => c.value = x.value /\ (Watched(x) => y = c.old))

PinInv ==
  \A p \in Pins \ raced :
    /\ \A t, u \in Threads : AtPin(call[t], p) /\ AtPin(call[u], p) => t = u
    /\ \A t \in Threads : AtPin(call[t], p) => OutputRight(call[t], pins[p], seen[p])
    /\ (\A t \in Threads : ~ AtPin(call[t], p)) => (Watched(pins[p]) => seen[p] = pins[p].value)

LEMMA OutputCalls ==
  ASSUME NEW c \in PinRecords
  PROVE  /\ c # Idle /\ "pin" \in DOMAIN c /\ c.pin \in Pins
         /\ c.step \in {"check", "read", "write", "edge", "callback"}
         /\ c.step \in {"check", "read"} =>
              DOMAIN c = {"step", "pin", "value"} /\ c.value \in {LOW, HIGH}
         /\ c.step \in {"write", "edge"} =>
              /\ DOMAIN c = {"step", "pin", "value", "old"}
              /\ c.value \in {LOW, HIGH} /\ c.old \in {LOW, HIGH}
         /\ c.step = "callback" => c.callback \in Callbacks
  <1>0. c # Idle
    BY PinConstants
  <1>1. CASE c \in [step : {"check", "read"}, pin : Pins, value : {LOW, HIGH}]
    BY <1>0, <1>1
  <1>2. CASE c \in [step : {"write", "edge"}, pin : Pins, value : {LOW, HIGH}, old : {LOW, HIGH}]
    BY <1>0, <1>2
  <1>3. CASE c \in [step : {"callback"}, pin : Pins, callback : Callbacks]
    BY <1>0, <1>3
  <1> QED
    BY <1>1, <1>2, <1>3 DEF PinRecords

LEMMA PinWriters ==
  ASSUME PinTypes, NEW t \in Threads
  PROVE  /\ \A p : t \in Writers(p) <=> AtPin(call[t], p)
         /\ call[t] # Idle => call[t] \in PinRecords
         /\ \A step : At(t, step) => call[t] \in PinRecords /\ call[t] # Idle /\ call[t].step = step
  BY OutputCalls DEF Writers, Writing, AtPin, Has, At, PinTypes

LEMMA PinEntry ==
  ASSUME PinTypes, NEW p \in Pins, pins[p] # NotSetUp
  PROVE  /\ pins[p] \in PinEntries
         /\ pins[p].value \in {LOW, HIGH} /\ pins[p].edge_callback \in Callbacks \cup {NoCallback}
         /\ pins[p].mode \in {"in", "out"} /\ DOMAIN pins[p] = {"mode", "value", "edge_callback"}
  BY DEF PinTypes, PinEntries

\* What a step of t does to a pin: it leaves it, or takes its callback or the pin
\* away, or t alone is at it.
LEMMA PinStays ==
  ASSUME PinTypes, PinInv, NEW t \in Threads,
         NEW c \in PinRecords \cup {Idle}, call' = [call EXCEPT ![t] = c],
         pins' \in [Pins -> PinEntries \cup {NotSetUp}], seen' \in [Pins -> {LOW, HIGH}],
         \A p \in Pins : p \notin raced' =>
           \/ /\ p \notin raced /\ ~ AtPin(call[t], p) /\ ~ AtPin(c, p) /\ seen'[p] = seen[p]
              /\ \/ pins'[p] = pins[p]
                 \/ pins'[p] = NotSetUp
                 \/ /\ pins[p] # NotSetUp /\ pins'[p].value = pins[p].value
                    /\ pins'[p].edge_callback = NoCallback
           \/ /\ \A u \in Threads : u # t => ~ AtPin(call[u], p)
              /\ IF AtPin(c, p) THEN OutputRight(c, pins'[p], seen'[p])
                 ELSE Watched(pins'[p]) => seen'[p] = pins'[p].value
  PROVE  PinTypes' /\ PinInv'
  <1>1. /\ call'[t] = c
        /\ \A u \in Threads : u # t => call'[u] = call[u]
        /\ call' \in [Threads -> PinRecords \cup {Idle}]
    BY CallMoved DEF PinTypes
  <1>2. PinTypes'
    BY <1>1 DEF PinTypes
  <1>3. ASSUME NEW p \in Pins, p \notin raced'
        PROVE  /\ \A u, v \in Threads : AtPin(call'[u], p) /\ AtPin(call'[v], p) => u = v
               /\ \A u \in Threads : AtPin(call'[u], p) => OutputRight(call'[u], pins'[p], seen'[p])
               /\ (\A u \in Threads : ~ AtPin(call'[u], p)) => (Watched(pins'[p]) => seen'[p] = pins'[p].value)
    <2>1. CASE /\ p \notin raced /\ ~ AtPin(call[t], p) /\ ~ AtPin(c, p) /\ seen'[p] = seen[p]
               /\ \/ pins'[p] = pins[p]
                  \/ pins'[p] = NotSetUp
                  \/ /\ pins[p] # NotSetUp /\ pins'[p].value = pins[p].value
                     /\ pins'[p].edge_callback = NoCallback
      <3>1. \A u \in Threads : /\ AtPin(call'[u], p) <=> AtPin(call[u], p)
                               /\ AtPin(call[u], p) => call'[u] = call[u]
        BY <1>1, <2>1
      <3>2. /\ Watched(pins'[p]) => pins'[p] = pins[p]
            /\ pins'[p] # NotSetUp => pins[p] # NotSetUp /\ pins'[p].value = pins[p].value
        BY <2>1 DEF Watched
      <3>3. /\ \A u, v \in Threads : AtPin(call[u], p) /\ AtPin(call[v], p) => u = v
            /\ \A u \in Threads : AtPin(call[u], p) => OutputRight(call[u], pins[p], seen[p])
            /\ (\A u \in Threads : ~ AtPin(call[u], p)) => (Watched(pins[p]) => seen[p] = pins[p].value)
        BY <2>1 DEF PinInv
      <3>4. ASSUME NEW b, OutputRight(b, pins[p], seen[p])
            PROVE  OutputRight(b, pins'[p], seen'[p])
        BY <2>1, <3>2, <3>4 DEF OutputRight
      <3> QED
        BY <2>1, <3>1, <3>2, <3>3, <3>4
    <2>2. CASE /\ \A u \in Threads : u # t => ~ AtPin(call[u], p)
               /\ IF AtPin(c, p) THEN OutputRight(c, pins'[p], seen'[p])
                  ELSE Watched(pins'[p]) => seen'[p] = pins'[p].value
      BY <1>1, <2>2
    <2> QED
      BY <1>3, <2>1, <2>2
  <1> QED
    BY <1>2, <1>3 DEF PinInv

LEMMA PinCallInv ==
  ASSUME PinTypes, PinInv, NEW t \in Threads, PinCall(t)
  PROVE  PinTypes' /\ PinInv'
  <1>0. /\ call \in [Threads -> PinRecords \cup {Idle}]
        /\ pins \in [Pins -> PinEntries \cup {NotSetUp}] /\ seen \in [Pins -> {LOW, HIGH}]
    BY DEF PinTypes
  <1>1. ASSUME Quick(t)
        PROVE  call[t] = Idle /\ call' = [call EXCEPT ![t] = Idle]
    BY <1>0, <1>1 DEF Quick
  <1>2. \A p \in Pins : ~ AtPin(Idle, p)
    BY DEF AtPin
  <1>3. ASSUME NEW p \in Pins, \A u \in Threads : u \notin Writers(p)
        PROVE  \A u \in Threads : ~ AtPin(call[u], p)
    BY <1>3, PinWriters
  <1>a. CASE setmode(t)
    BY <1>a DEF setmode, Quick, PinTypes, PinInv
  <1>b. CASE cleanup_all(t)
    <2>1. /\ pins' = [p \in Pins |-> NotSetUp] /\ UNCHANGED <<seen, raced>>
          /\ call[t] = Idle /\ call' = [call EXCEPT ![t] = Idle]
      BY <1>1, <1>b DEF cleanup_all
    <2>2. pins' \in [Pins -> PinEntries \cup {NotSetUp}] /\ \A p \in Pins : pins'[p] = NotSetUp
      BY <2>1
    <2> QED
      BY <1>0, <1>2, <2>1, <2>2, PinStays
  <1>c. ASSUME NEW p \in Pins, NEW v \in {LOW, HIGH}, output(t, p, v)
        PROVE  PinTypes' /\ PinInv'
    <2>1. PICK c : c = Output(p, v)
      OBVIOUS
    <2>2. c \in PinRecords /\ c.step = "check" /\ c.pin = p
      BY <2>1 DEF Output, PinRecords
    <2>3. /\ call[t] = Idle /\ call' = [call EXCEPT ![t] = c] /\ UNCHANGED <<pins, seen>>
          /\ raced' = IF Writers(p) # {} THEN raced \cup {p} ELSE raced
      BY <1>c, <2>1 DEF output, Begin, Meets
    <2>4. \A q : AtPin(c, q) <=> q = p
      BY <2>2, OutputCalls DEF AtPin
    <2>5. ASSUME p \notin raced'
          PROVE  /\ \A u \in Threads : ~ AtPin(call[u], p)
                 /\ OutputRight(c, pins[p], seen[p])
      <3>1. \A u \in Threads : ~ AtPin(call[u], p)
        BY <1>3, <2>3, <2>5
      <3> QED
        BY <2>2, <2>3, <2>5, <3>1 DEF PinInv, OutputRight
    <2>6. \A q \in Pins : q \notin raced' =>
            \/ q \notin raced /\ ~ AtPin(call[t], q) /\ ~ AtPin(c, q) /\ seen'[q] = seen[q] /\ pins'[q] = pins[q]
            \/ (\A u \in Threads : u # t => ~ AtPin(call[u], q)) /\ AtPin(c, q) /\ OutputRight(c, pins'[q], seen'[q])
      BY <1>2, <2>3, <2>4, <2>5
    <2> QED
      BY <1>0, <2>2, <2>3, <2>6, PinStays
  <1>d. ASSUME NEW p \in Pins, NEW d \in {"in", "out"}, setup(t, p, d, LOW)
        PROVE  PinTypes' /\ PinInv'
    <2>1. PICK x : x = [mode |-> d, value |-> LOW, edge_callback |-> NoCallback]
      OBVIOUS
    <2>2. x \in PinEntries /\ ~ Watched(x)
      BY <2>1 DEF PinEntries, Watched
    <2>3. /\ call[t] = Idle /\ call' = [call EXCEPT ![t] = Idle] /\ UNCHANGED seen
          /\ pins' = [pins EXCEPT ![p] = x]
          /\ raced' = IF Writers(p) # {} THEN raced \cup {p} ELSE raced \ {p}
      BY <1>1, <1>d, <2>1 DEF setup
    <2>4. /\ pins' \in [Pins -> PinEntries \cup {NotSetUp}] /\ pins'[p] = x
          /\ \A q \in Pins : q # p => pins'[q] = pins[q]
      BY <1>0, <2>2, <2>3
    <2>5. p \notin raced' => \A u \in Threads : ~ AtPin(call[u], p)
      BY <1>3, <2>3
    <2>6. \A q \in Pins : q \notin raced' =>
            \/ q \notin raced /\ ~ AtPin(call[t], q) /\ ~ AtPin(Idle, q) /\ seen'[q] = seen[q] /\ pins'[q] = pins[q]
            \/ (\A u \in Threads : u # t => ~ AtPin(call[u], q)) /\ ~ AtPin(Idle, q)
               /\ (Watched(pins'[q]) => seen'[q] = pins'[q].value)
      BY <1>2, <2>2, <2>3, <2>4, <2>5
    <2> QED
      BY <1>0, <2>3, <2>4, <2>6, PinStays
  <1>e. ASSUME NEW p \in Pins, NEW b \in Callbacks, add_event_detect(t, p, b)
        PROVE  PinTypes' /\ PinInv'
    <2>1. PICK x : x = [pins[p] EXCEPT !.edge_callback = b]
      OBVIOUS
    <2>2. pins[p] # NotSetUp
      BY <1>e DEF add_event_detect, Known
    <2>3. x = [mode |-> pins[p].mode, value |-> pins[p].value, edge_callback |-> b]
      BY <2>1, <2>2, PinEntry
    <2>4. x \in PinEntries /\ x.value = pins[p].value
      BY <2>2, <2>3, PinEntry DEF PinEntries
    <2>5. /\ call[t] = Idle /\ call' = [call EXCEPT ![t] = Idle]
          /\ pins' = [pins EXCEPT ![p] = x] /\ seen' = [seen EXCEPT ![p] = pins[p].value]
          /\ raced' = IF Writers(p) # {} THEN raced \cup {p} ELSE raced
      BY <1>0, <1>1, <1>e, <2>1 DEF add_event_detect, Meets
    <2>6. /\ pins' \in [Pins -> PinEntries \cup {NotSetUp}] /\ pins'[p] = x
          /\ seen' \in [Pins -> {LOW, HIGH}] /\ seen'[p] = x.value
          /\ \A q \in Pins : q # p => pins'[q] = pins[q] /\ seen'[q] = seen[q]
      BY <1>0, <2>2, <2>4, <2>5, PinEntry
    <2>7. p \notin raced' => \A u \in Threads : ~ AtPin(call[u], p)
      BY <1>3, <2>5
    <2>8. \A q \in Pins : q \notin raced' => q \notin raced
      BY <2>5
    <2>9. \A q \in Pins : q \notin raced' =>
            \/ q \notin raced /\ ~ AtPin(call[t], q) /\ ~ AtPin(Idle, q) /\ seen'[q] = seen[q] /\ pins'[q] = pins[q]
            \/ (\A u \in Threads : u # t => ~ AtPin(call[u], q)) /\ ~ AtPin(Idle, q)
               /\ (Watched(pins'[q]) => seen'[q] = pins'[q].value)
      BY <1>2, <2>5, <2>6, <2>7, <2>8
    <2> QED
      BY <2>5, <2>6, <2>9, PinStays
  <1>f. ASSUME NEW p \in Pins, remove_event_detect(t, p)
        PROVE  PinTypes' /\ PinInv'
    <2>1. PICK x : x = [pins[p] EXCEPT !.edge_callback = NoCallback]
      OBVIOUS
    <2>2. pins[p] # NotSetUp
      BY <1>f DEF remove_event_detect, Known
    <2>3. x = [mode |-> pins[p].mode, value |-> pins[p].value, edge_callback |-> NoCallback]
      BY <2>1, <2>2, PinEntry
    <2>4. x \in PinEntries /\ x.value = pins[p].value /\ x.edge_callback = NoCallback
      BY <2>2, <2>3, PinEntry DEF PinEntries
    <2>5. /\ call[t] = Idle /\ call' = [call EXCEPT ![t] = Idle]
          /\ pins' = [pins EXCEPT ![p] = x] /\ UNCHANGED <<seen, raced>>
      BY <1>0, <1>1, <1>f, <2>1 DEF remove_event_detect
    <2>6. /\ pins' \in [Pins -> PinEntries \cup {NotSetUp}] /\ pins'[p] = x
          /\ \A q \in Pins : q # p => pins'[q] = pins[q]
      BY <1>0, <2>4, <2>5
    <2> QED
      BY <1>0, <1>2, <2>2, <2>4, <2>5, <2>6, PinStays
  <1>g. ASSUME NEW p \in Pins, cleanup(t, p)
        PROVE  PinTypes' /\ PinInv'
    <2>1. /\ call[t] = Idle /\ call' = [call EXCEPT ![t] = Idle]
          /\ pins' = [pins EXCEPT ![p] = NotSetUp] /\ UNCHANGED <<seen, raced>>
      BY <1>1, <1>g DEF cleanup
    <2>2. /\ pins' \in [Pins -> PinEntries \cup {NotSetUp}] /\ pins'[p] = NotSetUp
          /\ \A q \in Pins : q # p => pins'[q] = pins[q]
      BY <1>0, <2>1
    <2> QED
      BY <1>0, <1>2, <2>1, <2>2, PinStays
  <1> QED
    BY <1>a, <1>b, <1>c, <1>d, <1>e, <1>f, <1>g DEF PinCall

LEMMA PinStepInv ==
  ASSUME PinTypes, PinInv, NEW t \in Threads, PinStep(t)
  PROVE  PinTypes' /\ PinInv'
  <1> DEFINE c == call[t]
             p == c.pin
  <1>0. /\ call \in [Threads -> PinRecords \cup {Idle}]
        /\ pins \in [Pins -> PinEntries \cup {NotSetUp}] /\ seen \in [Pins -> {LOW, HIGH}]
    BY DEF PinTypes
  <1>1. c \in PinRecords /\ c # Idle /\ p \in Pins
    BY PinWriters, OutputCalls
    DEF PinStep, CheckPin, PinGone, ReadOld, WriteValue, TestEdge, RunCallback
  <1>2. /\ c.step \in {"check", "read"} =>
             DOMAIN c = {"step", "pin", "value"} /\ c.value \in {LOW, HIGH}
        /\ c.step \in {"write", "edge"} =>
             /\ DOMAIN c = {"step", "pin", "value", "old"}
             /\ c.value \in {LOW, HIGH} /\ c.old \in {LOW, HIGH}
        /\ c.step = "callback" => c.callback \in Callbacks
    BY <1>1, OutputCalls
  <1>3. p \notin raced => (\A u \in Threads : u # t => ~ AtPin(call[u], p)) /\ OutputRight(c, pins[p], seen[p])
    BY <1>1 DEF PinInv, AtPin
  <1>4. \A q : AtPin(c, q) <=> q = p
    BY <1>1 DEF AtPin
  \* The call goes on at its pin, or returns: its pin and the callback of it.
  <1>5. ASSUME NEW b \in PinRecords \cup {Idle}, call' = [call EXCEPT ![t] = b], b = Idle \/ b.pin = p,
               NEW x \in PinEntries \cup {NotSetUp}, NEW y \in {LOW, HIGH},
               pins' = [pins EXCEPT ![p] = x], seen' = [seen EXCEPT ![p] = y], UNCHANGED raced,
               OutputRight(c, pins[p], seen[p]) =>
                 IF b # Idle THEN OutputRight(b, x, y) ELSE Watched(x) => y = x.value
        PROVE  PinTypes' /\ PinInv'
    <2>1. /\ pins' \in [Pins -> PinEntries \cup {NotSetUp}] /\ pins'[p] = x
          /\ seen' \in [Pins -> {LOW, HIGH}] /\ seen'[p] = y
          /\ \A q \in Pins : q # p => pins'[q] = pins[q] /\ seen'[q] = seen[q]
      BY <1>0, <1>1, <1>5
    <2>2. \A q : AtPin(b, q) => q = p
      BY <1>5 DEF AtPin
    <2>3. AtPin(b, p) <=> b # Idle
      BY <1>5 DEF AtPin
    <2> HIDE DEF p
    <2>4. \A q \in Pins : q \notin raced' =>
            \/ q \notin raced /\ ~ AtPin(call[t], q) /\ ~ AtPin(b, q) /\ seen'[q] = seen[q] /\ pins'[q] = pins[q]
            \/ /\ \A u \in Threads : u # t => ~ AtPin(call[u], q)
               /\ IF AtPin(b, q) THEN OutputRight(b, pins'[q], seen'[q])
                  ELSE Watched(pins'[q]) => seen'[q] = pins'[q].value
      <3>1. ASSUME NEW q \in Pins, q # p, q \notin raced'
            PROVE  q \notin raced /\ ~ AtPin(call[t], q) /\ ~ AtPin(b, q) /\ seen'[q] = seen[q] /\ pins'[q] = pins[q]
        BY <1>4, <1>5, <2>1, <2>2, <3>1
      <3>2. ASSUME p \notin raced'
            PROVE  /\ \A u \in Threads : u # t => ~ AtPin(call[u], p)
                   /\ IF AtPin(b, p) THEN OutputRight(b, pins'[p], seen'[p])
                      ELSE Watched(pins'[p]) => seen'[p] = pins'[p].value
        BY <1>3, <1>5, <2>1, <2>3, <3>2
      <3> QED
        BY <3>1, <3>2
    <2> QED
      BY <1>0, <1>5, <2>1, <2>4, PinStays
  <1>6. pins = [pins EXCEPT ![p] = pins[p]] /\ seen = [seen EXCEPT ![p] = seen[p]] /\ seen[p] \in {LOW, HIGH}
        /\ pins[p] \in PinEntries \cup {NotSetUp}
    BY <1>0, <1>1
  <1>7. ASSUME NEW s, call' = [call EXCEPT ![t].step = s]
        PROVE  call' = [call EXCEPT ![t] = [c EXCEPT !.step = s]]
    BY <1>0, <1>7, CallStepped
  <1> HIDE DEF p
  <1>a. CASE CheckPin(t)
    <2>1. c.step = "check" /\ UNCHANGED <<pins, seen, raced>>
      BY <1>a DEF CheckPin, At, bankVars
    <2>2. OutputRight(c, pins[p], seen[p]) => (Watched(pins[p]) => seen[p] = pins[p].value)
      BY <2>1 DEF OutputRight
    <2>3. CASE call' = [call EXCEPT ![t] = Idle]
      BY <1>5, <1>6, <2>1, <2>2, <2>3
    <2>4. CASE call' = [call EXCEPT ![t].step = "read"]
      <3>1. PICK b : b = [c EXCEPT !.step = "read"]
        OBVIOUS
      <3>2. b = [step |-> "read", pin |-> p, value |-> c.value] /\ c.value \in {LOW, HIGH}
        BY <1>2, <2>1, <3>1 DEF p
      <3>3. b \in PinRecords /\ b.step = "read" /\ b.pin = p
        BY <1>1, <3>2 DEF PinRecords
      <3>4. OutputRight(c, pins[p], seen[p]) => OutputRight(b, pins[p], seen[p])
        BY <2>2, <3>3 DEF OutputRight
      <3>5. call' = [call EXCEPT ![t] = b] /\ b # Idle
        BY <1>7, <2>4, <3>1, <3>3, OutputCalls
      <3> QED
        BY <1>5, <1>6, <2>1, <3>3, <3>4, <3>5
    <2> QED
      BY <1>a, <2>3, <2>4 DEF CheckPin, Goto, Return
  <1>b. CASE PinGone(t)
    <2>1. pins[p] = NotSetUp /\ UNCHANGED <<pins, seen, raced>> /\ call' = [call EXCEPT ![t] = Idle]
      BY <1>b DEF PinGone, Known, Return, bankVars, p
    <2>2. ~ Watched(pins[p])
      BY <2>1 DEF Watched
    <2> QED
      BY <1>5, <1>6, <2>1, <2>2
  <1>c. CASE ReadOld(t)
    <2>1. PICK b : b = [step |-> "write", pin |-> p, value |-> c.value, old |-> pins[p].value]
      OBVIOUS
    <2>2. /\ c.step = "read" /\ UNCHANGED <<pins, seen, raced>> /\ pins[p] # NotSetUp
          /\ call' = [call EXCEPT ![t] = b]
      BY <1>c, <2>1 DEF ReadOld, At, Known, Continue, bankVars, p
    <2>3. pins[p].value \in {LOW, HIGH}
      BY <1>1, <2>2, PinEntry
    <2>4. b \in PinRecords /\ b.pin = p /\ b.step = "write" /\ b.old = pins[p].value
      BY <1>1, <1>2, <2>1, <2>2, <2>3 DEF PinRecords
    <2>5. OutputRight(c, pins[p], seen[p]) => OutputRight(b, pins[p], seen[p])
      BY <2>2, <2>4 DEF OutputRight
    <2>6. b # Idle
      BY <2>4, OutputCalls
    <2>7. b.pin = p /\ UNCHANGED raced /\ pins' = [pins EXCEPT ![p] = pins[p]] /\ seen' = [seen EXCEPT ![p] = seen[p]]
      BY <1>6, <2>2, <2>4
    <2>8. call' = [call EXCEPT ![t] = b] /\ b \in PinRecords
      BY <2>2, <2>4
    <2> QED
      BY <1>5, <1>6, <2>5, <2>6, <2>7, <2>8
  <1>d. CASE WriteValue(t)
    <2>1. PICK b : b = [c EXCEPT !.step = "edge"]
      OBVIOUS
    <2>2. PICK x : x = [pins[p] EXCEPT !.value = c.value]
      OBVIOUS
    <2>3. /\ c.step = "write" /\ UNCHANGED <<seen, raced>> /\ pins[p] # NotSetUp
          /\ call' = [call EXCEPT ![t] = b] /\ pins' = [pins EXCEPT ![p] = x]
      BY <1>0, <1>1, <1>7, <1>d, <2>1, <2>2 DEF WriteValue, At, Known, Goto, p
    <2>4. b = [step |-> "edge", pin |-> p, value |-> c.value, old |-> c.old]
      BY <1>2, <2>1, <2>3 DEF p
    <2>5. b \in PinRecords /\ b.pin = p /\ b.step = "edge" /\ b.old = c.old /\ b.value = c.value
      BY <1>1, <1>2, <2>3, <2>4 DEF PinRecords
    <2>6. x = [mode |-> pins[p].mode, value |-> c.value, edge_callback |-> pins[p].edge_callback]
      BY <1>1, <2>2, <2>3, PinEntry
    <2>7. x \in PinEntries /\ x.value = c.value /\ (Watched(x) => Watched(pins[p]))
      BY <1>1, <1>2, <2>3, <2>6, PinEntry DEF PinEntries, Watched
    <2>8. OutputRight(c, pins[p], seen[p]) => OutputRight(b, x, seen[p])
      BY <2>3, <2>5, <2>7 DEF OutputRight
    <2>9. b # Idle
      BY <2>5, OutputCalls
    <2> QED
      BY <1>5, <1>6, <2>3, <2>5, <2>7, <2>8, <2>9
  <1>e. CASE TestEdge(t)
    <2>1. c.step = "edge" /\ UNCHANGED <<pins, seen, raced>> /\ pins[p] # NotSetUp
      BY <1>e DEF TestEdge, At, Known, bankVars, p
    <2>2. CASE pins[p].edge_callback # NoCallback /\ c.old # c.value
      <3>1. PICK b : b = [step |-> "callback", pin |-> p, callback |-> pins[p].edge_callback]
        OBVIOUS
      <3>2. call' = [call EXCEPT ![t] = b]
        BY <1>e, <2>2, <3>1 DEF TestEdge, Continue, p
      <3>3. pins[p].edge_callback \in Callbacks
        BY <1>1, <2>1, <2>2, PinEntry
      <3>4. b \in PinRecords /\ b.pin = p /\ b.step = "callback"
        BY <1>1, <3>1, <3>3 DEF PinRecords
      <3>5. OutputRight(b, pins[p], seen[p]) /\ b # Idle
        BY <3>4, OutputCalls DEF OutputRight
      <3> QED
        BY <1>5, <1>6, <2>1, <3>2, <3>4, <3>5
    <2>3. CASE ~ (pins[p].edge_callback # NoCallback /\ c.old # c.value)
      <3>1. call' = [call EXCEPT ![t] = Idle]
        BY <1>e, <2>3 DEF TestEdge, Return, p
      <3>2. OutputRight(c, pins[p], seen[p]) => (Watched(pins[p]) => seen[p] = pins[p].value)
        BY <2>1, <2>3 DEF OutputRight, Watched
      <3> QED
        BY <1>5, <1>6, <2>1, <3>1, <3>2
    <2> QED
      BY <2>2, <2>3
  <1>f. CASE RunCallback(t)
    <2>1. c.step = "callback"
      BY <1>f DEF RunCallback, At
    <2>2. CASE pins[p] = NotSetUp
      <3>1. call' = [call EXCEPT ![t] = Idle] /\ UNCHANGED <<pins, seen, raced>>
        BY <1>f, <2>2 DEF RunCallback, Return, bankVars, Known, p
      <3>2. ~ Watched(pins[p])
        BY <2>2 DEF Watched
      <3> QED
        BY <1>5, <1>6, <3>1, <3>2
    <2>3. CASE pins[p] # NotSetUp /\ c.callback.does = "cleanup"
      <3>1. /\ call' = [call EXCEPT ![t] = Idle] /\ UNCHANGED raced
            /\ pins' = [pins EXCEPT ![p] = NotSetUp] /\ seen' = [seen EXCEPT ![p] = pins[p].value]
        BY <1>f, <2>3 DEF RunCallback, Return, Known, p
      <3>2. ~ Watched(NotSetUp) /\ pins[p].value \in {LOW, HIGH}
        BY <1>1, <2>3, PinEntry DEF Watched
      <3> QED
        BY <1>5, <3>1, <3>2
    <2>4. CASE pins[p] # NotSetUp /\ c.callback.does # "cleanup"
      <3> DEFINE target == IF c.callback.does = "mirror" THEN c.callback.pin ELSE p
                 value == IF c.callback.does = "mirror" THEN pins[p].value ELSE LOW
      <3>1. /\ call' = [call EXCEPT ![t] = Output(target, value)] /\ UNCHANGED pins
            /\ seen' = [seen EXCEPT ![p] = pins[p].value]
            /\ raced' = IF Writers(target) \ {t} # {} THEN raced \cup {target} ELSE raced
        BY <1>f, <2>4 DEF RunCallback, Continue, Known, p
      <3>2. pins[p].value \in {LOW, HIGH}
        BY <1>1, <2>4, PinEntry
      <3>3. target \in Pins /\ value \in {LOW, HIGH}
        BY <1>1, <1>2, <2>1, <3>2, PinConstants
      <3> HIDE DEF target, value
      <3>4. PICK b : b = Output(target, value)
        OBVIOUS
      <3>5. b \in PinRecords /\ b.step = "check" /\ b.pin = target
        BY <3>3, <3>4 DEF Output, PinRecords
      <3>6. \A q : AtPin(b, q) <=> q = target
        BY <3>5, OutputCalls DEF AtPin
      <3>7. /\ seen' \in [Pins -> {LOW, HIGH}] /\ seen'[p] = pins'[p].value
            /\ \A q \in Pins : q # p => seen'[q] = seen[q]
        BY <1>0, <1>1, <3>1, <3>2
      <3>8. ASSUME NEW q \in Pins, q \notin raced'
            PROVE  \/ q \notin raced /\ ~ AtPin(call[t], q) /\ ~ AtPin(b, q) /\ seen'[q] = seen[q] /\ pins'[q] = pins[q]
                   \/ /\ \A u \in Threads : u # t => ~ AtPin(call[u], q)
                      /\ IF AtPin(b, q) THEN OutputRight(b, pins'[q], seen'[q])
                         ELSE Watched(pins'[q]) => seen'[q] = pins'[q].value
        <4>0. q \notin raced
          BY <3>1, <3>8
        <4>1. CASE q = p
          <5>1. \A u \in Threads : u # t => ~ AtPin(call[u], q)
            BY <1>3, <4>0, <4>1
          <5>2. AtPin(b, q) => OutputRight(b, pins'[q], seen'[q])
            BY <3>5, <3>7, <4>1 DEF OutputRight
          <5> QED
            BY <3>7, <4>1, <5>1, <5>2
        <4>2. CASE q # p /\ q = target
          <5>1. Writers(target) \ {t} = {}
            BY <3>1, <3>8, <4>2
          <5>2. \A u \in Threads : ~ AtPin(call[u], q)
            BY <1>4, <4>2, <5>1, PinWriters
          <5>3. Watched(pins[q]) => seen[q] = pins[q].value
            BY <4>0, <5>2 DEF PinInv
          <5>4. OutputRight(b, pins'[q], seen'[q])
            BY <3>1, <3>5, <3>7, <4>2, <5>3 DEF OutputRight
          <5> QED
            BY <3>6, <4>2, <5>2, <5>4
        <4>3. CASE q # p /\ q # target
          BY <1>4, <3>1, <3>6, <3>7, <4>0, <4>3
        <4> QED
          BY <4>1, <4>2, <4>3
      <3>9. /\ call' = [call EXCEPT ![t] = b] /\ b \in PinRecords \cup {Idle}
            /\ pins' \in [Pins -> PinEntries \cup {NotSetUp}] /\ seen' \in [Pins -> {LOW, HIGH}]
        BY <1>0, <3>1, <3>4, <3>5, <3>7
      <3>a. \A q \in Pins : q \notin raced' =>
              \/ q \notin raced /\ ~ AtPin(call[t], q) /\ ~ AtPin(b, q) /\ seen'[q] = seen[q] /\ pins'[q] = pins[q]
              \/ /\ \A u \in Threads : u # t => ~ AtPin(call[u], q)
                 /\ IF AtPin(b, q) THEN OutputRight(b, pins'[q], seen'[q])
                    ELSE Watched(pins'[q]) => seen'[q] = pins'[q].value
        BY <3>8
      <3> QED
        BY <3>9, <3>a, PinStays
    <2> QED
      BY <2>2, <2>3, <2>4
  <1> QED
    BY <1>a, <1>b, <1>c, <1>d, <1>e, <1>f DEF PinStep

\* EdgesSeen holds: a pin on which no calls have met is written by one call at a
\* time, which tells the callback of a value that differs from the one it read.
THEOREM CallbacksKnowTheirPins == PinSpec => []EdgesSeen
  <1>1. CallersInit /\ PinInit => PinTypes /\ PinInv
    BY DEF CallersInit, PinInit, PinTypes, PinInv, AtPin, Watched
  <1>2. PinTypes /\ PinInv /\ [\E t \in Threads : PinCall(t) \/ PinStep(t)]_pinVars
          => PinTypes' /\ PinInv'
    <2>1. PinTypes /\ PinInv /\ UNCHANGED pinVars => PinTypes' /\ PinInv'
      BY DEF pinVars, callerVars, PinTypes, PinInv
    <2> QED
      BY <2>1, PinCallInv, PinStepInv
  <1>3. PinTypes /\ PinInv => EdgesSeen
    <2>1. SUFFICES ASSUME PinTypes, PinInv, NEW p \in Pins \ raced, Known(p),
                          pins[p].edge_callback # NoCallback, Writers(p) = {}
                   PROVE  seen[p] = pins[p].value
      BY DEF EdgesSeen
    <2>2. \A t \in Threads : ~ AtPin(call[t], p)
      BY <2>1, PinWriters
    <2> QED
      BY <2>1, <2>2 DEF PinInv, Watched, Known
  <1> QED
    BY <1>1, <1>2, <1>3, PTL DEF PinSpec

---------------------------------------------------------------------------
(* I2CBus: what each register holds, one register at a time.                 *)

\* The writes of w that reach register r, the latest of them, and what it leaves.
ReachingIn(w, r) == {k \in DOMAIN w : r \in CellsOf(w[k])}
LatestIn(w, r) == CHOOSE k \in ReachingIn(w, r) : \A j \in ReachingIn(w, r) : j <= k
PlacesOf(c, r) == {i \in DOMAIN c.data : Cell(c, i) = r}
LastPlace(c, r) == CHOOSE i \in PlacesOf(c, r) : \A j \in PlacesOf(c, r) : j <= i
LeavesAt(c, r) == c.data[LastPlace(c, r)] % ByteValues
LastIn(w, r) == IF ReachingIn(w, r) = {} THEN 0 ELSE LeavesAt(w[LatestIn(w, r)], r)

Held(d, r) == IF d = NoDevice THEN 0 ELSE d[r]

\* The call c is about register r of the device a.
OnCell(c, a, r) == c # Idle /\ c.address = a /\ r \in CellsOf(c)

\* A write c is the latest of w that reaches r, and r holds what it has moved so
\* far; a read has seen the latest byte written.
WriteRight(c, w, d, r) ==
  /\ ReachingIn(w, r) # {}
  /\ w[LatestIn(w, r)].register = c.register /\ w[LatestIn(w, r)].data = c.data
  /\ \A i \in 1..(c.next - 1) :
       Cell(c, i) = r /\ (\A j \in (i + 1)..(c.next - 1) : Cell(c, j) # r)
         => d[r] = c.data[i] % ByteValues

GotRight(c, w, r) == \A k \in DOMAIN c.got : Cell(c, k) = r => c.got[k] = LastIn(w, r)

TransferRight(c, w, d, r) == IF c.writes THEN WriteRight(c, w, d, r) ELSE GotRight(c, w, r)

\* Register r of device a, with the calls cs, the writes w and the array d.
CellRight(cs, w, d, a, r) ==
  /\ \A t, u \in Threads :
       t # u /\ OnCell(cs[t], a, r) /\ OnCell(cs[u], a, r) => ~ cs[t].writes /\ ~ cs[u].writes
  /\ \A t \in Threads : OnCell(cs[t], a, r) => TransferRight(cs[t], w, d, r)
  /\ (\A t \in Threads : OnCell(cs[t], a, r) => ~ cs[t].writes) => Held(d, r) = LastIn(w, r)

\* How far a call is; x is the array of its device.
ProgressRight(c, x) ==
  /\ c.step = "create" => c.absent
  /\ c.step = "move" => x # NoDevice
  /\ c.step # "move" => c.next = 1
  /\ c.next <= Len(c.data) + 1
  /\ c.next > 1 => Valid(c)
  /\ ~ c.writes => Len(c.got) = c.next - 1

BusTypes ==
  /\ call \in [Threads -> BusRecords \cup {Idle}]
  /\ devices \in [Addresses -> [Cells -> Int] \cup {NoDevice}]
  /\ written \in [Addresses -> Seq(Transactions)]
  /\ clashed \in [Addresses -> SUBSET Cells]
  /\ \A t \in Threads : call[t] # Idle => ProgressRight(call[t], devices[call[t].address])

BusInv ==
  /\ BusTypes
  /\ \A a \in Addresses, r \in Cells :
       r \notin clashed[a] => CellRight(call, written[a], devices[a], a, r)

LEMMA CellIsCell ==
  ASSUME NEW c, c.register \in Int, NEW i \in Int
  PROVE  Cell(c, i) \in Cells
  BY BusConstants DEF Cell, Cells

LEMMA ByteIsInt ==
  ASSUME NEW n \in Int
  PROVE  n % ByteValues \in Int
  BY BusConstants

LEMMA TransactionFields ==
  ASSUME NEW c \in Transactions
  PROVE  /\ c.address \in Addresses /\ c.register \in Int /\ c.data \in Seq(Int)
         /\ c.block \in BOOLEAN /\ c.writes \in BOOLEAN
  BY BusConstants

LEMMA BusRecordFields ==
  ASSUME NEW c \in BusRecords
  PROVE  /\ c # Idle /\ c.step \in {"ensure", "create", "move"}
         /\ c.address \in Addresses /\ c.register \in Int /\ c.data \in Seq(Int)
         /\ c.block \in BOOLEAN /\ c.writes \in BOOLEAN /\ c.next \in Nat \ {0}
         /\ c.got \in Seq(Int) /\ c.absent \in BOOLEAN
         /\ DOMAIN c = {"step", "address", "register", "data", "block", "writes",
                        "next", "got", "absent"}
  BY BusConstants DEF BusRecords

\* Calls with the same arguments are about the same registers.
LEMMA SameCells ==
  ASSUME NEW b, NEW c, b.register = c.register, b.data = c.data, b.block = c.block
  PROVE  /\ CellsOf(b) = CellsOf(c) /\ Valid(b) = Valid(c)
         /\ \A i : Cell(b, i) = Cell(c, i)
  BY DEF CellsOf, Cell, Valid

LEMMA LatestReaches ==
  ASSUME NEW w \in Seq(Transactions), NEW r, ReachingIn(w, r) # {}
  PROVE  /\ LatestIn(w, r) \in 1..Len(w) /\ r \in CellsOf(w[LatestIn(w, r)])
         /\ \A j \in ReachingIn(w, r) : j <= LatestIn(w, r)
  <1>1. Len(w) \in Nat /\ ReachingIn(w, r) \in SUBSET (0..Len(w))
    BY DEF ReachingIn
  <1>2. \E x \in ReachingIn(w, r) : \A j \in ReachingIn(w, r) : j <= x
    BY <1>1, GreatestBounded
  <1>3. /\ LatestIn(w, r) \in ReachingIn(w, r)
        /\ \A j \in ReachingIn(w, r) : j <= LatestIn(w, r)
    BY <1>2 DEF LatestIn
  <1>4. \A k \in ReachingIn(w, r) : k \in 1..Len(w) /\ r \in CellsOf(w[k])
    BY DEF ReachingIn
  <1> QED
    BY <1>3, <1>4

LEMMA LastPlaceChosen ==
  ASSUME NEW c, c.data \in Seq(Int), NEW r \in CellsOf(c)
  PROVE  /\ LastPlace(c, r) \in 1..Len(c.data) /\ Cell(c, LastPlace(c, r)) = r
         /\ \A j \in 1..Len(c.data) : Cell(c, j) = r => j <= LastPlace(c, r)
  <1>1. \A j : j \in PlacesOf(c, r) <=> j \in 1..Len(c.data) /\ Cell(c, j) = r
    BY DEF PlacesOf
  <1>2. PlacesOf(c, r) # {}
    BY DEF CellsOf, PlacesOf
  <1>3. Len(c.data) \in Nat /\ PlacesOf(c, r) \in SUBSET (0..Len(c.data))
    BY <1>1
  <1>4. \E x \in PlacesOf(c, r) : \A j \in PlacesOf(c, r) : j <= x
    BY <1>2, <1>3, GreatestBounded
  <1>5. /\ LastPlace(c, r) \in PlacesOf(c, r)
        /\ \A j \in PlacesOf(c, r) : j <= LastPlace(c, r)
    BY <1>4 DEF LastPlace
  <1> QED
    BY <1>1, <1>5

\* A write that begins is the latest about its registers ...
LEMMA WriteBegun ==
  ASSUME NEW w \in Seq(Transactions), NEW c \in Transactions, NEW r, r \in CellsOf(c)
  PROVE  /\ ReachingIn(Append(w, c), r) # {}
         /\ Append(w, c)[LatestIn(Append(w, c), r)] = c
  <1> DEFINE v == Append(w, c)
             n == Len(w) + 1
  <1>1. /\ v \in Seq(Transactions) /\ Len(v) = n /\ n \in Nat \ {0} /\ DOMAIN v = 1..n
        /\ v[n] = c
    OBVIOUS
  <1> HIDE DEF v, n
  <1>2. n \in ReachingIn(v, r)
    BY <1>1 DEF ReachingIn
  <1>3. LatestIn(v, r) \in 1..n /\ n <= LatestIn(v, r)
    BY <1>1, <1>2, LatestReaches
  <1>4. LatestIn(v, r) = n
    BY <1>1, <1>3
  <1> QED
    BY <1>1, <1>2, <1>4 DEF v

\* ... and about no other.
LEMMA WriteElsewhere ==
  ASSUME NEW w \in Seq(Transactions), NEW c \in Transactions, NEW r, r \notin CellsOf(c)
  PROVE  /\ ReachingIn(Append(w, c), r) = ReachingIn(w, r)
         /\ LatestIn(Append(w, c), r) = LatestIn(w, r)
         /\ ReachingIn(w, r) # {} => Append(w, c)[LatestIn(w, r)] = w[LatestIn(w, r)]
         /\ LastIn(Append(w, c), r) = LastIn(w, r)
  <1> DEFINE v == Append(w, c)
             n == Len(w) + 1
  <1>1. /\ n \in Nat /\ DOMAIN v = 1..n /\ DOMAIN w = 1..Len(w) /\ Len(w) \in Nat
        /\ v[n] = c /\ \A k \in 1..Len(w) : v[k] = w[k]
    OBVIOUS
  <1>2. \A k : k \in 1..n <=> k \in 1..Len(w) \/ k = n
    BY <1>1 DEF n
  <1> HIDE DEF v, n
  <1>3. ReachingIn(v, r) = ReachingIn(w, r)
    BY <1>1, <1>2 DEF ReachingIn
  <1>4. LatestIn(v, r) = LatestIn(w, r)
    BY <1>3 DEF LatestIn
  <1>5. ReachingIn(w, r) # {} => v[LatestIn(w, r)] = w[LatestIn(w, r)]
    BY <1>1, LatestReaches
  <1>6. LastIn(v, r) = LastIn(w, r)
    BY <1>3, <1>4, <1>5 DEF LastIn
  <1> QED
    BY <1>3, <1>4, <1>5, <1>6 DEF v

\* A write that is over has left its last byte about each of its registers.
LEMMA WriteOver ==
  ASSUME NEW w \in Seq(Transactions), NEW c \in BusRecords, NEW d, NEW r \in CellsOf(c),
         WriteRight(c, w, d, r), c.next = Len(c.data) + 1, d # NoDevice
  PROVE  Held(d, r) = LastIn(w, r)
  <1> DEFINE e == w[LatestIn(w, r)]
  <1>1. e.register = c.register /\ e.data = c.data
    BY DEF WriteRight
  <1>2. c.data \in Seq(Int) /\ Len(c.data) \in Nat /\ ReachingIn(w, r) # {}
    BY BusRecordFields DEF WriteRight
  <1> HIDE DEF e
  <1>3. PlacesOf(e, r) = PlacesOf(c, r)
    BY <1>1 DEF PlacesOf, Cell
  <1>4. LastPlace(e, r) = LastPlace(c, r)
    BY <1>3 DEF LastPlace
  <1>5. /\ LastPlace(c, r) \in 1..Len(c.data) /\ Cell(c, LastPlace(c, r)) = r
        /\ \A j \in 1..Len(c.data) : Cell(c, j) = r => j <= LastPlace(c, r)
    BY <1>2, LastPlaceChosen
  <1>6. c.next - 1 = Len(c.data)
    BY <1>2
  <1>7. \A j \in (LastPlace(c, r) + 1)..(c.next - 1) : Cell(c, j) # r
    BY <1>2, <1>5, <1>6
  <1>8. d[r] = c.data[LastPlace(c, r)] % ByteValues
    BY <1>5, <1>6, <1>7 DEF WriteRight
  <1>9. LastIn(w, r) = e.data[LastPlace(e, r)] % ByteValues
    BY <1>2 DEF LastIn, LeavesAt, e
  <1> QED
    BY <1>1, <1>4, <1>8, <1>9 DEF Held

\* What a step of t has to show about a register.
LEMMA CellStays ==
  ASSUME NEW cs, NEW ds, NEW t \in Threads, NEW c, NEW w, NEW d, NEW a, NEW r,
         ds[t] = c, \A u \in Threads : u # t => ds[u] = cs[u],
         \A u, v \in Threads : u # v /\ OnCell(cs[u], a, r) /\ OnCell(cs[v], a, r)
           => ~ cs[u].writes /\ ~ cs[v].writes,
         \A u \in Threads : u # t /\ OnCell(cs[u], a, r) => TransferRight(cs[u], w, d, r),
         OnCell(c, a, r) => /\ TransferRight(c, w, d, r)
                            /\ \A u \in Threads : u # t /\ OnCell(cs[u], a, r)
                                 => ~ c.writes /\ ~ cs[u].writes,
         /\ \A u \in Threads : u # t /\ OnCell(cs[u], a, r) => ~ cs[u].writes
         /\ OnCell(c, a, r) => ~ c.writes
         => Held(d, r) = LastIn(w, r)
  PROVE  CellRight(ds, w, d, a, r)
  <1>1. \A u, v \in Threads : u # v /\ OnCell(ds[u], a, r) /\ OnCell(ds[v], a, r)
           => ~ ds[u].writes /\ ~ ds[v].writes
    <2> TAKE u, v \in Threads
    <2> HAVE u # v /\ OnCell(ds[u], a, r) /\ OnCell(ds[v], a, r)
    <2>1. CASE u = t
      BY <2>1
    <2>2. CASE v = t
      BY <2>2
    <2>3. CASE u # t /\ v # t
      BY <2>3
    <2> QED
      BY <2>1, <2>2, <2>3
  <1>2. \A u \in Threads : OnCell(ds[u], a, r) => TransferRight(ds[u], w, d, r)
    OBVIOUS
  <1>3. (\A u \in Threads : OnCell(ds[u], a, r) => ~ ds[u].writes) => Held(d, r) = LastIn(w, r)
    OBVIOUS
  <1> QED
    BY <1>1, <1>2, <1>3 DEF CellRight

\* A thread's own part: its call becomes c, and no array is taken away.
LEMMA BusTypesStay ==
  ASSUME BusTypes, NEW t \in Threads, NEW c \in BusRecords \cup {Idle},
         call' = [call EXCEPT ![t] = c],
         devices' \in [Addresses -> [Cells -> Int] \cup {NoDevice}],
         written' \in [Addresses -> Seq(Transactions)],
         clashed' \in [Addresses -> SUBSET Cells],
         \A a \in Addresses : devices[a] # NoDevice => devices'[a] # NoDevice,
         c # Idle => ProgressRight(c, devices'[c.address])
  PROVE  BusTypes'
  <1>1. /\ call'[t] = c
        /\ \A u \in Threads : u # t => call'[u] = call[u]
        /\ call' \in [Threads -> BusRecords \cup {Idle}]
    BY CallMoved DEF BusTypes
  <1>2. ASSUME NEW u \in Threads, call'[u] # Idle
        PROVE  ProgressRight(call'[u], devices'[call'[u].address])
    <2>1. CASE u = t
      BY <1>1, <1>2, <2>1
    <2>2. CASE u # t
      <3>1. call'[u] = call[u] /\ call[u] # Idle /\ call[u] \in BusRecords
        BY <1>1, <1>2, <2>2 DEF BusTypes
      <3> PICK b : b = call[u]
        OBVIOUS
      <3>2. b.address \in Addresses /\ ProgressRight(b, devices[b.address])
        BY <3>1, BusRecordFields DEF BusTypes
      <3>3. ProgressRight(b, devices'[b.address])
        BY <3>2 DEF ProgressRight
      <3> QED
        BY <3>1, <3>3
    <2> QED
      BY <2>1, <2>2
  <1> QED
    BY <1>1, <1>2 DEF BusTypes

\* The calls about a register, before a step.
LEMMA CellKnown ==
  ASSUME BusInv, NEW a \in Addresses, NEW r \in Cells, r \notin clashed[a]
  PROVE  /\ \A u, v \in Threads : u # v /\ OnCell(call[u], a, r) /\ OnCell(call[v], a, r)
              => ~ call[u].writes /\ ~ call[v].writes
         /\ \A u \in Threads : OnCell(call[u], a, r)
              => TransferRight(call[u], written[a], devices[a], r)
         /\ (\A u \in Threads : OnCell(call[u], a, r) => ~ call[u].writes)
              => Held(devices[a], r) = LastIn(written[a], r)
  BY DEF BusInv, CellRight

LEMMA BusCallInv ==
  ASSUME BusInv, NEW t \in Threads, I2CCall(t)
  PROVE  BusInv'
  <1> PICK c \in Transactions : Transaction(t, c)
    BY DEF I2CCall
  <1> PICK b : b = [step |-> "ensure", address |-> c.address, register |-> c.register,
                    data |-> c.data, block |-> c.block, writes |-> c.writes,
                    next |-> 1, got |-> << >>, absent |-> FALSE]
    OBVIOUS
  <1>1. /\ c.address \in Addresses /\ c.register \in Int /\ c.data \in Seq(Int)
        /\ c.block \in BOOLEAN /\ c.writes \in BOOLEAN
    BY TransactionFields
  <1>2. b \in BusRecords
    BY <1>1 DEF BusRecords
  <1>3. /\ b.step = "ensure" /\ b.address = c.address /\ b.register = c.register
        /\ b.data = c.data /\ b.block = c.block /\ b.writes = c.writes /\ b.next = 1
        /\ b.got = << >> /\ b # Idle
    BY <1>2, BusRecordFields
  <1>4. /\ call[t] = Idle /\ call' = [call EXCEPT ![t] = b]
        /\ devices' = devices
        /\ written' = IF c.writes THEN [written EXCEPT ![c.address] = Append(@, c)] ELSE written
        /\ clashed' = [clashed EXCEPT ![c.address] = @ \cup
             UNION {CellsOf(call[u]) \cap CellsOf(c) : u \in
               {u \in Threads : InTransaction(u) /\ call[u].address = c.address
                                /\ (call[u].writes \/ c.writes)}}]
    BY DEF Transaction, Begin
  <1>5. /\ CellsOf(b) = CellsOf(c)
        /\ ProgressRight(b, devices'[b.address])
    BY <1>1, <1>3, SameCells DEF ProgressRight
  <1>h. /\ call \in [Threads -> BusRecords \cup {Idle}]
        /\ devices \in [Addresses -> [Cells -> Int] \cup {NoDevice}]
        /\ written \in [Addresses -> Seq(Transactions)]
        /\ clashed \in [Addresses -> SUBSET Cells]
    BY DEF BusInv, BusTypes
  <1>6. CellsOf(c) \in SUBSET Cells
    <2>1. \A i \in DOMAIN c.data : i \in Int
      BY <1>1
    <2> QED
      BY <1>1, <2>1, CellIsCell DEF CellsOf
  <1>7. /\ written' \in [Addresses -> Seq(Transactions)]
        /\ \A a \in Addresses : written'[a] = IF a = c.address /\ c.writes THEN Append(written[a], c)
                                              ELSE written[a]
    BY <1>1, <1>4, <1>h
  <1>8. /\ clashed' \in [Addresses -> SUBSET Cells]
        /\ \A a \in Addresses : clashed[a] \subseteq clashed'[a]
        /\ \A u \in Threads : InTransaction(u) /\ call[u].address = c.address
                              /\ (call[u].writes \/ c.writes)
             => CellsOf(call[u]) \cap CellsOf(c) \subseteq clashed'[c.address]
    <2> DEFINE M == UNION {CellsOf(call[u]) \cap CellsOf(c) : u \in
               {u \in Threads : InTransaction(u) /\ call[u].address = c.address
                                /\ (call[u].writes \/ c.writes)}}
    <2>1. M \in SUBSET Cells
      BY <1>6
    <2>2. \A u \in Threads : InTransaction(u) /\ call[u].address = c.address
                              /\ (call[u].writes \/ c.writes)
             => CellsOf(call[u]) \cap CellsOf(c) \subseteq M
      OBVIOUS
    <2>3. clashed' = [clashed EXCEPT ![c.address] = @ \cup M]
      BY <1>4
    <2> HIDE DEF M
    <2> QED
      BY <1>1, <1>h, <2>1, <2>2, <2>3
  <1>9. BusTypes'
    BY <1>2, <1>4, <1>5, <1>7, <1>8, <1>h, BusTypesStay DEF BusInv
  <1>10. /\ call'[t] = b
         /\ \A u \in Threads : u # t => call'[u] = call[u]
    BY <1>4, <1>h
  <1>11. ASSUME NEW a \in Addresses, NEW r \in Cells, r \notin clashed'[a]
         PROVE  CellRight(call', written'[a], devices'[a], a, r)
    <2>0. /\ \A u, v \in Threads : u # v /\ OnCell(call[u], a, r) /\ OnCell(call[v], a, r)
               => ~ call[u].writes /\ ~ call[v].writes
          /\ \A u \in Threads : OnCell(call[u], a, r)
               => TransferRight(call[u], written[a], devices[a], r)
          /\ (\A u \in Threads : OnCell(call[u], a, r) => ~ call[u].writes)
               => Held(devices[a], r) = LastIn(written[a], r)
      BY <1>8, <1>11, CellKnown
    <2>1. ASSUME OnCell(b, a, r)
          PROVE  \A u \in Threads : u # t /\ OnCell(call[u], a, r)
                   => ~ b.writes /\ ~ call[u].writes
      <3> TAKE u \in Threads
      <3> HAVE u # t /\ OnCell(call[u], a, r)
      <3>1. call[u] \in BusRecords /\ call[u].address = a /\ r \in CellsOf(call[u])
        BY <1>h DEF OnCell
      <3>2. InTransaction(u) /\ call[u].writes \in BOOLEAN
        BY <3>1, BusRecordFields DEF InTransaction, Has
      <3>3. a = c.address /\ r \in CellsOf(c)
        BY <1>3, <1>5, <2>1 DEF OnCell
      <3> QED
        BY <1>1, <1>3, <1>8, <1>11, <3>1, <3>2, <3>3
    <2>2. CASE a = c.address /\ c.writes
      <3>1. /\ written'[a] = Append(written[a], c) /\ written[a] \in Seq(Transactions)
            /\ devices'[a] = devices[a]
        BY <1>4, <1>7, <1>h, <2>2
      <3> PICK w \in Seq(Transactions) : w = written[a]
        BY <3>1
      <3>2. CASE r \in CellsOf(c)
        <4>1. ReachingIn(Append(w, c), r) # {} /\ Append(w, c)[LatestIn(Append(w, c), r)] = c
          BY <3>2, WriteBegun
        <4>2. TransferRight(b, Append(w, c), devices[a], r)
          <5>1. \A i : i \notin 1..(b.next - 1)
            BY <1>3
          <5> QED
            BY <1>3, <2>2, <4>1, <5>1 DEF TransferRight, WriteRight
        <4>3. OnCell(b, a, r) /\ b.writes
          BY <1>3, <1>5, <2>2, <3>2 DEF OnCell
        <4>4. \A u \in Threads : u # t => ~ OnCell(call[u], a, r)
          BY <2>1, <4>3
        <4> QED
          BY <1>10, <2>0, <3>1, <4>2, <4>3, <4>4, CellStays
      <3>3. CASE r \notin CellsOf(c)
        <4>1. /\ ReachingIn(Append(w, c), r) = ReachingIn(w, r)
              /\ LatestIn(Append(w, c), r) = LatestIn(w, r)
              /\ ReachingIn(w, r) # {} => Append(w, c)[LatestIn(w, r)] = w[LatestIn(w, r)]
              /\ LastIn(Append(w, c), r) = LastIn(w, r)
          BY <3>3, WriteElsewhere
        <4>2. ASSUME NEW x, TransferRight(x, w, devices[a], r)
              PROVE  TransferRight(x, Append(w, c), devices[a], r)
          BY <4>1, <4>2 DEF TransferRight, WriteRight, GotRight
        <4>3. ~ OnCell(b, a, r)
          BY <1>5, <3>3 DEF OnCell
        <4>4. ~ OnCell(call[t], a, r)
          BY <1>4 DEF OnCell
        <4>5. \A u \in Threads : u # t /\ OnCell(call[u], a, r)
                => TransferRight(call[u], Append(w, c), devices[a], r)
          BY <2>0, <3>1, <4>2
        <4>6. (\A u \in Threads : u # t /\ OnCell(call[u], a, r) => ~ call[u].writes)
                => Held(devices[a], r) = LastIn(Append(w, c), r)
          BY <2>0, <3>1, <4>1, <4>4
        <4> QED
          BY <1>10, <2>0, <3>1, <4>3, <4>5, <4>6, CellStays
      <3> QED
        BY <3>2, <3>3
    <2>3. CASE ~ (a = c.address /\ c.writes)
      <3>1. written'[a] = written[a] /\ devices'[a] = devices[a]
        BY <1>4, <1>7, <2>3
      <3>2. OnCell(b, a, r) => ~ b.writes
        BY <1>3, <2>3 DEF OnCell
      <3>3. OnCell(b, a, r) => TransferRight(b, written[a], devices[a], r)
        <4>1. \A k : k \notin DOMAIN b.got
          BY <1>3
        <4> QED
          BY <3>2, <4>1 DEF TransferRight, GotRight
      <3>4. ~ OnCell(call[t], a, r)
        BY <1>4 DEF OnCell
      <3>5. (\A u \in Threads : u # t /\ OnCell(call[u], a, r) => ~ call[u].writes)
              => Held(devices[a], r) = LastIn(written[a], r)
        BY <2>0, <3>4
      <3>6. CellRight(call', written[a], devices[a], a, r)
        BY <1>10, <2>0, <2>1, <3>2, <3>3, <3>5, CellStays
      <3> QED
        BY <3>1, <3>6
    <2> QED
      BY <2>2, <2>3
  <1> QED
    BY <1>9, <1>11 DEF BusInv

\* A step of t that makes its call c and the array e: it keeps the register as it is,
\* or t is writing it.
CellStep(cs, t, c, w, d, e, a, r) ==
  /\ OnCell(c, a, r) => /\ OnCell(cs[t], a, r) /\ c.writes = cs[t].writes
                        /\ TransferRight(c, w, e, r)
  /\ OnCell(cs[t], a, r) /\ cs[t].writes => OnCell(c, a, r) \/ Held(e, r) = LastIn(w, r)
  /\ \/ /\ Held(e, r) = Held(d, r)
        /\ \A u \in Threads : u # t /\ OnCell(cs[u], a, r) => TransferRight(cs[u], w, e, r)
     \/ OnCell(cs[t], a, r) /\ OnCell(c, a, r) /\ cs[t].writes

LEMMA BusStays ==
  ASSUME BusInv, NEW t \in Threads, NEW c \in BusRecords \cup {Idle},
         call' = [call EXCEPT ![t] = c], written' = written,
         devices' \in [Addresses -> [Cells -> Int] \cup {NoDevice}],
         clashed' \in [Addresses -> SUBSET Cells],
         \A a \in Addresses : clashed[a] \subseteq clashed'[a],
         \A a \in Addresses : devices[a] # NoDevice => devices'[a] # NoDevice,
         c # Idle => ProgressRight(c, devices'[c.address]),
         \A a \in Addresses, r \in Cells : r \notin clashed'[a] =>
           CellStep(call, t, c, written[a], devices[a], devices'[a], a, r)
  PROVE  BusInv'
  <1>1. /\ call \in [Threads -> BusRecords \cup {Idle}]
        /\ written' \in [Addresses -> Seq(Transactions)]
    BY DEF BusInv, BusTypes
  <1>2. BusTypes'
    BY <1>1, BusTypesStay DEF BusInv
  <1>3. /\ call'[t] = c
        /\ \A u \in Threads : u # t => call'[u] = call[u]
    BY <1>1
  <1>4. ASSUME NEW a \in Addresses, NEW r \in Cells, r \notin clashed'[a]
        PROVE  CellRight(call', written[a], devices'[a], a, r)
    <2>0. /\ \A u, v \in Threads : u # v /\ OnCell(call[u], a, r) /\ OnCell(call[v], a, r)
               => ~ call[u].writes /\ ~ call[v].writes
          /\ \A u \in Threads : OnCell(call[u], a, r)
               => TransferRight(call[u], written[a], devices[a], r)
          /\ (\A u \in Threads : OnCell(call[u], a, r) => ~ call[u].writes)
               => Held(devices[a], r) = LastIn(written[a], r)
      BY <1>4, CellKnown
    <2>1. /\ OnCell(c, a, r) => /\ OnCell(call[t], a, r) /\ c.writes = call[t].writes
                                /\ TransferRight(c, written[a], devices'[a], r)
          /\ OnCell(call[t], a, r) /\ call[t].writes =>
                OnCell(c, a, r) \/ Held(devices'[a], r) = LastIn(written[a], r)
          /\ \/ /\ Held(devices'[a], r) = Held(devices[a], r)
                /\ \A u \in Threads : u # t /\ OnCell(call[u], a, r)
                     => TransferRight(call[u], written[a], devices'[a], r)
             \/ OnCell(call[t], a, r) /\ OnCell(c, a, r) /\ call[t].writes
      BY <1>4 DEF CellStep
    <2>2. OnCell(c, a, r) => /\ TransferRight(c, written[a], devices'[a], r)
                             /\ \A u \in Threads : u # t /\ OnCell(call[u], a, r)
                                  => ~ c.writes /\ ~ call[u].writes
      BY <2>0, <2>1
    <2>3. \A u \in Threads : u # t /\ OnCell(call[u], a, r)
            => TransferRight(call[u], written[a], devices'[a], r)
      BY <2>0, <2>1
    <2>4. ASSUME \A u \in Threads : u # t /\ OnCell(call[u], a, r) => ~ call[u].writes,
                 OnCell(c, a, r) => ~ c.writes
          PROVE  Held(devices'[a], r) = LastIn(written[a], r)
      <3>1. CASE OnCell(call[t], a, r) /\ call[t].writes
        BY <2>1, <2>4, <3>1
      <3>2. CASE ~ (OnCell(call[t], a, r) /\ call[t].writes)
        BY <2>0, <2>1, <2>4, <3>2
      <3> QED
        BY <3>1, <3>2
    <2> QED
      BY <1>3, <2>0, <2>2, <2>3, <2>4, CellStays
  <1> QED
    BY <1>2, <1>4 DEF BusInv

LEMMA BusStepInv ==
  ASSUME BusInv, NEW t \in Threads, I2CStep(t)
  PROVE  BusInv'
  <1>0. /\ call \in [Threads -> BusRecords \cup {Idle}]
        /\ devices \in [Addresses -> [Cells -> Int] \cup {NoDevice}]
        /\ written \in [Addresses -> Seq(Transactions)]
        /\ clashed \in [Addresses -> SUBSET Cells]
    BY DEF BusInv, BusTypes
  <1> PICK b : b = call[t]
    OBVIOUS
  <1>1. b # Idle /\ b \in BusRecords
    BY <1>0 DEF I2CStep, Ensure, Create, WriteByte, ReadByte, EndTransaction, At
  <1>2. /\ b.step \in {"ensure", "create", "move"}
        /\ b.address \in Addresses /\ b.register \in Int /\ b.data \in Seq(Int)
        /\ b.block \in BOOLEAN /\ b.writes \in BOOLEAN /\ b.next \in Nat \ {0}
        /\ b.got \in Seq(Int) /\ b.absent \in BOOLEAN
    BY <1>1, BusRecordFields
  <1>3. ProgressRight(b, devices[b.address])
    BY <1>1 DEF BusInv, BusTypes
  <1>4. \A a \in Addresses, r \in Cells : r \notin clashed[a] /\ OnCell(b, a, r) =>
          TransferRight(b, written[a], devices[a], r)
    BY CellKnown
  \* A step that keeps the arguments of the call.
  <1>5. ASSUME NEW c \in BusRecords, c.address = b.address, c.register = b.register,
               c.data = b.data, c.block = b.block, c.writes = b.writes
        PROVE  /\ c # Idle /\ CellsOf(c) = CellsOf(b) /\ Valid(c) = Valid(b)
               /\ \A i : Cell(c, i) = Cell(b, i)
               /\ \A a, r : OnCell(c, a, r) <=> OnCell(b, a, r)
    <2>1. /\ CellsOf(c) = CellsOf(b) /\ Valid(c) = Valid(b)
          /\ \A i : Cell(c, i) = Cell(b, i)
      BY <1>5, SameCells
    <2> QED
      BY <1>1, <1>5, <2>1, BusRecordFields DEF OnCell
  \* ... and what it has moved.
  <1>6. ASSUME NEW c \in BusRecords, c.address = b.address, c.register = b.register,
               c.data = b.data, c.block = b.block, c.writes = b.writes,
               c.next = b.next, c.got = b.got,
               NEW w, NEW d, NEW r, TransferRight(b, w, d, r)
        PROVE  TransferRight(c, w, d, r)
    <2>1. \A i : Cell(c, i) = Cell(b, i)
      BY <1>5, <1>6
    <2> QED
      BY <1>6, <2>1 DEF TransferRight, WriteRight, GotRight
  <1>a. CASE Ensure(t)
    <2> PICK c : c = [b EXCEPT !.step = IF Absent(t) THEN "create" ELSE "move",
                               !.absent = Absent(t)]
      OBVIOUS
    <2>1. /\ b.step = "ensure" /\ call' = [call EXCEPT ![t] = c]
          /\ devices' = devices /\ written' = written /\ clashed' = clashed
      BY <1>a DEF Ensure, At, Continue
    <2>2. Absent(t) <=> devices[b.address] = NoDevice
      BY DEF Absent
    <2>3. /\ c \in BusRecords /\ c.address = b.address /\ c.register = b.register
          /\ c.data = b.data /\ c.block = b.block /\ c.writes = b.writes
          /\ c.next = b.next /\ c.got = b.got /\ c.absent = Absent(t)
          /\ c.step = IF Absent(t) THEN "create" ELSE "move"
      BY <1>1, <1>2 DEF BusRecords, Absent
    <2>4. ProgressRight(c, devices'[c.address])
      BY <1>2, <1>3, <1>5, <2>1, <2>2, <2>3 DEF ProgressRight
    <2>5. \A a, r : OnCell(c, a, r) <=> OnCell(b, a, r)
      BY <1>5, <2>3
    <2>6. ASSUME NEW a \in Addresses, NEW r \in Cells, r \notin clashed'[a]
          PROVE  CellStep(call, t, c, written[a], devices[a], devices'[a], a, r)
      <3>1. OnCell(c, a, r) => TransferRight(c, written[a], devices[a], r)
        BY <1>4, <1>6, <2>1, <2>3, <2>5, <2>6
      <3> QED
        BY <2>1, <2>3, <2>5, <2>6, <3>1, CellKnown DEF CellStep
    <2> QED
      BY <1>0, <2>1, <2>3, <2>4, <2>6, BusStays
  <1>b. CASE Create(t)
    <2> PICK c : c = [b EXCEPT !.step = "move"]
      OBVIOUS
    <2>1. /\ b.step = "create" /\ call' = [call EXCEPT ![t] = c]
          /\ devices' = [devices EXCEPT ![b.address] = Blank] /\ written' = written
          /\ clashed' = [clashed EXCEPT ![b.address] = IF b.absent /\ ~ Absent(t) THEN Cells ELSE @]
      BY <1>0, <1>b DEF Create, At, Goto
    <2>2. Absent(t) <=> devices[b.address] = NoDevice
      BY DEF Absent
    <2>3. /\ c \in BusRecords /\ c.address = b.address /\ c.register = b.register
          /\ c.data = b.data /\ c.block = b.block /\ c.writes = b.writes
          /\ c.next = b.next /\ c.got = b.got /\ c.absent = b.absent /\ c.step = "move"
      BY <1>1, <1>2 DEF BusRecords
    <2>4. Blank \in [Cells -> Int] /\ Blank # NoDevice /\ \A r \in Cells : Blank[r] = 0
      BY BusConstants DEF Blank
    <2>5. /\ devices' \in [Addresses -> [Cells -> Int] \cup {NoDevice}]
          /\ \A a \in Addresses : devices'[a] = IF a = b.address THEN Blank ELSE devices[a]
          /\ \A a \in Addresses : devices[a] # NoDevice => devices'[a] # NoDevice
      BY <1>0, <1>2, <2>1, <2>4
    <2>6. /\ clashed' \in [Addresses -> SUBSET Cells]
          /\ \A a \in Addresses : clashed[a] \subseteq clashed'[a]
          /\ b.absent /\ ~ Absent(t) => clashed'[b.address] = Cells
      BY <1>0, <1>2, <2>1
    <2>7. \A a, r : OnCell(c, a, r) <=> OnCell(b, a, r)
      BY <1>5, <2>3
    <2>8. ProgressRight(c, devices'[c.address])
      BY <1>2, <1>3, <1>5, <2>1, <2>3, <2>4, <2>5 DEF ProgressRight
    <2>9. ASSUME NEW a \in Addresses, NEW r \in Cells, r \notin clashed'[a]
          PROVE  CellStep(call, t, c, written[a], devices[a], devices'[a], a, r)
      <3>0. r \notin clashed[a]
        BY <2>6, <2>9
      <3>1. CASE a # b.address
        <4>1. ~ OnCell(b, a, r) /\ ~ OnCell(c, a, r)
          BY <2>3, <3>1 DEF OnCell
        <4> QED
          BY <2>5, <3>0, <3>1, <4>1, CellKnown DEF CellStep
      <3>2. CASE a = b.address
        <4>1. devices[a] = NoDevice
          BY <1>3, <2>1, <2>2, <2>6, <2>9, <3>2 DEF ProgressRight
        <4>2. Held(devices'[a], r) = Held(devices[a], r)
          BY <2>4, <2>5, <3>2, <4>1 DEF Held
        \* Nobody has begun to move bytes.
        <4>3. ASSUME NEW u \in Threads, OnCell(call[u], a, r)
              PROVE  TransferRight(call[u], written[a], devices'[a], r)
          <5> PICK e : e = call[u]
            OBVIOUS
          <5>1. e # Idle /\ e \in BusRecords /\ e.address = a
            BY <1>0, <4>3 DEF OnCell
          <5>2. ProgressRight(e, NoDevice)
            BY <4>1, <5>1 DEF BusInv, BusTypes
          <5>3. e.next = 1
            BY <5>2 DEF ProgressRight
          <5>4. TransferRight(e, written[a], devices[a], r)
            BY <3>0, <4>3, CellKnown
          <5>5. \A i : i \notin 1..(e.next - 1)
            BY <5>3
          <5> QED
            BY <5>4, <5>5 DEF TransferRight, WriteRight
        <4>4. OnCell(c, a, r) => TransferRight(c, written[a], devices'[a], r)
          BY <1>6, <2>3, <2>7, <4>3
        <4> QED
          BY <2>3, <2>7, <4>2, <4>3, <4>4 DEF CellStep
      <3> QED
        BY <3>1, <3>2
    <2> QED
      BY <2>1, <2>3, <2>5, <2>6, <2>8, <2>9, BusStays
  <1>c. CASE WriteByte(t)
    <2> PICK c : c = [b EXCEPT !.next = @ + 1]
      OBVIOUS
    <2> PICK q : q = Cell(b, b.next)
      OBVIOUS
    <2> PICK y : y = b.data[b.next] % ByteValues
      OBVIOUS
    <2>1. /\ b.step = "move" /\ b.writes /\ b.next <= Len(b.data) /\ Valid(b)
          /\ call' = [call EXCEPT ![t] = c]
          /\ devices' = [devices EXCEPT ![b.address][q] = y]
          /\ written' = written /\ clashed' = clashed
      BY <1>c DEF WriteByte, At, Continue
    <2>2. q \in Cells /\ y \in Int
      BY <1>2, <2>1, CellIsCell, ByteIsInt
    <2>3. /\ c \in BusRecords /\ c.address = b.address /\ c.register = b.register
          /\ c.data = b.data /\ c.block = b.block /\ c.writes = b.writes
          /\ c.next = b.next + 1 /\ c.got = b.got /\ c.absent = b.absent /\ c.step = "move"
      <3>1. b.next + 1 \in Nat \ {0}
        BY <1>2
      <3> QED
        BY <1>1, <1>2, <2>1, <3>1 DEF BusRecords
    <2>4. devices[b.address] \in [Cells -> Int]
      BY <1>0, <1>2, <1>3, <2>1 DEF ProgressRight
    <2>5. /\ devices' \in [Addresses -> [Cells -> Int] \cup {NoDevice}]
          /\ \A a \in Addresses : a # b.address => devices'[a] = devices[a]
          /\ devices'[b.address][q] = y
          /\ \A r \in Cells : r # q => devices'[b.address][r] = devices[b.address][r]
          /\ devices'[b.address] \in [Cells -> Int]
      <3> PICK old \in [Cells -> Int] : old = devices[b.address]
        BY <2>4
      <3> PICK new : new = [old EXCEPT ![q] = y]
        OBVIOUS
      <3>1. new \in [Cells -> Int] /\ new[q] = y /\ \A r \in Cells : r # q => new[r] = old[r]
        BY <2>2
      <3>2. devices' = [devices EXCEPT ![b.address] = new]
        BY <1>0, <1>2, <2>1
      <3> QED
        BY <1>0, <1>2, <3>1, <3>2
    <2>6. \A a \in Addresses : devices[a] # NoDevice => devices'[a] # NoDevice
      BY <2>5, BusConstants
    <2>7. /\ \A a, r : OnCell(c, a, r) <=> OnCell(b, a, r)
          /\ \A i : Cell(c, i) = Cell(b, i)
          /\ Valid(c) = Valid(b)
      BY <1>5, <2>3
    <2>8. ProgressRight(c, devices'[c.address])
      <3>0. devices'[b.address] # NoDevice
        BY <2>5, BusConstants
      <3>1. devices'[c.address] # NoDevice /\ Valid(c) /\ c.next <= Len(c.data) + 1
        <4>1. b.next <= Len(b.data) /\ Len(b.data) \in Nat
          BY <1>2, <2>1
        <4>2. b.next + 1 <= Len(b.data) + 1
          BY <1>2, <4>1
        <4> QED
          BY <2>1, <2>3, <2>7, <3>0, <4>2
      <3> QED
        BY <2>1, <2>3, <3>1 DEF ProgressRight
    <2>9. ASSUME NEW a \in Addresses, NEW r \in Cells, r \notin clashed'[a]
          PROVE  CellStep(call, t, c, written[a], devices[a], devices'[a], a, r)
      <3>0. r \notin clashed[a]
        BY <2>1, <2>9
      <3>1. CASE a # b.address
        <4>1. ~ OnCell(b, a, r) /\ ~ OnCell(c, a, r)
          BY <2>3, <3>1 DEF OnCell
        <4> QED
          BY <2>5, <3>0, <3>1, <4>1, CellKnown DEF CellStep
      <3>2. CASE a = b.address
        <4>0. devices[a] # NoDevice /\ devices'[a] # NoDevice
          BY <2>4, <2>5, <3>2, BusConstants
        <4>1. ASSUME OnCell(b, a, r)
              PROVE  WriteRight(c, written[a], devices'[a], r)
          <5>1. WriteRight(b, written[a], devices[a], r)
            BY <1>4, <2>1, <3>0, <4>1 DEF TransferRight
          <5>2. ASSUME NEW i \in 1..(c.next - 1), Cell(c, i) = r,
                       \A j \in (i + 1)..(c.next - 1) : Cell(c, j) # r
                PROVE  devices'[a][r] = c.data[i] % ByteValues
            <6>1. i \in 1..b.next /\ Cell(b, i) = r
                  /\ \A j \in (i + 1)..b.next : Cell(b, j) # r
              <7>1. c.next - 1 = b.next
                BY <1>2, <2>3
              <7> QED
                BY <2>7, <5>2, <7>1
            <6>2. CASE i = b.next
              BY <2>3, <2>5, <3>2, <6>1, <6>2
            <6>3. CASE i # b.next
              <7>1. i \in 1..(b.next - 1) /\ b.next \in (i + 1)..b.next
                BY <1>2, <6>1, <6>3
              <7>2. r # q
                BY <6>1, <7>1
              <7>3. \A j \in (i + 1)..(b.next - 1) : Cell(b, j) # r
                BY <1>2, <6>1
              <7>4. devices[a][r] = b.data[i] % ByteValues
                BY <5>1, <6>1, <7>1, <7>3 DEF WriteRight
              <7> QED
                BY <2>3, <2>5, <3>2, <7>2, <7>4
            <6> QED
              BY <6>2, <6>3
          <5> QED
            BY <2>3, <5>1, <5>2 DEF WriteRight
        <4>2. CASE r = q
          <5>1. OnCell(b, a, r)
            <6>1. b.next \in DOMAIN b.data
              BY <1>2, <2>1
            <6> QED
              BY <1>1, <2>1, <3>2, <4>2, <6>1 DEF OnCell, CellsOf
          <5> QED
            BY <2>1, <2>3, <2>7, <4>1, <5>1 DEF TransferRight, CellStep
        <4>3. CASE r # q
          <5>1. devices'[a][r] = devices[a][r]
            BY <2>5, <3>2, <4>3
          <5>2. Held(devices'[a], r) = Held(devices[a], r)
            BY <4>0, <5>1 DEF Held
          <5>3. ASSUME NEW u \in Threads, OnCell(call[u], a, r)
                PROVE  TransferRight(call[u], written[a], devices'[a], r)
            <6>1. TransferRight(call[u], written[a], devices[a], r)
              BY <3>0, <5>3, CellKnown
            <6> QED
              BY <5>1, <6>1 DEF TransferRight, WriteRight
          <5>4. OnCell(b, a, r) => TransferRight(c, written[a], devices'[a], r)
            BY <2>1, <2>3, <4>1 DEF TransferRight
          <5> QED
            BY <2>3, <2>7, <5>2, <5>3, <5>4 DEF CellStep
        <4> QED
          BY <4>2, <4>3
      <3> QED
        BY <3>1, <3>2
    <2>10. /\ \A a \in Addresses : clashed[a] \subseteq clashed'[a]
           /\ clashed' \in [Addresses -> SUBSET Cells]
      BY <1>0, <2>1
    <2> QED
      BY <2>1, <2>3, <2>5, <2>6, <2>8, <2>9, <2>10, BusStays
  <1>d. CASE ReadByte(t)
    <2> PICK q : q = Cell(b, b.next)
      OBVIOUS
    <2> PICK x : x = devices[b.address][q]
      OBVIOUS
    <2> PICK c : c = [b EXCEPT !.next = @ + 1, !.got = Append(@, x)]
      OBVIOUS
    <2>1. /\ b.step = "move" /\ ~ b.writes /\ b.next <= Len(b.data) /\ Valid(b)
          /\ call' = [call EXCEPT ![t] = c]
          /\ devices' = devices /\ written' = written /\ clashed' = clashed
      BY <1>d DEF ReadByte, At, Continue
    <2>2. q \in Cells /\ devices[b.address] \in [Cells -> Int]
      BY <1>0, <1>2, <1>3, <2>1, CellIsCell DEF ProgressRight
    <2>3. x \in Int
      BY <2>2
    <2>4. /\ Len(b.got) = b.next - 1 /\ Append(b.got, x) \in Seq(Int)
          /\ Len(Append(b.got, x)) = b.next /\ Append(b.got, x)[b.next] = x
          /\ \A k \in 1..(b.next - 1) : Append(b.got, x)[k] = b.got[k]
      <3>1. Len(b.got) = b.next - 1
        BY <1>3, <2>1 DEF ProgressRight
      <3> QED
        BY <1>2, <2>3, <3>1, SeqPush
    <2>5. /\ c \in BusRecords /\ c.address = b.address /\ c.register = b.register
          /\ c.data = b.data /\ c.block = b.block /\ c.writes = b.writes
          /\ c.next = b.next + 1 /\ c.got = Append(b.got, x) /\ c.absent = b.absent
          /\ c.step = "move"
      <3>1. b.next + 1 \in Nat \ {0}
        BY <1>2
      <3> QED
        BY <1>1, <1>2, <2>1, <2>4, <3>1 DEF BusRecords
    <2>7. /\ \A a, r : OnCell(c, a, r) <=> OnCell(b, a, r)
          /\ \A i : Cell(c, i) = Cell(b, i)
          /\ Valid(c) = Valid(b)
      BY <1>5, <2>5
    <2>8. ProgressRight(c, devices'[c.address])
      <3>1. devices'[c.address] # NoDevice /\ Valid(c) /\ c.next <= Len(c.data) + 1
        BY <1>2, <1>3, <2>1, <2>5, <2>7 DEF ProgressRight
      <3>2. Len(c.got) = c.next - 1
        BY <1>2, <2>4, <2>5
      <3> QED
        BY <2>5, <3>1, <3>2 DEF ProgressRight
    <2>9. ASSUME NEW a \in Addresses, NEW r \in Cells, r \notin clashed'[a]
          PROVE  CellStep(call, t, c, written[a], devices[a], devices'[a], a, r)
      <3>0. r \notin clashed[a]
        BY <2>1, <2>9
      <3>1. ASSUME OnCell(b, a, r)
            PROVE  TransferRight(c, written[a], devices[a], r)
        <4>1. GotRight(b, written[a], r) /\ a = b.address
          BY <1>4, <2>1, <3>0, <3>1 DEF TransferRight, OnCell
        <4>2. ASSUME NEW k \in DOMAIN c.got, Cell(c, k) = r
              PROVE  c.got[k] = LastIn(written[a], r)
          <5>1. k \in 1..b.next /\ Cell(b, k) = r
            BY <1>2, <2>4, <2>5, <2>7, <4>2
          <5>2. CASE k = b.next
            \* Nobody writes the register that is read.
            <6>1. \A u \in Threads : OnCell(call[u], a, r) => ~ call[u].writes
              BY <2>1, <3>0, <3>1, CellKnown
            <6>2. Held(devices[a], r) = LastIn(written[a], r)
              BY <3>0, <6>1, CellKnown
            <6>3. Held(devices[a], r) = x
              BY <2>2, <4>1, <5>1, <5>2, BusConstants DEF Held
            <6> QED
              BY <2>4, <2>5, <5>2, <6>2, <6>3
          <5>3. CASE k # b.next
            <6>1. k \in 1..(b.next - 1) /\ k \in DOMAIN b.got
              BY <1>2, <2>4, <5>1, <5>3
            <6> QED
              BY <2>4, <2>5, <4>1, <5>1, <6>1 DEF GotRight
          <5> QED
            BY <5>2, <5>3
        <4> QED
          BY <2>1, <2>5, <4>2 DEF TransferRight, GotRight
      <3> QED
        BY <2>1, <2>5, <2>7, <3>0, <3>1, CellKnown DEF CellStep
    <2>10. /\ \A a \in Addresses : clashed[a] \subseteq clashed'[a]
           /\ \A a \in Addresses : devices[a] # NoDevice => devices'[a] # NoDevice
           /\ clashed' \in [Addresses -> SUBSET Cells]
           /\ devices' \in [Addresses -> [Cells -> Int] \cup {NoDevice}]
      BY <1>0, <2>1
    <2> QED
      BY <2>1, <2>5, <2>8, <2>9, <2>10, BusStays
  <1>e. CASE EndTransaction(t)
    <2> PICK c : c = Idle
      OBVIOUS
    <2>1. /\ b.step = "move" /\ (b.next > Len(b.data) \/ ~ Valid(b))
          /\ call' = [call EXCEPT ![t] = c]
          /\ devices' = devices /\ written' = written /\ clashed' = clashed
      BY <1>e DEF EndTransaction, At, Return
    <2>2. devices[b.address] # NoDevice /\ b.next <= Len(b.data) + 1
      BY <1>3, <2>1 DEF ProgressRight
    <2>9. ASSUME NEW a \in Addresses, NEW r \in Cells, r \notin clashed'[a]
          PROVE  CellStep(call, t, c, written[a], devices[a], devices'[a], a, r)
      <3>0. r \notin clashed[a] /\ ~ OnCell(c, a, r)
        BY <2>1, <2>9 DEF OnCell
      <3>1. ASSUME OnCell(b, a, r), b.writes
            PROVE  Held(devices[a], r) = LastIn(written[a], r)
        <4>1. WriteRight(b, written[a], devices[a], r)
          BY <1>4, <3>0, <3>1 DEF TransferRight
        <4>2. a = b.address /\ r \in CellsOf(b)
          BY <3>1 DEF OnCell
        <4>3. Valid(b)
          BY <4>2 DEF CellsOf
        <4>4. b.next = Len(b.data) + 1
          BY <1>2, <2>1, <2>2, <4>3
        <4> QED
          BY <1>0, <1>1, <2>2, <4>1, <4>2, <4>4, WriteOver
      <3> QED
        BY <2>1, <3>0, <3>1, CellKnown DEF CellStep
    <2>10. /\ \A a \in Addresses : clashed[a] \subseteq clashed'[a]
           /\ \A a \in Addresses : devices[a] # NoDevice => devices'[a] # NoDevice
           /\ clashed' \in [Addresses -> SUBSET Cells]
           /\ devices' \in [Addresses -> [Cells -> Int] \cup {NoDevice}]
           /\ c \in BusRecords \cup {Idle} /\ c = Idle
      BY <1>0, <2>1
    <2> QED
      BY <2>1, <2>9, <2>10, BusStays
  <1> QED
    BY <1>a, <1>b, <1>c, <1>d, <1>e DEF I2CStep

\* Every register that no overlap has spoiled holds the last byte of the last write
\* about it, and every read returns it.
LEMMA BusInvHolds == I2CSpec => []BusInv
  <1>1. ASSUME CallersInit, I2CInit
        PROVE  BusInv
    <2>1. \A t \in Threads : call[t] = Idle
      BY <1>1 DEF CallersInit
    <2>2. BusTypes
      <3>1. << >> \in Seq(Transactions)
        OBVIOUS
      <3> QED
        BY <1>1, <2>1, <3>1 DEF BusTypes, CallersInit, I2CInit
    <2>3. ASSUME NEW a \in Addresses, NEW r \in Cells
          PROVE  CellRight(call, written[a], devices[a], a, r)
      <3>1. \A t \in Threads : ~ OnCell(call[t], a, r)
        BY <2>1 DEF OnCell
      <3>2. devices[a] = NoDevice /\ written[a] = << >>
        BY <1>1 DEF I2CInit
      <3>3. ReachingIn(written[a], r) = {}
        BY <3>2 DEF ReachingIn
      <3>4. Held(devices[a], r) = LastIn(written[a], r)
        BY <3>2, <3>3 DEF Held, LastIn
      <3> QED
        BY <3>1, <3>4 DEF CellRight
    <2> QED
      BY <2>2, <2>3 DEF BusInv
  <1>2. ASSUME BusInv, [\E t \in Threads : I2CCall(t) \/ I2CStep(t)]_i2cVars
        PROVE  BusInv'
    <2>1. CASE UNCHANGED i2cVars
      BY <1>2, <2>1 DEF i2cVars, callerVars, BusInv, BusTypes
    <2>2. CASE \E t \in Threads : I2CCall(t) \/ I2CStep(t)
      BY <1>2, <2>2, BusCallInv, BusStepInv
    <2> QED
      BY <1>2, <2>1, <2>2
  <1> QED
    BY <1>1, <1>2, PTL DEF I2CSpec

\* "Each device address is backed by a 256-byte register array": what a thread has
\* written stays until it is written again, also across a block that wraps and
\* first uses of other addresses, and reads return it.
THEOREM RegistersKeepTheLastWrite == I2CSpec => []RegistersHold
  <1>1. ASSUME BusInv
        PROVE  RegistersHold
    <2> SUFFICES ASSUME NEW a \in Addresses, NEW r \in Cells \ clashed[a]
                 PROVE  /\ ~ (\E t \in Threads : InTransaction(t) /\ call[t].address = a
                                 /\ call[t].writes /\ r \in CellsOf(call[t]))
                             => Content(a, r) = LastWritten(a, r)
                        /\ \A t \in Threads :
                             InTransaction(t) /\ call[t].address = a /\ ~ call[t].writes =>
                               \A k \in DOMAIN call[t].got :
                                 Cell(call[t], k) = r => call[t].got[k] = LastWritten(a, r)
      BY DEF RegistersHold
    <2>1. Content(a, r) = Held(devices[a], r) /\ LastWritten(a, r) = LastIn(written[a], r)
      BY DEF Content, Held, LastWritten, LastIn, LeavesAt, ReachingIn, LatestIn, PlacesOf, LastPlace
    <2>2. \A t \in Threads : call[t] # Idle => call[t] \in BusRecords /\ InTransaction(t)
      BY <1>1, BusRecordFields DEF BusInv, BusTypes, InTransaction, Has
    <2>3. ASSUME \A t \in Threads : OnCell(call[t], a, r) => ~ call[t].writes
          PROVE  Content(a, r) = LastWritten(a, r)
      BY <1>1, <2>1, <2>3, CellKnown
    <2>4. ASSUME NEW t \in Threads, InTransaction(t), call[t].address = a, ~ call[t].writes,
                 NEW k \in DOMAIN call[t].got, Cell(call[t], k) = r
          PROVE  call[t].got[k] = LastWritten(a, r)
      <3> PICK b : b = call[t]
        OBVIOUS
      <3>1. b # Idle /\ b \in BusRecords
        BY <2>2, <2>4 DEF InTransaction, Has
      <3>2. /\ b.next \in Nat \ {0} /\ b.data \in Seq(Int) /\ b.got \in Seq(Int)
            /\ Len(b.got) \in Nat /\ Len(b.data) \in Nat
        BY <3>1, BusRecordFields
      <3>3. ProgressRight(b, devices[b.address])
        BY <1>1, <3>1 DEF BusInv, BusTypes
      <3>4. k \in 1..(b.next - 1) /\ b.next <= Len(b.data) + 1 /\ Valid(b)
        BY <2>4, <3>2, <3>3 DEF ProgressRight
      <3>5. k \in DOMAIN b.data
        BY <3>2, <3>4
      <3>6. OnCell(b, a, r)
        BY <2>4, <3>1, <3>4, <3>5 DEF OnCell, CellsOf
      <3>7. TransferRight(b, written[a], devices[a], r)
        BY <1>1, <3>6, CellKnown
      <3> QED
        BY <2>1, <2>4, <3>7 DEF TransferRight, GotRight
    <2> QED
      BY <2>2, <2>3, <2>4 DEF OnCell, InTransaction, Has
  <1> QED
    BY <1>1, BusInvHolds, PTL

---------------------------------------------------------------------------
(* ManagedCamera: whose hand each camera is in.                              *)

\* The calls of the camera's own threads.
CallTypes == call \in [Threads -> CameraRecords \cup {Idle}]

CameraTypeInv ==
  /\ CallTypes
  /\ active \in made /\ made \subseteq Cameras
  /\ is_open \in [Cameras -> BOOLEAN]
  /\ frame_count \in [Cameras -> Nat]

\* A thread that swaps holds a camera: before it replaces, the one it has made,
\* and after, the one it was handed back and releases.
Holds(t, k) == (At(t, "swap") \/ At(t, "release")) /\ call[t].camera = k

\* Every camera is in one hand.  That the active one is open is not inductive:
\* it takes that no thread which will release a camera holds the active one, or
\* one that another thread holds.
HandsInv ==
  /\ \A t \in Threads : ~ Holds(t, active)
  /\ \A t, u \in Threads, k \in Cameras : Holds(t, k) /\ Holds(u, k) => t = u
  /\ \A t \in Threads, k \in Cameras : Holds(t, k) => k \in made
  /\ \A k \in Cameras : is_open[k] <=> k \notin made \/ k = active \/ \E t \in Threads : Holds(t, k)

---------------------------------------------------------------------------
\* How a thread moves: it begins, goes on or returns, and the others stay.
LEMMA Moved ==
  ASSUME CallTypes, NEW t \in Threads, NEW c, call' = [call EXCEPT ![t] = c]
  PROVE  /\ call'[t] = c
         /\ \A u \in Threads \ {t} : call'[u] = call[u]
         /\ c \in CameraRecords \cup {Idle} => CallTypes'
  BY DEF CallTypes

\* A step of a call leaves the fields that it does not name.
LEMMA Stepped ==
  ASSUME CallTypes, NEW t \in Threads, NEW step, call' = [call EXCEPT ![t].step = step]
  PROVE  call' = [call EXCEPT ![t] = [call[t] EXCEPT !.step = step]]
  BY DEF CallTypes

\* A thread at one of these steps is in a call with a camera.
LEMMA InCall ==
  ASSUME CallTypes, NEW t \in Threads, NEW step, At(t, step)
  PROVE  call[t] \in CameraRecords /\ call[t].step = step /\ call[t].camera \in Cameras
  BY DEF CallTypes, At, CameraRecords

\* Threads that hold the same camera before and after a step.
LEMMA HoldsSame ==
  ASSUME NEW u, call'[u] = call[u], NEW k
  PROVE  Holds(u, k)' <=> Holds(u, k)
  BY DEF Holds, At

---------------------------------------------------------------------------
LEMMA CameraInitInv == CallersInit /\ CameraInit => CameraTypeInv /\ HandsInv
  BY CameraConstants
  DEF CallersInit, CameraInit, CameraTypeInv, CallTypes, HandsInv, Holds, At

\* Calls that hold no camera, before and after, change nothing of who holds what.
LEMMA HandsUnmoved ==
  ASSUME CallTypes, HandsInv, NEW t \in Threads, UNCHANGED <<active, made, is_open>>,
         \A u \in Threads \ {t} : call'[u] = call[u],
         \A k \in Cameras : ~ Holds(t, k) /\ ~ Holds(t, k)',
         made \subseteq Cameras, active \in made
  PROVE  HandsInv'
  <1>1. \A u \in Threads, k \in Cameras : Holds(u, k)' <=> Holds(u, k)
    BY HoldsSame
  <1> QED
    BY <1>1 DEF HandsInv

LEMMA CameraStepInv ==
  ASSUME CameraTypeInv, HandsInv, NEW t \in Threads, CameraCall(t) \/ CameraStep(t)
  PROVE  CameraTypeInv' /\ HandsInv'
  <1>0. CallTypes /\ made \subseteq Cameras /\ active \in made /\ active \in Cameras
    BY DEF CameraTypeInv
  <1>1. CASE TakeMethod(t)
    <2> DEFINE c == [step |-> "capture", camera |-> active]
    <2>1. c \in CameraRecords /\ call[t] = Idle /\ call' = [call EXCEPT ![t] = c]
      BY <1>0, <1>1 DEF TakeMethod, Begin, CameraRecords
    <2>2. CameraTypeInv'
      BY <1>0, <1>1, <2>1, Moved DEF TakeMethod, CameraTypeInv
    <2>3. \A k \in Cameras : ~ Holds(t, k) /\ ~ Holds(t, k)'
      BY <1>0, <2>1, Moved DEF Holds, At
    <2> HIDE DEF c
    <2> QED
      BY <1>0, <1>1, <2>1, <2>2, <2>3, Moved, HandsUnmoved DEF TakeMethod
  <1>2. ASSUME NEW k \in Cameras, MakeAndSwap(t, k) PROVE CameraTypeInv' /\ HandsInv'
    <2> DEFINE c == [step |-> "swap", camera |-> k, old |-> active]
    <2>1. c \in CameraRecords /\ call[t] = Idle /\ call' = [call EXCEPT ![t] = c]
      BY <1>0, <1>2 DEF MakeAndSwap, Begin, CameraRecords
    <2>2. k \notin made /\ made' = made \cup {k} /\ UNCHANGED <<active, is_open, frame_count>>
      BY <1>2 DEF MakeAndSwap, cameraState
    <2>3. CameraTypeInv'
      BY <1>0, <2>1, <2>2, Moved DEF CameraTypeInv
    <2>4. /\ \A j \in Cameras : ~ Holds(t, j)
          /\ \A j \in Cameras : Holds(t, j)' <=> j = k
      <3>1. c # Idle /\ c.step = "swap" /\ c.camera = k
        BY <2>1, CameraConstants
      <3> HIDE DEF c
      <3>2. call'[t] = c
        BY <1>0, <2>1, Moved
      <3> QED
        BY <2>1, <3>1, <3>2 DEF Holds, At
    <2>5. \A u \in Threads \ {t}, j \in Cameras : Holds(u, j)' <=> Holds(u, j)
      BY <1>0, <2>1, Moved, HoldsSame
    <2> QED
      BY <1>0, <2>2, <2>3, <2>4, <2>5 DEF HandsInv
  <1>3. CASE Swap(t)
    <2> DEFINE c == [step |-> "release", camera |-> active]
               k == call[t].camera
    <2>1. c \in CameraRecords /\ call' = [call EXCEPT ![t] = c] /\ k \in Cameras /\ Holds(t, k)
      BY <1>0, <1>3, InCall DEF Swap, Continue, CameraRecords, Holds
    <2>2. active' = k /\ UNCHANGED <<made, is_open, frame_count>>
      BY <1>3 DEF Swap, cameraState
    <2>3. k \in made /\ k # active
      BY <2>1 DEF HandsInv
    <2>4. CameraTypeInv'
      BY <1>0, <2>1, <2>2, <2>3, Moved DEF CameraTypeInv
    <2>5. /\ \A j \in Cameras : Holds(t, j) <=> j = k
          /\ \A j \in Cameras : Holds(t, j)' <=> j = active
      <3>1. c # Idle /\ c.step = "release" /\ c.camera = active
        BY <2>1, CameraConstants
      <3> HIDE DEF c, k
      <3>2. call'[t] = c
        BY <1>0, <2>1, Moved
      <3>3. \A j : Holds(t, j) <=> j = k
        BY <2>1 DEF Holds
      <3> QED
        BY <3>1, <3>2, <3>3 DEF Holds, At
    <2>6. \A u \in Threads \ {t}, j \in Cameras : Holds(u, j)' <=> Holds(u, j)
      BY <1>0, <2>1, Moved, HoldsSame
    <2> HIDE DEF k, c
    <2> QED
      BY <1>0, <2>1, <2>2, <2>3, <2>4, <2>5, <2>6 DEF HandsInv
  <1>4. CASE Release(t)
    <2> DEFINE k == call[t].camera
    <2>1. call' = [call EXCEPT ![t] = Idle] /\ k \in Cameras /\ Holds(t, k)
      BY <1>0, <1>4, InCall DEF Release, Return, Holds
    <2>2. is_open' = [is_open EXCEPT ![k] = FALSE] /\ UNCHANGED <<active, made, frame_count>>
      BY <1>4 DEF Release
    <2>3. k \in made /\ k # active
      BY <2>1 DEF HandsInv
    <2>4. CameraTypeInv'
      BY <1>0, <2>1, <2>2, Moved DEF CameraTypeInv
    <2>5. /\ \A j \in Cameras : Holds(t, j) <=> j = k
          /\ \A j \in Cameras : ~ Holds(t, j)'
      BY <1>0, <2>1, Moved DEF Holds, At
    <2>6. \A u \in Threads \ {t}, j \in Cameras : Holds(u, j)' <=> Holds(u, j)
      BY <1>0, <2>1, Moved, HoldsSame
    <2>7. is_open'[k] = FALSE /\ \A j \in Cameras \ {k} : is_open'[j] = is_open[j]
      BY <2>1, <2>2 DEF CameraTypeInv
    <2> HIDE DEF k
    <2> QED
      BY <1>0, <2>1, <2>2, <2>3, <2>4, <2>5, <2>6, <2>7 DEF HandsInv
  <1>5. CASE CheckOpen(t)
    <2> DEFINE c == IF is_open[call[t].camera] THEN [call[t] EXCEPT !.step = "load"] ELSE Idle
    <2>1. call[t] \in CameraRecords /\ call[t].step = "capture"
      BY <1>0, <1>5, InCall DEF CheckOpen
    <2>2. call' = [call EXCEPT ![t] = c] /\ UNCHANGED <<active, made, is_open, frame_count>>
      BY <1>0, <1>5, Stepped DEF CheckOpen, Goto, Return, cameraState
    <2>3. c \in CameraRecords \cup {Idle} /\ (c = Idle \/ c.step = "load")
      BY <2>1 DEF CameraRecords
    <2> HIDE DEF c
    <2>4. CameraTypeInv'
      BY <1>0, <2>2, <2>3, Moved DEF CameraTypeInv
    <2>5. \A k \in Cameras : ~ Holds(t, k) /\ ~ Holds(t, k)'
      BY <1>0, <2>1, <2>2, <2>3, Moved DEF Holds, At
    <2> QED
      BY <1>0, <2>2, <2>4, <2>5, Moved, HandsUnmoved
  <1>6. CASE LoadCount(t)
    <2> DEFINE k == call[t].camera
               c == [step |-> "store", camera |-> k, count |-> frame_count[k]]
    <2>1. call[t].step = "load" /\ k \in Cameras
      BY <1>0, <1>6, InCall DEF LoadCount
    <2>2. call' = [call EXCEPT ![t] = c] /\ UNCHANGED <<active, made, is_open, frame_count>>
      BY <1>6 DEF LoadCount, Continue, cameraState
    <2>3. c \in CameraRecords /\ c.step = "store"
      BY <2>1 DEF CameraRecords, CameraTypeInv
    <2> HIDE DEF c, k
    <2>4. CameraTypeInv'
      BY <1>0, <2>2, <2>3, Moved DEF CameraTypeInv
    <2>5. \A j \in Cameras : ~ Holds(t, j) /\ ~ Holds(t, j)'
      BY <1>0, <2>1, <2>2, <2>3, Moved DEF Holds, At
    <2> QED
      BY <1>0, <2>2, <2>4, <2>5, Moved, HandsUnmoved
  <1>7. CASE StoreCount(t)
    <2> DEFINE c == [call[t] EXCEPT !.step = "number"]
    <2>1. call[t] \in CameraRecords /\ call[t].step = "store" /\ call[t].camera \in Cameras
      BY <1>0, <1>7, InCall DEF StoreCount
    <2>2. /\ call' = [call EXCEPT ![t] = c] /\ UNCHANGED <<active, made, is_open>>
          /\ frame_count' = [frame_count EXCEPT ![call[t].camera] = call[t].count + 1]
      BY <1>0, <1>7, Stepped DEF StoreCount, Goto
    <2>3. c \in CameraRecords /\ c.step = "number" /\ call[t].count \in Nat
      BY <2>1 DEF CameraRecords
    <2> HIDE DEF c
    <2>4. CameraTypeInv'
      <3>1. call[t].count + 1 \in Nat /\ frame_count' \in [Cameras -> Nat]
        BY <2>1, <2>2, <2>3 DEF CameraTypeInv
      <3>2. CallTypes'
        BY <1>0, <2>2, <2>3, Moved
      <3> QED
        BY <1>0, <2>2, <3>1, <3>2 DEF CameraTypeInv
    <2>5. \A j \in Cameras : ~ Holds(t, j) /\ ~ Holds(t, j)'
      BY <1>0, <2>1, <2>2, <2>3, Moved DEF Holds, At
    <2> QED
      BY <1>0, <2>2, <2>4, <2>5, Moved, HandsUnmoved
  <1>8. CASE NumberFrame(t)
    <2>1. call[t].step = "number" /\ call' = [call EXCEPT ![t] = Idle]
      BY <1>0, <1>8, InCall DEF NumberFrame, Return
    <2>2. UNCHANGED <<active, made, is_open, frame_count>>
      BY <1>8 DEF NumberFrame
    <2>3. CameraTypeInv'
      BY <1>0, <2>1, <2>2, Moved DEF CameraTypeInv
    <2>4. \A j \in Cameras : ~ Holds(t, j) /\ ~ Holds(t, j)'
      BY <1>0, <2>1, Moved DEF Holds, At
    <2> QED
      BY <1>0, <2>1, <2>2, <2>3, <2>4, Moved, HandsUnmoved
  <1> QED
    BY <1>1, <1>2, <1>3, <1>4, <1>5, <1>6, <1>7, <1>8 DEF CameraCall, CameraStep

\* Who holds what says which cameras are open.
LEMMA HandsSuffice == CameraTypeInv /\ HandsInv => HandedBackOnce
  <1> SUFFICES ASSUME CameraTypeInv, HandsInv PROVE HandedBackOnce
    OBVIOUS
  <1>1. \A t \in Threads : At(t, "release") => Holds(t, call[t].camera) /\ call[t].camera \in Cameras
    BY InCall DEF Holds, CameraTypeInv
  <1>2. \A t \in Threads : At(t, "swap") => Holds(t, call[t].camera) /\ call[t].camera \in Cameras
    BY InCall DEF Holds, CameraTypeInv
  <1>3. is_open[active] /\ active \in Cameras
    BY DEF HandsInv, CameraTypeInv
  <1>4. \A t, u \in Threads :
          At(t, "release") /\ At(u, "release") /\ t # u => call[t].camera # call[u].camera
    BY <1>1 DEF HandsInv
  <1>5. active \notin Replaced
    BY <1>1 DEF Replaced, HandsInv
  <1>6. \A k \in Cameras : (\E t \in Threads : Holds(t, k)) <=> k \in Replaced \cup Coming
    BY DEF Replaced, Coming, Holds
  <1>7. Replaced \subseteq made /\ Coming \subseteq made
    BY <1>1, <1>2 DEF Replaced, Coming, HandsInv
  <1>8. {k \in made : is_open[k]} = {active} \cup Replaced \cup Coming
    BY <1>3, <1>6, <1>7 DEF HandsInv, CameraTypeInv
  <1> QED
    BY <1>3, <1>4, <1>5, <1>8 DEF HandedBackOnce

\* HandedBackOnce holds: because swap reads and replaces the implementation in
\* one step under its lock, each camera is handed back to exactly one swap.
THEOREM CamerasHandedBackOnce == CameraSpec => []HandedBackOnce
  <1>1. CameraTypeInv /\ HandsInv /\ UNCHANGED cameraVars => CameraTypeInv' /\ HandsInv'
    BY DEF cameraVars, callerVars, cameraState, CameraTypeInv, CallTypes, HandsInv, Holds, At
  <1>2. CameraTypeInv /\ HandsInv /\ [\E t \in Threads : CameraCall(t) \/ CameraStep(t)]_cameraVars
          => CameraTypeInv' /\ HandsInv'
    BY <1>1, CameraStepInv
  <1> QED
    BY CameraInitInv, <1>2, HandsSuffice, PTL DEF CameraSpec

---------------------------------------------------------------------------
(* The numbers of the frames.                                                *)

\* The captures of a camera, and those that have still to number their frame.
Captures(c, k) == c # Idle /\ c.step \in {"capture", "load", "store", "number"} /\ c.camera = k
Unnumbered(k) == {t \in Threads : call[t] # Idle /\ call[t].step = "number" /\ call[t].camera = k}
Busy == {t \in Threads : call[t] # Idle}
Given(k) == Len(numbered[k]) + Cardinality(Unnumbered(k))

\* No number is more than the frames a camera has counted, finished ones or not;
\* a camera with one capture at a time has counted exactly these.
CountRight(k) ==
  /\ frame_count[k] <= Given(k)
  /\ Unnumbered(k) # {} => frame_count[k] >= 1
  /\ \A n \in 1..Len(numbered[k]) : numbered[k][n] \in 1..Given(k)
  /\ \A t \in Threads : Captures(call[t], k) /\ call[t].step = "store" => call[t].count <= Given(k)
  /\ k \notin jostled =>
       /\ \A t, u \in Threads : Captures(call[t], k) /\ Captures(call[u], k) => t = u
       /\ \A n \in 1..Len(numbered[k]) : numbered[k][n] = n
       /\ \A t \in Threads : Captures(call[t], k) /\ call[t].step = "store" => call[t].count = frame_count[k]
       /\ frame_count[k] = Given(k)

CountInv ==
  /\ IsFiniteSet(Busy)
  /\ numbered \in [Cameras -> Seq(Nat)]
  /\ \A k \in Cameras : CountRight(k)

LEMMA CameraCalls ==
  ASSUME NEW c \in CameraRecords
  PROVE  /\ c # Idle /\ c.camera \in Cameras /\ "camera" \in DOMAIN c
         /\ c.step \in {"swap", "release", "capture", "load", "store", "number"}
         /\ c.step \in {"store", "number"} => c.count \in Nat
  BY CameraConstants DEF CameraRecords

LEMMA CameraThreads ==
  ASSUME CallTypes, NEW t \in Threads
  PROVE  /\ \A k : Capturing(t, k) <=> Captures(call[t], k)
         /\ call[t] # Idle => call[t] \in CameraRecords
         /\ \A step : At(t, step) => call[t] # Idle /\ call[t].step = step
  BY CameraCalls DEF Capturing, Captures, Has, At, CallTypes

LEMMA GivenCount ==
  ASSUME CallTypes, IsFiniteSet(Busy), numbered \in [Cameras -> Seq(Nat)], NEW k \in Cameras
  PROVE  /\ IsFiniteSet(Unnumbered(k)) /\ Cardinality(Unnumbered(k)) \in Nat
         /\ Len(numbered[k]) \in Nat /\ Given(k) \in Nat
         /\ Unnumbered(k) = {} <=> Cardinality(Unnumbered(k)) = 0
  <1>1. Unnumbered(k) \in SUBSET Busy
    BY DEF Unnumbered, Busy
  <1>2. IsFiniteSet(Unnumbered(k))
    BY <1>1, FS_Subset
  <1>3. Cardinality(Unnumbered(k)) \in Nat /\ (Unnumbered(k) = {} <=> Cardinality(Unnumbered(k)) = 0)
    BY <1>2, FS_CardinalityType, FS_EmptySet
  <1>4. Len(numbered[k]) \in Nat
    OBVIOUS
  <1> QED
    BY <1>2, <1>3, <1>4 DEF Given

\* A step of one thread t, at camera k if it captures.
LEMMA CountStays ==
  ASSUME CallTypes, CountInv, NEW t \in Threads, NEW c \in CameraRecords \cup {Idle},
         call' = [call EXCEPT ![t] = c]
  PROVE  /\ IsFiniteSet(Busy')
         /\ \A k \in Cameras :
              LET was == call[t] # Idle /\ call[t].step = "number" /\ call[t].camera = k
                  is == c # Idle /\ c.step = "number" /\ c.camera = k
              IN  Cardinality(Unnumbered(k)') = Cardinality(Unnumbered(k)) + (IF is THEN 1 ELSE 0) - (IF was THEN 1 ELSE 0)
  <1>1. call'[t] = c /\ \A u \in Threads \ {t} : call'[u] = call[u]
    BY Moved
  <1>2. IsFiniteSet(Busy')
    <2>1. Busy' \in SUBSET (Busy \cup {t})
      BY <1>1 DEF Busy
    <2>2. IsFiniteSet(Busy \cup {t})
      BY FS_AddElement DEF CountInv
    <2> QED
      BY <2>1, <2>2, FS_Subset
  <1>3. ASSUME NEW k \in Cameras
        PROVE  LET was == call[t] # Idle /\ call[t].step = "number" /\ call[t].camera = k
                   is == c # Idle /\ c.step = "number" /\ c.camera = k
               IN  Cardinality(Unnumbered(k)') = Cardinality(Unnumbered(k)) + (IF is THEN 1 ELSE 0) - (IF was THEN 1 ELSE 0)
    <2> DEFINE was == call[t] # Idle /\ call[t].step = "number" /\ call[t].camera = k
               is == c # Idle /\ c.step = "number" /\ c.camera = k
               U == Unnumbered(k)
    <2>1. Unnumbered(k)' = IF is THEN (U \ {t}) \cup {t} ELSE U \ {t}
      BY <1>1 DEF Unnumbered
    <2>2. t \in U <=> was
      BY DEF Unnumbered
    <2>3. IsFiniteSet(U) /\ Cardinality(U) \in Nat
      BY GivenCount DEF CountInv
    <2> HIDE DEF U
    <2>4. IsFiniteSet(U \ {t}) /\ Cardinality(U \ {t}) = IF t \in U THEN Cardinality(U) - 1 ELSE Cardinality(U)
      BY <2>3, FS_RemoveElement
    <2>5. Cardinality((U \ {t}) \cup {t}) = Cardinality(U \ {t}) + 1
      BY <2>4, FS_AddElement
    <2> QED
      BY <2>1, <2>2, <2>3, <2>4, <2>5 DEF U
  <1> QED
    BY <1>2, <1>3

\* A camera that t does not capture stays as it is.
LEMMA CountElsewhere ==
  ASSUME CallTypes, CountInv, NEW t \in Threads, NEW c \in CameraRecords \cup {Idle},
         call' = [call EXCEPT ![t] = c], NEW k \in Cameras,
         ~ Captures(call[t], k), ~ Captures(c, k),
         frame_count'[k] = frame_count[k], numbered'[k] = numbered[k], k \in jostled' <=> k \in jostled
  PROVE  CountRight(k)'
  <1>1. call'[t] = c /\ \A u \in Threads \ {t} : call'[u] = call[u]
    BY Moved
  <1>2. \A u \in Threads : /\ Captures(call'[u], k) <=> Captures(call[u], k)
                           /\ Captures(call[u], k) => call'[u] = call[u]
    BY <1>1
  <1>3. Unnumbered(k)' = Unnumbered(k)
    BY <1>1 DEF Unnumbered, Captures
  <1>4. Given(k)' = Given(k)
    BY <1>3 DEF Given
  <1>5. CountRight(k)
    BY DEF CountInv
  <1> QED
    BY <1>2, <1>3, <1>4, <1>5 DEF CountRight

LEMMA CountStepInv ==
  ASSUME CameraTypeInv, CountInv, NEW t \in Threads, CameraCall(t) \/ CameraStep(t)
  PROVE  CountInv'
  <1>0. /\ CallTypes /\ call \in [Threads -> CameraRecords \cup {Idle}] /\ active \in Cameras
        /\ numbered \in [Cameras -> Seq(Nat)] /\ frame_count \in [Cameras -> Nat]
        /\ \A k \in Cameras : CountRight(k)
    BY DEF CameraTypeInv, CallTypes, CountInv
  <1>1. \A k \in Cameras : Given(k) \in Nat /\ Len(numbered[k]) \in Nat /\ frame_count[k] \in Nat
                            /\ Cardinality(Unnumbered(k)) \in Nat
    BY <1>0, GivenCount DEF CountInv
  \* A step that neither counts nor numbers a frame.
  <1>2. ASSUME NEW b \in CameraRecords \cup {Idle}, call' = [call EXCEPT ![t] = b],
               UNCHANGED <<frame_count, numbered>>,
               call[t] = Idle \/ call[t].step # "number", b = Idle \/ b.step # "number",
               b # Idle => (b.step = "store" => call[t] # Idle /\ call[t].step = "load"
                                              /\ b.count = frame_count[b.camera]),
               \A k \in Cameras : k \notin jostled' => k \notin jostled,
               \A k \in Cameras : k \notin jostled' /\ Captures(b, k) /\ ~ Captures(call[t], k) =>
                 \A u \in Threads : ~ Captures(call[u], k)
        PROVE  CountInv'
    <2>1. call'[t] = b /\ \A u \in Threads \ {t} : call'[u] = call[u]
      BY <1>0, <1>2, Moved
    <2>2. IsFiniteSet(Busy')
      BY <1>0, <1>2, CountStays
    <2>3. ASSUME NEW k \in Cameras
          PROVE  CountRight(k)'
      <3>1. Unnumbered(k)' = Unnumbered(k)
        BY <1>2, <2>1 DEF Unnumbered
      <3>2. Given(k)' = Given(k) /\ frame_count'[k] = frame_count[k] /\ numbered'[k] = numbered[k]
        BY <1>2, <3>1 DEF Given
      <3>3. ASSUME NEW u \in Threads, Captures(call'[u], k), call'[u].step = "store"
            PROVE  /\ call'[u].count <= Given(k)
                   /\ k \notin jostled' => call'[u].count = frame_count[k]
        <4>1. CASE u = t
          <5>1. call'[u].count = frame_count[k]
            BY <1>2, <2>1, <3>3, <4>1 DEF Captures
          <5> QED
            BY <1>0, <5>1 DEF CountRight
        <4>2. CASE u # t
          BY <1>0, <1>2, <2>1, <3>3, <4>2 DEF CountRight
        <4> QED
          BY <4>1, <4>2
      <3>4. ASSUME k \notin jostled', NEW u \in Threads, NEW v \in Threads,
                   Captures(call'[u], k), Captures(call'[v], k)
            PROVE  u = v
        <4>1. CASE u # t /\ v # t
          BY <1>0, <1>2, <2>1, <3>4, <4>1 DEF CountRight
        <4>2. CASE u = t \/ v = t
          <5>1. Captures(b, k)
            BY <2>1, <3>4, <4>2
          <5>2. CASE Captures(call[t], k)
            BY <1>0, <1>2, <2>1, <3>4, <4>2, <5>2 DEF CountRight
          <5>3. CASE ~ Captures(call[t], k)
            BY <1>2, <2>1, <3>4, <4>2, <5>1, <5>3
          <5> QED
            BY <5>2, <5>3
        <4> QED
          BY <4>1, <4>2
      <3> QED
        BY <1>0, <1>2, <3>1, <3>2, <3>3, <3>4 DEF CountRight
    <2> QED
      BY <1>0, <1>2, <2>2, <2>3 DEF CountInv
  <1>3. \A step : At(t, step) => call[t] \in CameraRecords /\ call[t] # Idle /\ call[t].step = step
                                /\ call[t].camera \in Cameras
    BY <1>0, CameraThreads, CameraCalls
  <1>a. CASE TakeMethod(t)
    <2>1. PICK b : b = [step |-> "capture", camera |-> active]
      OBVIOUS
    <2>2. b \in CameraRecords /\ b.step = "capture" /\ b.camera = active
      BY <1>0, <2>1 DEF CameraRecords
    <2>3. /\ call[t] = Idle /\ call' = [call EXCEPT ![t] = b] /\ UNCHANGED <<frame_count, numbered>>
          /\ jostled' = IF \E u \in Threads : Capturing(u, active) THEN jostled \cup {active} ELSE jostled
      BY <1>a, <2>1 DEF TakeMethod, Begin
    <2>4. \A k : Captures(b, k) => k = active
      BY <2>2 DEF Captures
    <2>5. \A k \in Cameras : k \notin jostled' /\ Captures(b, k) => \A u \in Threads : ~ Captures(call[u], k)
      BY <1>0, <2>3, <2>4, CameraThreads
    <2>6. \A k \in Cameras : k \notin jostled' => k \notin jostled
      BY <2>3
    <2> QED
      BY <1>2, <2>2, <2>3, <2>5, <2>6
  <1>b. ASSUME NEW k \in Cameras, MakeAndSwap(t, k) PROVE CountInv'
    <2>1. PICK b : b = [step |-> "swap", camera |-> k, old |-> active]
      OBVIOUS
    <2>2. b \in CameraRecords /\ b.step = "swap"
      BY <1>0, <2>1 DEF CameraRecords
    <2>3. call[t] = Idle /\ call' = [call EXCEPT ![t] = b] /\ UNCHANGED <<frame_count, numbered, jostled>>
      BY <1>b, <2>1 DEF MakeAndSwap, Begin, cameraState
    <2>4. \A j : ~ Captures(b, j)
      BY <2>2 DEF Captures
    <2> QED
      BY <1>2, <2>2, <2>3, <2>4
  <1>c. CASE Swap(t)
    <2>1. PICK b : b = [step |-> "release", camera |-> active]
      OBVIOUS
    <2>2. b \in CameraRecords /\ b.step = "release"
      BY <1>0, <2>1 DEF CameraRecords
    <2>3. /\ call[t].step = "swap" /\ call' = [call EXCEPT ![t] = b] /\ UNCHANGED <<frame_count, numbered, jostled>>
      BY <1>c, <2>1 DEF Swap, At, Continue, cameraState
    <2>4. \A j : ~ Captures(b, j)
      BY <2>2 DEF Captures
    <2> QED
      BY <1>2, <2>2, <2>3, <2>4
  <1>d. CASE Release(t)
    <2>1. /\ call[t].step = "release" /\ call' = [call EXCEPT ![t] = Idle]
          /\ UNCHANGED <<frame_count, numbered, jostled>>
      BY <1>d DEF Release, At, Return
    <2>2. \A j : ~ Captures(Idle, j)
      BY DEF Captures
    <2> QED
      BY <1>2, <2>1, <2>2
  <1>e. CASE CheckOpen(t)
    <2>0. call[t].step = "capture" /\ UNCHANGED <<frame_count, numbered, jostled>> /\ call[t] \in CameraRecords
      BY <1>3, <1>e DEF CheckOpen, cameraState
    <2>1. CASE call' = [call EXCEPT ![t] = Idle]
      <3>1. \A j : ~ Captures(Idle, j)
        BY DEF Captures
      <3> QED
        BY <1>2, <2>0, <2>1, <3>1
    <2>2. CASE call' = [call EXCEPT ![t].step = "load"]
      <3>1. PICK b : b = [call[t] EXCEPT !.step = "load"]
        OBVIOUS
      <3>2. b \in CameraRecords /\ b.step = "load" /\ b.camera = call[t].camera
        BY <2>0, <3>1 DEF CameraRecords
      <3>3. call' = [call EXCEPT ![t] = b]
        BY <1>0, <2>2, <3>1, Stepped
      <3>4. \A j : Captures(b, j) => Captures(call[t], j)
        BY <2>0, <3>2, CameraCalls DEF Captures
      <3> QED
        BY <1>2, <2>0, <3>2, <3>3, <3>4
    <2> QED
      BY <1>e, <2>1, <2>2 DEF CheckOpen, Goto, Return
  <1>f. CASE LoadCount(t)
    <2>0. /\ call[t].step = "load" /\ UNCHANGED <<frame_count, numbered, jostled>>
          /\ call[t] # Idle /\ call[t].camera \in Cameras
      BY <1>3, <1>f DEF LoadCount, cameraState
    <2>1. PICK b : b = [step |-> "store", camera |-> call[t].camera, count |-> frame_count[call[t].camera]]
      OBVIOUS
    <2>2. /\ b \in CameraRecords /\ b.step = "store" /\ b.camera = call[t].camera
          /\ b.count = frame_count[b.camera]
      BY <1>0, <2>0, <2>1 DEF CameraRecords
    <2>3. call' = [call EXCEPT ![t] = b]
      BY <1>f, <2>1 DEF LoadCount, Continue
    <2>4. \A j : Captures(b, j) => Captures(call[t], j)
      BY <2>0, <2>2 DEF Captures
    <2> QED
      BY <1>2, <2>0, <2>2, <2>3, <2>4
  \* A frame is counted, or numbered: the camera's own condition is left to show.
  <1>4. ASSUME NEW b \in CameraRecords \cup {Idle}, call' = [call EXCEPT ![t] = b],
               NEW j \in Cameras, Captures(call[t], j), b = Idle \/ Captures(b, j),
               numbered' \in [Cameras -> Seq(Nat)],
               \A k \in Cameras \ {j} : frame_count'[k] = frame_count[k] /\ numbered'[k] = numbered[k],
               UNCHANGED jostled, CountRight(j)'
        PROVE  CountInv'
    <2>1. IsFiniteSet(Busy')
      BY <1>0, <1>4, CountStays
    <2>2. ASSUME NEW k \in Cameras, k # j PROVE CountRight(k)'
      <3>1. ~ Captures(call[t], k) /\ ~ Captures(b, k)
        BY <1>4, <2>2 DEF Captures
      <3> QED
        BY <1>0, <1>4, <2>2, <3>1, CountElsewhere
    <2> QED
      BY <1>4, <2>1, <2>2 DEF CountInv
  <1>g. CASE StoreCount(t)
    <2>1. PICK j : j = call[t].camera
      OBVIOUS
    <2>2. PICK b : b = [call[t] EXCEPT !.step = "number"]
      OBVIOUS
    <2>3. PICK n : n = call[t].count
      OBVIOUS
    <2>4. /\ call[t] \in CameraRecords /\ call[t] # Idle /\ call[t].step = "store" /\ j \in Cameras
          /\ UNCHANGED <<numbered, jostled>> /\ n \in Nat
          /\ frame_count' = [frame_count EXCEPT ![j] = n + 1] /\ call' = [call EXCEPT ![t] = b]
      BY <1>0, <1>3, <1>g, <2>1, <2>2, <2>3, Stepped, CameraCalls DEF StoreCount, Goto
    <2>5. b \in CameraRecords /\ b.step = "number" /\ b.camera = j
      BY <2>1, <2>2, <2>4 DEF CameraRecords
    <2>6. b # Idle /\ Captures(call[t], j) /\ Captures(b, j)
      BY <2>1, <2>4, <2>5, CameraCalls DEF Captures
    <2>7. call'[t] = b /\ \A u \in Threads \ {t} : call'[u] = call[u]
      BY <1>0, <2>4, Moved
    <2>8. Cardinality(Unnumbered(j)') = Cardinality(Unnumbered(j)) + 1
      <3>1. Cardinality(Unnumbered(j)') = Cardinality(Unnumbered(j)) + 1 - 0
        BY <1>0, <2>1, <2>4, <2>5, <2>6, CountStays
      <3> QED
        BY <1>1, <2>4, <3>1
    <2>9. /\ Given(j)' = Given(j) + 1 /\ Given(j) \in Nat
          /\ numbered'[j] = numbered[j] /\ frame_count'[j] = n + 1 /\ frame_count[j] \in Nat
          /\ \A k \in Cameras \ {j} : frame_count'[k] = frame_count[k]
      BY <1>0, <1>1, <2>4, <2>8 DEF Given
    <2>a. CountRight(j) /\ n <= Given(j) /\ (j \notin jostled => n = frame_count[j])
      BY <1>0, <2>3, <2>4, <2>6 DEF CountRight
    <2>b. n + 1 <= Given(j)' /\ n + 1 >= 1 /\ \A i \in 1..Given(j) : i \in 1..Given(j)'
      BY <2>4, <2>9, <2>a
    <2>c. \A i \in 1..Len(numbered'[j]) : numbered'[j][i] \in 1..Given(j)'
      BY <2>9, <2>a, <2>b DEF CountRight
    <2>d. ASSUME NEW u \in Threads, Captures(call'[u], j), call'[u].step = "store"
          PROVE  call'[u].count <= Given(j)' /\ j \in jostled'
      <3>1. u # t /\ call'[u] = call[u]
        BY <2>5, <2>7, <2>d
      <3>2. call[u].count <= Given(j)
        BY <2>a, <2>d, <3>1 DEF CountRight
      <3>3. call[u].count \in Nat
        BY <1>0, <2>d, <3>1, CameraCalls DEF Captures
      <3>4. j \in jostled
        BY <2>6, <2>a, <2>d, <3>1 DEF CountRight
      <3> QED
        BY <2>4, <2>9, <3>1, <3>2, <3>3, <3>4
    <2>e. \A u : Captures(call'[u], j) /\ u \in Threads => Captures(call[u], j)
      BY <2>6, <2>7
    <2>f. j \notin jostled => n + 1 = Given(j)'
      BY <2>9, <2>a DEF CountRight
    <2>g. CountRight(j)'
      BY <2>4, <2>9, <2>a, <2>b, <2>c, <2>d, <2>e, <2>f DEF CountRight
    <2> QED
      BY <1>0, <1>4, <2>4, <2>5, <2>6, <2>9, <2>g
  <1>h. CASE NumberFrame(t)
    <2>1. PICK j : j = call[t].camera
      OBVIOUS
    <2>2. PICK n : n = frame_count[j]
      OBVIOUS
    <2>4. /\ call[t] \in CameraRecords /\ call[t] # Idle /\ call[t].step = "number" /\ j \in Cameras
          /\ UNCHANGED <<frame_count, jostled>> /\ n \in Nat
          /\ numbered' = [numbered EXCEPT ![j] = Append(numbered[j], n)] /\ call' = [call EXCEPT ![t] = Idle]
      BY <1>0, <1>3, <1>h, <2>1, <2>2 DEF NumberFrame, Return
    <2>5. Captures(call[t], j) /\ ~ Captures(Idle, j)
      BY <2>1, <2>4 DEF Captures
    <2>6. call'[t] = Idle /\ \A u \in Threads \ {t} : call'[u] = call[u]
      BY <1>0, <2>4, Moved
    <2>7. Cardinality(Unnumbered(j)') = Cardinality(Unnumbered(j)) - 1
      <3>1. Cardinality(Unnumbered(j)') = Cardinality(Unnumbered(j)) + 0 - 1
        BY <1>0, <2>1, <2>4, CountStays
      <3> QED
        BY <1>1, <2>4, <3>1
    <2>8. /\ numbered' \in [Cameras -> Seq(Nat)] /\ numbered'[j] = Append(numbered[j], n)
          /\ \A k \in Cameras \ {j} : numbered'[k] = numbered[k]
          /\ numbered[j] \in Seq(Nat)
      BY <1>0, <2>4
    <2>9. PICK L : L = Len(numbered[j])
      OBVIOUS
    <2>a. /\ L \in Nat /\ Len(numbered'[j]) = L + 1 /\ numbered'[j][L + 1] = n
          /\ \A i \in 1..L : numbered'[j][i] = numbered[j][i]
      BY <2>8, <2>9, SeqPush
    <2>b. Given(j)' = Given(j) /\ Given(j) \in Nat /\ Given(j) = L + Cardinality(Unnumbered(j))
          /\ Cardinality(Unnumbered(j)) \in Nat
      BY <1>1, <2>4, <2>7, <2>9, <2>a DEF Given
    <2>c. t \in Unnumbered(j) /\ Unnumbered(j)' \in SUBSET Unnumbered(j)
      BY <2>1, <2>4, <2>6 DEF Unnumbered
    <2>d. CountRight(j) /\ n >= 1 /\ n <= Given(j)
      BY <1>0, <2>2, <2>4, <2>c DEF CountRight
    <2>e. \A i \in 1..(L + 1) : i \in 1..L \/ i = L + 1
      BY <2>a
    <2>f. \A i \in 1..Len(numbered'[j]) : numbered'[j][i] \in 1..Given(j)'
      BY <2>4, <2>9, <2>a, <2>b, <2>d, <2>e DEF CountRight
    <2>g. ASSUME j \notin jostled
          PROVE  \A i \in 1..Len(numbered'[j]) : numbered'[j][i] = i
      <3>1. Unnumbered(j) = {t}
        BY <2>5, <2>c, <2>d, <2>g DEF CountRight, Unnumbered, Captures
      <3>2. n = L + 1
        BY <2>2, <2>b, <2>d, <2>g, <3>1, FS_Singleton DEF CountRight
      <3> QED
        BY <2>9, <2>a, <2>d, <2>e, <2>g, <3>2 DEF CountRight
    <2>h. \A u \in Threads : Captures(call'[u], j) => call'[u] = call[u] /\ Captures(call[u], j)
      BY <2>5, <2>6
    <2>i. CountRight(j)'
      BY <2>2, <2>4, <2>b, <2>c, <2>d, <2>f, <2>g, <2>h DEF CountRight
    <2> QED
      BY <1>0, <1>4, <2>4, <2>5, <2>8, <2>i
  <1> QED
    BY <1>a, <1>b, <1>c, <1>d, <1>e, <1>f, <1>g, <1>h DEF CameraCall, CameraStep

LEMMA CountSuffices ==
  ASSUME CameraTypeInv, CountInv
  PROVE  FramesNumbered
  <1>0. CallTypes
    BY DEF CameraTypeInv
  <1> SUFFICES ASSUME NEW k \in Cameras
               PROVE  /\ k \notin jostled => \A n \in DOMAIN numbered[k] : numbered[k][n] = n
                      /\ \A n \in DOMAIN numbered[k] : numbered[k][n] \in 1..(Len(numbered[k])
                           + Cardinality({t \in Threads : Capturing(t, k)}))
    BY DEF FramesNumbered
  <1> DEFINE C == {t \in Threads : Capturing(t, k)}
  <1>1. C \in SUBSET Busy /\ Unnumbered(k) \in SUBSET C
    BY <1>0, CameraThreads DEF Busy, Unnumbered, Captures
  <1>2. IsFiniteSet(C) /\ Cardinality(C) \in Nat
    BY <1>1, FS_Subset, FS_CardinalityType DEF CountInv
  <1>3. Cardinality(Unnumbered(k)) <= Cardinality(C)
    BY <1>1, <1>2, FS_Subset
  <1>4. /\ Cardinality(Unnumbered(k)) \in Nat /\ Len(numbered[k]) \in Nat
        /\ DOMAIN numbered[k] = 1..Len(numbered[k])
    BY <1>0, GivenCount DEF CountInv
  <1>5. CountRight(k)
    BY DEF CountInv
  <1> HIDE DEF C
  <1>6. \A i \in 1..Given(k) : i \in 1..(Len(numbered[k]) + Cardinality(C))
    BY <1>2, <1>3, <1>4 DEF Given
  <1> QED
    BY <1>4, <1>5, <1>6 DEF CountRight, C

\* FramesNumbered holds: no number is more than the frames that were counted, and
\* one capture at a time numbers its frame by the count it has just made.
THEOREM FramesCountUp == CameraSpec => []FramesNumbered
  <1>1. CallersInit /\ CameraInit => CameraTypeInv /\ CountInv
    <2>1. SUFFICES ASSUME CallersInit, CameraInit PROVE CountInv
      BY CameraInitInv
    <2>2. Busy = {} /\ \A k \in Cameras : Unnumbered(k) = {} /\ numbered[k] = << >> /\ frame_count[k] = 0
      BY <2>1 DEF CallersInit, CameraInit, Busy, Unnumbered
    <2>3. ASSUME NEW k \in Cameras
          PROVE  Given(k) = 0 /\ Len(numbered[k]) = 0
      <3>1. Cardinality(Unnumbered(k)) = 0 /\ Len(numbered[k]) = 0
        BY <2>2, FS_EmptySet
      <3> QED
        BY <3>1 DEF Given
    <2>4. IsFiniteSet(Busy) /\ numbered \in [Cameras -> Seq(Nat)]
      BY <2>1, <2>2, FS_EmptySet DEF CameraInit
    <2>5. \A k : \A t \in Threads : ~ Captures(call[t], k)
      BY <2>1 DEF CallersInit, Captures
    <2>6. ASSUME NEW k \in Cameras PROVE CountRight(k)
      <3>1. \A n : n \notin 1..Len(numbered[k])
        BY <2>3, <2>6
      <3>2. Given(k) = 0 /\ Unnumbered(k) = {} /\ frame_count[k] = 0
        BY <2>2, <2>3, <2>6
      <3>3. frame_count[k] <= Given(k)
        BY <3>2
      <3> QED
        BY <2>5, <3>1, <3>2, <3>3, Zenon DEF CountRight
    <2> QED
      BY <2>4, <2>6 DEF CountInv
  <1>2. CameraTypeInv /\ HandsInv /\ CountInv /\ [\E t \in Threads : CameraCall(t) \/ CameraStep(t)]_cameraVars
          => CameraTypeInv' /\ HandsInv' /\ CountInv'
    <2>1. ASSUME CameraTypeInv, HandsInv, CountInv, UNCHANGED cameraVars
          PROVE  CameraTypeInv' /\ HandsInv' /\ CountInv'
      <3>1. UNCHANGED <<call, active, made, is_open, frame_count, numbered, jostled>>
        BY <2>1 DEF cameraVars, callerVars, cameraState
      <3>2. CameraTypeInv' /\ HandsInv'
        BY <2>1, <3>1 DEF CameraTypeInv, CallTypes, HandsInv, Holds, At
      <3>3. Busy' = Busy /\ \A k : Unnumbered(k)' = Unnumbered(k)
        BY <3>1 DEF Busy, Unnumbered
      <3>4. \A k : Given(k)' = Given(k)
        BY <3>1, <3>3 DEF Given
      <3> QED
        BY <2>1, <3>1, <3>2, <3>3, <3>4 DEF CountInv, CountRight
    <2> QED
      BY <2>1, CameraStepInv, CountStepInv
  <1> QED
    BY <1>1, <1>2, CameraInitInv, CountSuffices, PTL DEF CameraSpec

---------------------------------------------------------------------------
(* SensorArray: what a read of the whole array has seen.                     *)

Reading == {"active", "sleep", "store"}

Entries == [name : SensorNames, sensor : AllSensors]

\* A call of read, or of read_all, in which a sensor is read.
ReadOK(c) ==
  /\ {"step", "all"} \subseteq DOMAIN c
  /\ c.step \in Reading \cup {"item", "readings"}
  /\ c.all \in BOOLEAN
  /\ c.step \in {"item", "readings"} => c.all
  /\ c.all => {"at", "size", "left", "got", "stayed", "present"} \subseteq DOMAIN c /\ c.at \in Nat \ {0}
  /\ c.step \in Reading => {"sensor", "time"} \subseteq DOMAIN c /\ c.sensor \in AllSensors /\ c.time \in Int
  /\ c.step \in Reading /\ c.all => "name" \in DOMAIN c

\* The entries of the dict S and their names.
LiveIn(S) == {k \in DOMAIN S : S[k] # Removed}
NamesIn(S) == {S[k].name : k \in LiveIn(S)}

\* A sensor that was in the array all the time has kept its entry: if the iterator
\* is past it, it has been read, or is being read.
WholeRight(c, S) ==
  /\ c.got \subseteq c.present /\ NamesIn(S) \subseteq c.present /\ c.stayed \subseteq NamesIn(S)
  /\ c.step \in Reading => c.name \in c.present
  /\ c.step = "readings" => c.stayed \subseteq c.got
  /\ c.step # "readings" =>
       \A k \in LiveIn(S) : k < c.at /\ S[k].name \in c.stayed =>
         S[k].name \in c.got \/ (c.step # "item" /\ S[k].name = c.name)

ReadRight(c) == c # Idle => ReadOK(c) /\ (c.all => WholeRight(c, slots))

SensorTypes ==
  /\ call = [t \in Threads |-> call[t]]
  /\ clock \in Int /\ last_reading_time \in [AllSensors -> Int]
  /\ slots \in Seq(Entries \cup {Removed}) /\ sensorsMade \in Nat

ArrayInv ==
  /\ SensorTypes
  /\ \A j, k \in LiveIn(slots) : slots[j].name = slots[k].name => j = k
  /\ \A t \in Threads : ReadRight(call[t])

LEMMA SensorRanges ==
  /\ Solo \in AllSensors /\ MaxSensors \in Nat /\ AllSensors = 0..MaxSensors
  /\ \A s : Interval(s) \in Int
  BY SensorConstants DEF Solo, MaxSensors, AllSensors, Interval

LEMMA SlotTypes ==
  ASSUME SensorTypes
  PROVE  /\ Live = LiveIn(slots) /\ Names = NamesIn(slots) /\ DOMAIN slots = 1..Len(slots) /\ Len(slots) \in Nat
         /\ \A k \in LiveIn(slots) : /\ k \in 1..Len(slots) /\ k \in Nat \ {0} /\ slots[k] \in Entries
                                     /\ slots[k].name \in SensorNames /\ slots[k].sensor \in AllSensors
         /\ \A n \in Names : SlotOf(n) \in LiveIn(slots) /\ slots[SlotOf(n)].name = n
  <1>1. Live = LiveIn(slots) /\ Names = NamesIn(slots)
    BY DEF Live, LiveIn, Names, NamesIn
  <1>2. DOMAIN slots = 1..Len(slots) /\ Len(slots) \in Nat /\ \A k \in 1..Len(slots) : slots[k] \in Entries \cup {Removed}
    BY DEF SensorTypes
  <1>3. ASSUME NEW k \in LiveIn(slots)
        PROVE  /\ k \in 1..Len(slots) /\ k \in Nat \ {0} /\ slots[k] \in Entries
               /\ slots[k].name \in SensorNames /\ slots[k].sensor \in AllSensors
    <2>1. k \in 1..Len(slots) /\ slots[k] \in Entries
      BY <1>2, <1>3 DEF LiveIn
    <2> QED
      BY <1>2, <2>1 DEF Entries
  <1>4. ASSUME NEW n \in Names
        PROVE  SlotOf(n) \in LiveIn(slots) /\ slots[SlotOf(n)].name = n
    <2>1. \E k \in Live : slots[k].name = n
      BY <1>4 DEF Names
    <2> QED
      BY <1>1, <2>1 DEF SlotOf
  <1> QED
    BY <1>1, <1>2, <1>3, <1>4

LEMMA SensorMoved ==
  ASSUME call = [t \in Threads |-> call[t]], NEW t \in Threads, NEW c, call' = [call EXCEPT ![t] = c]
  PROVE  /\ call'[t] = c /\ call' = [u \in Threads |-> call'[u]]
         /\ \A u \in Threads : u # t => call'[u] = call[u]
  OBVIOUS

\* One thread moves, and the array stays.
LEMMA ArrayStays ==
  ASSUME ArrayInv, NEW t \in Threads, NEW c, call' = [call EXCEPT ![t] = c],
         UNCHANGED <<slots, sensorsMade>>,
         clock' \in Int, last_reading_time' \in [AllSensors -> Int], ReadRight(c)
  PROVE  ArrayInv'
  <1>1. /\ call'[t] = c /\ call' = [u \in Threads |-> call'[u]]
        /\ \A u \in Threads : u # t => call'[u] = call[u]
    BY SensorMoved DEF ArrayInv, SensorTypes
  <1>2. \A u \in Threads : ReadRight(call[u])'
    BY <1>1 DEF ArrayInv, ReadRight
  <1> QED
    BY <1>1, <1>2 DEF ArrayInv, SensorTypes

\* A read goes on with its time, or at another step.
Onward(c, s, x) == [c EXCEPT !.step = s, !.time = x]

LEMMA ReadGoesOn ==
  ASSUME NEW c, ReadOK(c), c.step \in Reading, NEW s \in Reading, NEW x \in Int,
         NEW b, b = Onward(c, s, x)
  PROVE  /\ b.step = s /\ b.time = x /\ b.all = c.all /\ b.sensor = c.sensor /\ DOMAIN b = DOMAIN c
         /\ c.all => b.at = c.at /\ b.got = c.got /\ b.stayed = c.stayed /\ b.present = c.present /\ b.name = c.name
         /\ ReadOK(b)
  <1>1. DOMAIN b = DOMAIN c
    BY DEF Onward
  <1>2. b.step = s /\ b.time = x /\ b.all = c.all /\ b.sensor = c.sensor
    BY DEF ReadOK, Onward
  <1>3. c.all => b.at = c.at /\ b.got = c.got /\ b.stayed = c.stayed /\ b.present = c.present /\ b.name = c.name
    BY DEF ReadOK, Onward
  <1>4. ReadOK(b)
    BY <1>1, <1>2, <1>3 DEF ReadOK, Reading
  <1> QED
    BY <1>1, <1>2, <1>3, <1>4

LEMMA WholeGoesOn ==
  ASSUME NEW c, NEW b, NEW S, WholeRight(c, S), c.step \in Reading, b.step \in Reading,
         b.at = c.at, b.got = c.got, b.stayed = c.stayed, b.present = c.present, b.name = c.name
  PROVE  WholeRight(b, S)
  BY DEF WholeRight, Reading

\* What a read of the whole array knows when an entry is made, changed or removed.
LEMMA WholeNoted ==
  ASSUME NEW c, NEW b, NEW S, NEW U, NEW n, ReadOK(c), WholeRight(c, S),
         b.step = c.step, b.at = c.at, b.got = c.got, c.step \in Reading => b.name = c.name,
         b.present = c.present \cup {n}, b.stayed \subseteq c.stayed, b.stayed \subseteq NamesIn(U),
         NamesIn(U) \subseteq NamesIn(S) \cup {n},
         \A k \in LiveIn(U) : U[k].name \in b.stayed => k \in LiveIn(S) /\ S[k].name = U[k].name
  PROVE  WholeRight(b, U)
  <1>1. b.got \subseteq b.present /\ NamesIn(U) \subseteq b.present
    BY DEF WholeRight
  <1>2. b.step \in Reading => b.name \in b.present
    BY DEF WholeRight
  <1>3. b.step = "readings" => b.stayed \subseteq b.got
    BY DEF WholeRight
  <1>4. ASSUME b.step # "readings", NEW k \in LiveIn(U), k < b.at, U[k].name \in b.stayed
        PROVE  U[k].name \in b.got \/ (b.step # "item" /\ U[k].name = b.name)
    <2>1. k \in LiveIn(S) /\ S[k].name = U[k].name /\ S[k].name \in c.stayed
      BY <1>4
    <2>2. S[k].name \in c.got \/ (c.step # "item" /\ S[k].name = c.name)
      BY <1>4, <2>1 DEF WholeRight
    <2> QED
      BY <1>4, <2>1, <2>2 DEF ReadOK, Reading
  <1> QED
    BY <1>1, <1>2, <1>3, <1>4 DEF WholeRight

LEMMA ArrayStepInv ==
  ASSUME ArrayInv, NEW t \in Threads, SensorStep(t)
  PROVE  ArrayInv'
  <1> DEFINE c == call[t]
  <1>0. SensorTypes /\ c # Idle /\ ReadOK(c) /\ (c.all => WholeRight(c, slots))
    BY DEF SensorStep, NextItem, DictChanged, AllRead, ReadAllReturns, ReadInactive, CheckInterval, Wake,
           StoreTime, At, ArrayInv, ReadRight
  <1>1. ASSUME NEW b, call' = [call EXCEPT ![t] = b], ReadRight(b), UNCHANGED <<slots, sensorsMade, clock>>,
               last_reading_time' \in [AllSensors -> Int]
        PROVE  ArrayInv'
    <2>1. clock' \in Int
      BY <1>0, <1>1 DEF SensorTypes
    <2> QED
      BY <1>1, <2>1, ArrayStays
  <1>2. last_reading_time \in [AllSensors -> Int] /\ clock \in Int /\ call = [u \in Threads |-> call[u]]
    BY <1>0 DEF SensorTypes
  <1>3. ReadRight(Idle)
    BY DEF ReadRight
  <1>a. CASE NextItem(t)
    <2> DEFINE k == CHOOSE j \in Ahead(c) : \A i \in Ahead(c) : j <= i
    <2>1. /\ c.step = "item" /\ Ahead(c) # {} /\ UNCHANGED <<slots, sensorsMade, clock, last_reading_time>>
          /\ call' = [call EXCEPT ![t] = [step |-> "active", all |-> TRUE, at |-> k + 1, size |-> c.size,
                  left |-> c.left - 1, got |-> c.got, stayed |-> c.stayed,
                  present |-> c.present, sensor |-> slots[k].sensor,
                  name |-> slots[k].name, time |-> 0]]
      BY <1>a DEF NextItem, At, Continue, arrayState, readState
    <2>2. c.all /\ c.at \in Nat \ {0} /\ WholeRight(c, slots)
      BY <1>0, <2>1 DEF ReadOK
    <2>3. Ahead(c) \in SUBSET Nat /\ \A j : j \in Ahead(c) <=> j \in LiveIn(slots) /\ j >= c.at
      BY <1>0, SlotTypes DEF Ahead
    <2>4. k \in Ahead(c) /\ \A i \in Ahead(c) : k <= i
      <3>1. \E j \in Ahead(c) : \A i \in Ahead(c) : j <= i
        BY <2>1, <2>3, LeastNatural
      <3> QED
        BY <3>1
    <2> HIDE DEF k
    <2>5. /\ k \in LiveIn(slots) /\ k \in Nat \ {0} /\ slots[k].sensor \in AllSensors
          /\ \A j \in LiveIn(slots) : j \in Nat
      BY <1>0, <2>3, <2>4, SlotTypes
    <2>6. PICK b : b = [step |-> "active", all |-> TRUE, at |-> k + 1, size |-> c.size,
                  left |-> c.left - 1, got |-> c.got, stayed |-> c.stayed,
                  present |-> c.present, sensor |-> slots[k].sensor,
                  name |-> slots[k].name, time |-> 0]
      OBVIOUS
    <2>7. /\ b.step = "active" /\ b.all = TRUE /\ b.at = k + 1 /\ b.got = c.got /\ b.stayed = c.stayed
          /\ b.present = c.present /\ b.sensor = slots[k].sensor /\ b.name = slots[k].name /\ b.time = 0
          /\ DOMAIN b = {"step", "all", "at", "size", "left", "got", "stayed", "present", "sensor", "name", "time"}
      BY <2>6
    <2>8. ReadOK(b)
      <3>1. k + 1 \in Nat \ {0} /\ 0 \in Int
        BY <2>5
      <3>2. /\ {"step", "all"} \subseteq DOMAIN b /\ {"sensor", "time"} \subseteq DOMAIN b /\ "name" \in DOMAIN b
            /\ {"at", "size", "left", "got", "stayed", "present"} \subseteq DOMAIN b
        BY <2>7
      <3>3. b.at \in Nat \ {0} /\ b.sensor \in AllSensors /\ b.time \in Int /\ b.all \in BOOLEAN
        BY <2>5, <2>7, <3>1
      <3>4. b.step \in Reading /\ b.step \notin {"item", "readings"}
        BY <2>7 DEF Reading
      <3> QED
        BY <3>2, <3>3, <3>4 DEF ReadOK
    <2>9. WholeRight(b, slots)
      <3>1. slots[k].name \in NamesIn(slots)
        BY <2>5 DEF NamesIn
      <3>2. \A j \in LiveIn(slots) : j < k + 1 => j < c.at \/ j = k
        BY <2>2, <2>3, <2>4, <2>5
      <3> QED
        BY <2>1, <2>2, <2>7, <3>1, <3>2 DEF WholeRight, Reading
    <2> QED
      BY <1>1, <1>2, <2>1, <2>6, <2>8, <2>9 DEF ReadRight
  <1>b. CASE DictChanged(t) \/ ReadAllReturns(t) \/ ReadInactive(t)
    BY <1>1, <1>2, <1>3, <1>b DEF DictChanged, ReadAllReturns, ReadInactive, Return, arrayState, readState
  <1>c. CASE AllRead(t)
    <2>1. /\ c.step = "item" /\ Ahead(c) = {} /\ UNCHANGED <<slots, sensorsMade, clock, last_reading_time>>
          /\ call' = [call EXCEPT ![t].step = "readings"]
      BY <1>c DEF AllRead, At, Goto, arrayState, readState
    <2>2. c.all /\ c.at \in Nat \ {0} /\ WholeRight(c, slots)
      BY <1>0, <2>1 DEF ReadOK
    <2>3. PICK b : b = [c EXCEPT !.step = "readings"]
      OBVIOUS
    <2>4. call' = [call EXCEPT ![t] = b]
      BY <1>2, <2>1, <2>3
    <2>5. /\ b.step = "readings" /\ b.all = c.all /\ b.at = c.at /\ b.got = c.got /\ b.stayed = c.stayed
          /\ b.present = c.present /\ DOMAIN b = DOMAIN c
      BY <1>0, <2>2, <2>3 DEF ReadOK
    <2>6. ReadOK(b)
      BY <1>0, <2>2, <2>5 DEF ReadOK, Reading
    <2>7. c.stayed \subseteq c.got
      <3>1. SUFFICES ASSUME NEW n \in c.stayed PROVE n \in c.got
        OBVIOUS
      <3>2. PICK k \in LiveIn(slots) : slots[k].name = n
        BY <2>2 DEF WholeRight, NamesIn
      <3>3. k < c.at
        BY <1>0, <2>1, <2>2, <3>2, SlotTypes DEF Ahead
      <3> QED
        BY <2>1, <2>2, <3>2, <3>3 DEF WholeRight
    <2>8. WholeRight(b, slots)
      BY <2>2, <2>5, <2>7 DEF WholeRight, Reading
    <2> QED
      BY <1>1, <1>2, <2>1, <2>4, <2>6, <2>8 DEF ReadRight
  <1>4. ASSUME NEW s \in Reading, NEW x \in Int, c.step \in Reading
        PROVE  ReadRight([c EXCEPT !.step = s, !.time = x])
    <2>1. PICK b : b = Onward(c, s, x)
      OBVIOUS
    <2>2. /\ b.step = s /\ b.all = c.all /\ ReadOK(b)
          /\ c.all => b.at = c.at /\ b.got = c.got /\ b.stayed = c.stayed /\ b.present = c.present /\ b.name = c.name
      <3> HIDE DEF c
      <3> QED
        BY <1>0, <1>4, <2>1, ReadGoesOn
    <2>3. b.all => WholeRight(b, slots)
      BY <1>0, <1>4, <2>2, WholeGoesOn
    <2> QED
      BY <2>1, <2>2, <2>3 DEF ReadRight, Onward
  <1>d. CASE CheckInterval(t)
    <2> DEFINE e == clock - last_reading_time[c.sensor]
               x == IF e < Interval(c.sensor) THEN clock + (Interval(c.sensor) - e) ELSE clock
               s == IF e < Interval(c.sensor) THEN "sleep" ELSE "store"
    <2>1. c.step = "active" /\ UNCHANGED <<slots, sensorsMade, clock, last_reading_time>>
      BY <1>d DEF CheckInterval, At, arrayState, readState
    <2>2. call' = [call EXCEPT ![t] = [c EXCEPT !.step = s, !.time = x]]
      BY <1>d DEF CheckInterval, Continue, Asleep, Stamped
    <2>3. x \in Int /\ s \in Reading /\ c.step \in Reading
      BY <1>0, <1>2, <2>1, SensorRanges DEF ReadOK, Reading
    <2> HIDE DEF x, s
    <2> QED
      BY <1>1, <1>2, <1>4, <2>1, <2>2, <2>3
  <1>e. CASE Wake(t)
    <2>1. c.step = "sleep" /\ UNCHANGED <<slots, sensorsMade, clock, last_reading_time>>
      BY <1>e DEF Wake, At, arrayState, readState
    <2>2. call' = [call EXCEPT ![t] = [c EXCEPT !.step = "store", !.time = clock]]
      BY <1>e DEF Wake, Continue, Stamped
    <2>3. "store" \in Reading /\ c.step \in Reading
      BY <2>1 DEF Reading
    <2> QED
      BY <1>1, <1>2, <1>4, <2>1, <2>2, <2>3
  <1>f. CASE StoreTime(t)
    <2>1. /\ c.step = "store" /\ UNCHANGED <<slots, sensorsMade, clock>>
          /\ last_reading_time' = [last_reading_time EXCEPT ![c.sensor] = c.time]
          /\ call' = [call EXCEPT ![t] = IF c.all THEN [c EXCEPT !.step = "item", !.got = @ \cup {c.name}] ELSE Idle]
      BY <1>f DEF StoreTime, At, Continue, Return, arrayState
    <2>2. last_reading_time' \in [AllSensors -> Int]
      BY <1>0, <1>2, <2>1 DEF ReadOK, Reading
    <2>3. CASE ~ c.all
      BY <1>1, <1>3, <2>1, <2>2, <2>3
    <2>4. CASE c.all
      <3>1. PICK b : b = [c EXCEPT !.step = "item", !.got = @ \cup {c.name}]
        OBVIOUS
      <3>2. WholeRight(c, slots) /\ c.at \in Nat \ {0}
        BY <1>0, <2>4 DEF ReadOK
      <3>3. /\ b.step = "item" /\ b.all = c.all /\ b.at = c.at /\ b.got = c.got \cup {c.name} /\ b.stayed = c.stayed
            /\ b.present = c.present /\ DOMAIN b = DOMAIN c
        BY <1>0, <2>4, <3>1 DEF ReadOK
      <3>4. ReadOK(b)
        BY <1>0, <2>4, <3>3 DEF ReadOK, Reading
      <3>5. WholeRight(b, slots)
        BY <2>1, <3>2, <3>3 DEF WholeRight, Reading
      <3> QED
        BY <1>1, <2>1, <2>2, <2>4, <3>1, <3>4, <3>5 DEF ReadRight
    <2> QED
      BY <2>3, <2>4
  <1> QED
    BY <1>a, <1>b, <1>c, <1>d, <1>e, <1>f DEF SensorStep

LEMMA ArrayCallInv ==
  ASSUME ArrayInv, NEW t \in Threads, SensorCall(t)
  PROVE  ArrayInv'
  <1>0. SensorTypes /\ last_reading_time \in [AllSensors -> Int] /\ clock \in Int
        /\ call = [u \in Threads |-> call[u]] /\ slots \in Seq(Entries \cup {Removed}) /\ sensorsMade \in Nat
    BY DEF ArrayInv, SensorTypes
  <1>1. ASSUME NEW s \in AllSensors, read(t, s)
        PROVE  ArrayInv'
    <2>1. PICK b : b = [step |-> "active", sensor |-> s, all |-> FALSE, time |-> 0]
      OBVIOUS
    <2>2. /\ call' = [call EXCEPT ![t] = b] /\ UNCHANGED <<slots, sensorsMade, clock, last_reading_time>>
      BY <1>1, <2>1 DEF read, Begin, arrayState, readState
    <2>3. ReadOK(b) /\ b.all = FALSE
      BY <2>1 DEF ReadOK, Reading
    <2> QED
      BY <1>0, <2>2, <2>3, ArrayStays DEF ReadRight
  <1>2. CASE read_all(t)
    <2>1. PICK b : b = [step |-> "item", all |-> TRUE, at |-> 1, size |-> Cardinality(Names),
               left |-> Cardinality(Names), got |-> {}, stayed |-> Names, present |-> Names]
      OBVIOUS
    <2>2. /\ call' = [call EXCEPT ![t] = b] /\ UNCHANGED <<slots, sensorsMade, clock, last_reading_time>>
      BY <1>2, <2>1 DEF read_all, Begin, arrayState, readState
    <2>3. /\ b.step = "item" /\ b.all = TRUE /\ b.at = 1 /\ b.got = {} /\ b.stayed = Names /\ b.present = Names
          /\ DOMAIN b = {"step", "all", "at", "size", "left", "got", "stayed", "present"}
      BY <2>1
    <2>4. ReadOK(b)
      <3>1. /\ {"step", "all"} \subseteq DOMAIN b /\ 1 \in Nat \ {0}
            /\ {"at", "size", "left", "got", "stayed", "present"} \subseteq DOMAIN b
        BY <2>3
      <3>2. b.step \notin Reading /\ b.all \in BOOLEAN
        BY <2>3 DEF Reading
      <3> QED
        BY <2>3, <3>1, <3>2 DEF ReadOK
    <2>5. WholeRight(b, slots)
      <3>1. Names = NamesIn(slots) /\ \A k \in LiveIn(slots) : ~ (k < 1)
        BY <1>0, SlotTypes
      <3> QED
        BY <2>3, <3>1 DEF WholeRight, Reading
    <2> QED
      BY <1>0, <2>2, <2>4, <2>5, ArrayStays DEF ReadRight
  <1>3. ASSUME Quick(t), UNCHANGED <<slots, sensorsMade, clock>>, last_reading_time' \in [AllSensors -> Int]
        PROVE  ArrayInv'
    <2>1. call' = call
      BY <1>3 DEF Quick
    <2> QED
      BY <1>3, <2>1 DEF ArrayInv, SensorTypes, ReadRight
  \* The dict is changed to U about the name n, and the reads of the array note it.
  <1>4. ASSUME NEW n, NEW stays \in BOOLEAN, NEW U \in Seq(Entries \cup {Removed}), slots' = U,
               call' = Noted(stays, n), UNCHANGED <<clock, last_reading_time>>, sensorsMade' \in Nat,
               \A j, k \in LiveIn(U) : U[j].name = U[k].name => j = k,
               NamesIn(U) \subseteq NamesIn(slots) \cup {n},
               \A m \in NamesIn(slots) : stays \/ m # n => m \in NamesIn(U),
               \A k \in LiveIn(U) : \/ k \in LiveIn(slots) /\ slots[k].name = U[k].name
                                    \/ U[k].name = n /\ n \notin NamesIn(slots)
        PROVE  ArrayInv'
    <2>1. ASSUME NEW u \in Threads PROVE ReadRight(call[u])'
      <3>1. PICK c : c = call[u]
        OBVIOUS
      <3>2. PICK b : b = [c EXCEPT !.stayed = IF stays THEN @ ELSE @ \ {n}, !.present = @ \cup {n}]
        OBVIOUS
      <3>3. c # Idle => ReadOK(c) /\ (c.all => WholeRight(c, slots))
        BY <3>1 DEF ArrayInv, ReadRight
      <3>4. call'[u] = IF c = Idle \/ ~ c.all THEN c ELSE b
        BY <1>4, <3>1, <3>2 DEF Noted
      <3>5. CASE c = Idle \/ ~ c.all
        BY <3>3, <3>4, <3>5 DEF ReadRight
      <3>6. CASE c # Idle /\ c.all
        <4>1. /\ DOMAIN b = DOMAIN c /\ b.step = c.step /\ b.all = c.all /\ b.at = c.at /\ b.got = c.got
              /\ c.step \in Reading => b.name = c.name /\ b.sensor = c.sensor /\ b.time = c.time
              /\ b.stayed = (IF stays THEN c.stayed ELSE c.stayed \ {n}) /\ b.present = c.present \cup {n}
          BY <3>2, <3>3, <3>6 DEF ReadOK
        <4>2. ReadOK(b)
          BY <3>3, <3>6, <4>1 DEF ReadOK
        <4>3. b.stayed \subseteq c.stayed /\ b.stayed \subseteq NamesIn(U)
          BY <1>4, <3>3, <3>6, <4>1 DEF WholeRight
        <4>4. \A k \in LiveIn(U) : U[k].name \in b.stayed => (k \in LiveIn(slots) /\ slots[k].name = U[k].name)
          BY <1>4, <3>3, <3>6, <4>3 DEF WholeRight
        <4>5. WholeRight(b, U)
          BY <1>4, <3>3, <3>6, <4>1, <4>3, <4>4, WholeNoted
        <4> QED
          BY <1>4, <3>4, <3>6, <4>2, <4>5 DEF ReadRight
      <3> QED
        BY <3>5, <3>6
    <2>2. call' = [u \in Threads |-> call'[u]]
      BY <1>4 DEF Noted
    <2> QED
      BY <1>0, <1>4, <2>1, <2>2 DEF ArrayInv, SensorTypes
  <1>5. ASSUME NEW n \in SensorNames, add_sensor(t, n)
        PROVE  ArrayInv'
    <2>1. PICK e : e = [name |-> n, sensor |-> sensorsMade + 1]
      OBVIOUS
    <2>2. sensorsMade < MaxSensors /\ sensorsMade + 1 \in Nat /\ sensorsMade + 1 \in AllSensors
      BY <1>0, <1>5, SensorRanges DEF add_sensor
    <2>3. e \in Entries /\ e.name = n /\ e # Removed
      BY <2>1, <2>2 DEF Entries, Removed
    <2>4. /\ call' = Noted(TRUE, n) /\ sensorsMade' = sensorsMade + 1 /\ UNCHANGED <<clock, last_reading_time>>
          /\ slots' = IF n \in Names THEN [slots EXCEPT ![SlotOf(n)] = e] ELSE Append(slots, e)
      BY <1>5, <2>1 DEF add_sensor, readState
    <2>5. CASE n \in Names
      <3>1. PICK k : k = SlotOf(n)
        OBVIOUS
      <3>2. PICK U : U = [slots EXCEPT ![k] = e]
        OBVIOUS
      <3>3. k \in LiveIn(slots) /\ k \in 1..Len(slots) /\ slots[k].name = n /\ DOMAIN slots = 1..Len(slots)
        BY <1>0, <2>5, <3>1, SlotTypes
      <3>4. /\ U \in Seq(Entries \cup {Removed}) /\ DOMAIN U = DOMAIN slots /\ U[k] = e
            /\ \A j \in DOMAIN slots : j # k => U[j] = slots[j]
        BY <1>0, <2>3, <3>2, <3>3, SeqUpdate
      <3>5. LiveIn(U) = LiveIn(slots) /\ \A j \in LiveIn(U) : U[j].name = slots[j].name
        BY <2>3, <3>3, <3>4 DEF LiveIn
      <3>6. NamesIn(U) = NamesIn(slots) /\ \A i, j \in LiveIn(U) : U[i].name = U[j].name => i = j
        BY <3>5 DEF NamesIn, ArrayInv
      <3>7. slots' = U
        BY <2>4, <2>5, <3>1, <3>2
      <3>8. \A j \in LiveIn(U) : \/ j \in LiveIn(slots) /\ slots[j].name = U[j].name
                                 \/ U[j].name = n /\ n \notin NamesIn(slots)
        BY <3>5
      <3>9. /\ NamesIn(U) \subseteq NamesIn(slots) \cup {n}
            /\ \A m \in NamesIn(slots) : TRUE \/ m # n => m \in NamesIn(U)
        BY <3>6
      <3>a. sensorsMade' \in Nat /\ TRUE \in BOOLEAN
        BY <2>2, <2>4
      <3> QED
        BY <1>4, <2>4, <3>4, <3>6, <3>7, <3>8, <3>9, <3>a
    <2>6. CASE n \notin Names
      <3>1. PICK U : U = Append(slots, e)
        OBVIOUS
      <3>2. PICK L : L = Len(slots)
        OBVIOUS
      <3>3. L \in Nat /\ DOMAIN slots = 1..L /\ n \notin NamesIn(slots)
        BY <1>0, <2>6, <3>2, SlotTypes
      <3>4. /\ U \in Seq(Entries \cup {Removed}) /\ DOMAIN U = 1..(L + 1) /\ U[L + 1] = e
            /\ \A j \in 1..L : U[j] = slots[j]
        BY <1>0, <2>3, <3>1, <3>2
      <3>5. \A j : j \in 1..(L + 1) <=> j \in 1..L \/ j = L + 1
        BY <3>3
      <3>6. LiveIn(U) = LiveIn(slots) \cup {L + 1} /\ \A j \in LiveIn(slots) : U[j].name = slots[j].name
        BY <2>3, <3>3, <3>4, <3>5 DEF LiveIn
      <3>7. NamesIn(U) = NamesIn(slots) \cup {n}
        BY <2>3, <3>4, <3>6 DEF NamesIn
      <3>8. \A j \in LiveIn(slots) : slots[j].name # n
        BY <3>3 DEF NamesIn
      <3>9. \A i, j \in LiveIn(U) : U[i].name = U[j].name => i = j
        BY <2>3, <3>4, <3>6, <3>8 DEF ArrayInv
      <3>a. slots' = U
        BY <2>4, <2>6, <3>1
      <3>b. \A k \in LiveIn(U) : \/ k \in LiveIn(slots) /\ slots[k].name = U[k].name
                                 \/ U[k].name = n /\ n \notin NamesIn(slots)
        BY <2>3, <3>3, <3>4, <3>6
      <3> QED
        BY <1>4, <2>2, <2>4, <3>4, <3>7, <3>9, <3>a, <3>b
    <2> QED
      BY <2>5, <2>6
  <1>6. ASSUME NEW n \in SensorNames, remove_sensor(t, n)
        PROVE  ArrayInv'
    <2>1. PICK k : k = SlotOf(n)
      OBVIOUS
    <2>2. PICK U : U = [slots EXCEPT ![k] = Removed]
      OBVIOUS
    <2>3. /\ n \in Names /\ slots' = U /\ call' = Noted(FALSE, n)
          /\ UNCHANGED <<clock, sensorsMade, last_reading_time>>
      BY <1>6, <2>1, <2>2 DEF remove_sensor, readState
    <2>4. k \in LiveIn(slots) /\ k \in 1..Len(slots) /\ slots[k].name = n /\ DOMAIN slots = 1..Len(slots)
      BY <1>0, <2>1, <2>3, SlotTypes
    <2>5. /\ U \in Seq(Entries \cup {Removed}) /\ DOMAIN U = DOMAIN slots /\ U[k] = Removed
          /\ \A j \in DOMAIN slots : j # k => U[j] = slots[j]
      BY <1>0, <2>2, <2>4, SeqUpdate
    <2>6. LiveIn(U) = LiveIn(slots) \ {k} /\ \A j \in LiveIn(U) : U[j] = slots[j]
      BY <2>4, <2>5 DEF LiveIn
    <2>7. NamesIn(U) \subseteq NamesIn(slots) /\ \A m \in NamesIn(slots) : m # n => m \in NamesIn(U)
      BY <2>4, <2>6 DEF NamesIn
    <2>8. \A i, j \in LiveIn(U) : U[i].name = U[j].name => i = j
      BY <2>6 DEF ArrayInv
    <2>9. \A j \in LiveIn(U) : \/ j \in LiveIn(slots) /\ slots[j].name = U[j].name
                               \/ U[j].name = n /\ n \notin NamesIn(slots)
      BY <2>6
    <2>a. /\ NamesIn(U) \subseteq NamesIn(slots) \cup {n}
          /\ \A m \in NamesIn(slots) : FALSE \/ m # n => m \in NamesIn(U)
      BY <2>7
    <2>b. sensorsMade' \in Nat /\ FALSE \in BOOLEAN
      BY <1>0, <2>3
    <2> QED
      BY <1>4, <2>3, <2>5, <2>8, <2>9, <2>a, <2>b
  <1>7. ASSUME NEW s, activate(t, s) \/ deactivate(t, s)
        PROVE  ArrayInv'
    BY <1>0, <1>3, <1>7 DEF activate, deactivate, arrayState, readState
  <1>8. CASE reset(t, Solo)
    <2>1. last_reading_time' \in [AllSensors -> Int]
      BY <1>0, <1>8, SensorRanges DEF reset
    <2> QED
      BY <1>3, <1>8, <2>1 DEF reset, arrayState
  <1>9. ASSUME NEW n \in SensorNames, read_sensor(t, n)
        PROVE  ArrayInv'
    <2>1. slots[SlotOf(n)].sensor \in AllSensors
      BY <1>0, <1>9, SlotTypes DEF read_sensor
    <2> QED
      BY <1>1, <1>9, <2>1 DEF read_sensor
  <1> QED
    BY <1>1, <1>2, <1>5, <1>6, <1>7, <1>8, <1>9, SensorRanges DEF SensorCall

LEMMA ArrayTickInv ==
  ASSUME ArrayInv, Tick \/ UNCHANGED sensorVars
  PROVE  ArrayInv'
  <1>1. UNCHANGED <<call, slots, sensorsMade, last_reading_time>> /\ clock' \in Int
    BY DEF Tick, sensorVars, callerVars, arrayState, readState, ArrayInv, SensorTypes
  <1> QED
    BY <1>1 DEF ArrayInv, SensorTypes, ReadRight

LEMMA ArrayInitInv == CallersInit /\ SensorInit => ArrayInv
  <1> SUFFICES ASSUME CallersInit, SensorInit PROVE ArrayInv
    OBVIOUS
  <1>1. clock \in Int /\ last_reading_time \in [AllSensors -> Int]
    BY SensorConstants DEF SensorInit
  <1>2. slots = << >> /\ LiveIn(slots) = {}
    BY DEF SensorInit, LiveIn
  <1> QED
    BY <1>1, <1>2 DEF CallersInit, SensorInit, ArrayInv, SensorTypes, ReadRight

\* ReadAllWhole holds: a sensor that stays in the array keeps its place in it, so
\* the iterator cannot pass it without reading it.
THEOREM ReadsSeeTheWholeArray == SensorSpec => []ReadAllWhole
  <1>1. ArrayInv /\ [Tick \/ \E t \in Threads : SensorCall(t) \/ SensorStep(t)]_sensorVars => ArrayInv'
    BY ArrayCallInv, ArrayStepInv, ArrayTickInv
  <1>2. ArrayInv => ReadAllWhole
    BY DEF ArrayInv, ReadRight, ReadOK, WholeRight, ReadAllWhole, At
  <1> QED
    BY <1>1, <1>2, ArrayInitInv, PTL DEF SensorSpec

---------------------------------------------------------------------------
(* SensorArray: how far the readings of a sensor are apart.                  *)

Reads(c, s) == c # Idle /\ "sensor" \in DOMAIN c /\ c.step \in Reading /\ c.sensor = s

\* A sensor that readers have not met at has one reader at a time, which goes on
\* from its sleep only when the interval since the last reading has passed.
PaceRight(s) ==
  /\ taken[s] \in Seq(Int)
  /\ last_reading_time[s] = IF taken[s] = << >> THEN 0 ELSE taken[s][Len(taken[s])]
  /\ s \notin shared =>
       /\ \A t, u \in Threads : Reads(call[t], s) /\ Reads(call[u], s) => t = u
       /\ \A t \in Threads : Reads(call[t], s) /\ call[t].step # "active" =>
            call[t].time >= last_reading_time[s] + Interval(s)
       /\ \A k \in 1..Len(taken[s]) : k > 1 => taken[s][k] >= taken[s][k - 1] + Interval(s)

PaceInv ==
  /\ taken = [s \in AllSensors |-> taken[s]]
  /\ \A s \in AllSensors : PaceRight(s)

\* A sensor gives no reading: its readers go on in time, or one has come to it.
LEMMA PaceStays ==
  ASSUME NEW s \in AllSensors, PaceRight(s),
         taken'[s] = taken[s], last_reading_time'[s] = last_reading_time[s],
         s \notin shared' => s \notin shared,
         s \notin shared' =>
           \A u \in Threads : Reads(call'[u], s) =>
             \/ /\ Reads(call[u], s)
                /\ call'[u].step # "active" =>
                     \/ call[u].step # "active" /\ call'[u].time = call[u].time
                     \/ call'[u].time >= last_reading_time[s] + Interval(s)
             \/ /\ call'[u].step = "active"
                /\ \A v \in Threads : v # u => call'[v] = call[v] /\ ~ Reads(call[v], s)
  PROVE  PaceRight(s)'
  <1>1. taken'[s] \in Seq(Int)
        /\ last_reading_time'[s] = IF taken'[s] = << >> THEN 0 ELSE taken'[s][Len(taken'[s])]
    BY DEF PaceRight
  <1>2. ASSUME s \notin shared'
        PROVE  /\ \A t, u \in Threads : Reads(call'[t], s) /\ Reads(call'[u], s) => t = u
               /\ \A t \in Threads : Reads(call'[t], s) /\ call'[t].step # "active" =>
                    call'[t].time >= last_reading_time[s] + Interval(s)
               /\ \A k \in 1..Len(taken[s]) : k > 1 => taken[s][k] >= taken[s][k - 1] + Interval(s)
    BY <1>2 DEF PaceRight
  <1> QED
    BY <1>1, <1>2 DEF PaceRight

LEMMA PaceStepInv ==
  ASSUME ArrayInv, PaceInv, NEW t \in Threads, SensorStep(t)
  PROVE  PaceInv'
  <1> DEFINE c == call[t]
  <1>0. /\ call = [u \in Threads |-> call[u]] /\ clock \in Int /\ last_reading_time \in [AllSensors -> Int]
        /\ SensorTypes
    BY DEF ArrayInv, SensorTypes
  <1>c. c # Idle /\ ReadOK(c)
    BY DEF SensorStep, NextItem, DictChanged, AllRead, ReadAllReturns, ReadInactive, CheckInterval, Wake,
           StoreTime, At, ArrayInv, ReadRight
  \* The thread moves to b, and no reading is taken.
  <1>1. ASSUME NEW b, call' = [call EXCEPT ![t] = b], UNCHANGED <<taken, last_reading_time>>,
               \A s \in AllSensors : s \notin shared' => s \notin shared,
               \A s \in AllSensors : s \notin shared' /\ Reads(b, s) =>
                 \/ /\ Reads(c, s)
                    /\ b.step # "active" => b.time >= last_reading_time[s] + Interval(s)
                 \/ /\ b.step = "active"
                    /\ \A v \in Threads : v # t => ~ Reads(call[v], s)
        PROVE  PaceInv'
    <2>1. call'[t] = b /\ \A u \in Threads : u # t => call'[u] = call[u]
      BY <1>0, <1>1, SensorMoved
    <2> HIDE DEF c
    <2>2. ASSUME NEW s \in AllSensors PROVE PaceRight(s)'
      <3>1. PaceRight(s)
        BY DEF PaceInv
      <3>2. ASSUME s \notin shared', NEW u \in Threads, Reads(call'[u], s)
            PROVE  \/ /\ Reads(call[u], s)
                      /\ call'[u].step # "active" =>
                           \/ call[u].step # "active" /\ call'[u].time = call[u].time
                           \/ call'[u].time >= last_reading_time[s] + Interval(s)
                   \/ /\ call'[u].step = "active"
                      /\ \A v \in Threads : v # u => call'[v] = call[v] /\ ~ Reads(call[v], s)
        <4>1. CASE u # t
          BY <2>1, <3>2, <4>1
        <4>2. CASE u = t
          BY <1>1, <2>1, <3>2, <4>2 DEF c
        <4> QED
          BY <4>1, <4>2
      <3>3. taken'[s] = taken[s] /\ last_reading_time'[s] = last_reading_time[s] /\ (s \notin shared' => s \notin shared)
        BY <1>1
      <3> QED
        BY <3>1, <3>2, <3>3, PaceStays
    <2> QED
      BY <1>1, <2>2 DEF PaceInv
  <1>2. ASSUME NEW s, UNCHANGED shared \/ MeetReaders(t, s)
        PROVE  /\ \A r \in AllSensors : r \notin shared' => r \notin shared
               /\ MeetReaders(t, s) /\ s \notin shared' => \A v \in Threads : v # t => ~ Reads(call[v], s)
    BY <1>2 DEF MeetReaders, ReadingOf, Has, Reads, Reading
  <1>a. CASE NextItem(t)
    <2> DEFINE k == CHOOSE j \in Ahead(c) : \A i \in Ahead(c) : j <= i
               r == slots[k].sensor
    <2>1. PICK b : b = [step |-> "active", all |-> TRUE, at |-> k + 1, size |-> c.size,
                  left |-> c.left - 1, got |-> c.got, stayed |-> c.stayed,
                  present |-> c.present, sensor |-> slots[k].sensor,
                  name |-> slots[k].name, time |-> 0]
      OBVIOUS
    <2>2. call' = [call EXCEPT ![t] = b] /\ MeetReaders(t, r) /\ UNCHANGED <<taken, last_reading_time>>
      BY <1>a, <2>1 DEF NextItem, Continue, readState
    <2>3. b.step = "active" /\ b.sensor = r
      BY <2>1
    <2> HIDE DEF r, k
    <2>4. \A s : Reads(b, s) => s = r
      BY <2>3 DEF Reads
    <2> QED
      BY <1>1, <1>2, <2>2, <2>3, <2>4
  <1>b. CASE DictChanged(t) \/ ReadAllReturns(t) \/ ReadInactive(t)
    <2>1. call' = [call EXCEPT ![t] = Idle] /\ UNCHANGED <<taken, last_reading_time, shared>>
      BY <1>b DEF DictChanged, ReadAllReturns, ReadInactive, Return, readState
    <2>2. \A s : ~ Reads(Idle, s)
      BY DEF Reads
    <2> QED
      BY <1>1, <2>1, <2>2
  <1>d. CASE AllRead(t)
    <2>1. PICK b : b = [c EXCEPT !.step = "readings"]
      OBVIOUS
    <2>2. call' = [call EXCEPT ![t] = b] /\ UNCHANGED <<taken, last_reading_time, shared>>
      BY <1>0, <1>d, <2>1 DEF AllRead, Goto, readState
    <2>3. \A s : ~ Reads(b, s)
      BY <1>c, <2>1 DEF Reads, Reading, ReadOK
    <2> QED
      BY <1>1, <2>2, <2>3
  <1>3. c.step \in Reading => Reads(c, c.sensor) /\ c.sensor \in AllSensors /\ c.time \in Int
    BY <1>c DEF Reads, ReadOK, Reading
  <1>4. ASSUME NEW s \in Reading, NEW x \in Int, c.step \in Reading,
               call' = [call EXCEPT ![t] = Onward(c, s, x)], UNCHANGED <<taken, last_reading_time, shared>>,
               c.sensor \notin shared => x >= last_reading_time[c.sensor] + Interval(c.sensor)
        PROVE  PaceInv'
    <2>1. PICK b : b = Onward(c, s, x)
      OBVIOUS
    <2>2. b.step = s /\ b.time = x /\ b.sensor = c.sensor
      <3> HIDE DEF c
      <3> QED
        BY <1>c, <1>4, <2>1, ReadGoesOn
    <2>3. \A r : Reads(b, r) => r = c.sensor
      BY <2>2 DEF Reads
    <2> QED
      BY <1>1, <1>3, <1>4, <2>1, <2>2, <2>3
  <1>e. CASE CheckInterval(t)
    <2> DEFINE l == last_reading_time[c.sensor]
               i == Interval(c.sensor)
               e == clock - l
               x == IF e < i THEN clock + (i - e) ELSE clock
               s == IF e < i THEN "sleep" ELSE "store"
    <2>1. c.step = "active" /\ UNCHANGED <<taken, last_reading_time, shared>>
      BY <1>e DEF CheckInterval, At, readState
    <2>2. call' = [call EXCEPT ![t] = Onward(c, s, x)]
      BY <1>e DEF CheckInterval, Continue, Asleep, Stamped, Onward
    <2>3. l \in Int /\ i \in Int /\ s \in Reading /\ c.step \in Reading
      BY <1>0, <1>3, <2>1, SensorRanges DEF Reading
    <2>4. x \in Int /\ x >= l + i
      BY <1>0, <2>3
    <2> HIDE DEF x, s
    <2> QED
      BY <1>4, <2>1, <2>2, <2>3, <2>4
  <1>f. CASE Wake(t)
    <2>1. c.step = "sleep" /\ clock >= c.time /\ UNCHANGED <<taken, last_reading_time, shared>>
          /\ call' = [call EXCEPT ![t] = Onward(c, "store", clock)]
      BY <1>f DEF Wake, At, readState, Continue, Stamped, Onward
    <2>2. c.step \in Reading /\ "store" \in Reading
      BY <2>1 DEF Reading
    <2>3. c.sensor \notin shared => c.time >= last_reading_time[c.sensor] + Interval(c.sensor)
      BY <1>3, <2>1, <2>2 DEF PaceInv, PaceRight
    <2>4. last_reading_time[c.sensor] + Interval(c.sensor) \in Int /\ c.time \in Int
      BY <1>0, <1>3, <2>2, SensorRanges
    <2>5. c.sensor \notin shared => clock >= last_reading_time[c.sensor] + Interval(c.sensor)
      BY <1>0, <2>1, <2>3, <2>4
    <2> QED
      BY <1>0, <1>4, <2>1, <2>2, <2>5
  <1>g. CASE StoreTime(t)
    <2>1. PICK r : r = c.sensor
      OBVIOUS
    <2>2. PICK x : x = c.time
      OBVIOUS
    <2>3. PICK b : b = IF c.all THEN [c EXCEPT !.step = "item", !.got = @ \cup {c.name}] ELSE Idle
      OBVIOUS
    <2>4. /\ c.step = "store" /\ UNCHANGED shared /\ r \in AllSensors /\ x \in Int /\ Reads(c, r)
          /\ last_reading_time' = [last_reading_time EXCEPT ![r] = x]
          /\ taken' = [taken EXCEPT ![r] = Append(taken[r], x)]
          /\ call' = [call EXCEPT ![t] = b]
      BY <1>3, <1>g, <2>1, <2>2, <2>3 DEF StoreTime, At, Continue, Return, Reading
    <2>5. \A s : ~ Reads(b, s)
      BY <1>c, <2>3 DEF Reads, Reading, ReadOK
    <2>6. call'[t] = b /\ \A u \in Threads : u # t => call'[u] = call[u]
      BY <1>0, <2>4, SensorMoved
    <2> HIDE DEF c
    <2>7. taken' = [s \in AllSensors |-> taken'[s]]
      BY <2>4 DEF PaceInv
    <2>8. \A s \in AllSensors : s # r => taken'[s] = taken[s] /\ last_reading_time'[s] = last_reading_time[s]
      BY <1>0, <2>4 DEF PaceInv
    <2>9. taken'[r] = Append(taken[r], x) /\ last_reading_time'[r] = x
      BY <1>0, <2>4 DEF PaceInv
    <2>a. \A s \in AllSensors : \A u \in Threads : Reads(call'[u], s) => u # t /\ Reads(call[u], s) /\ call'[u] = call[u]
      BY <2>5, <2>6
    <2>b. ASSUME NEW s \in AllSensors, s # r PROVE PaceRight(s)'
      <3>1. PaceRight(s)
        BY DEF PaceInv
      <3>2. taken'[s] = taken[s] /\ last_reading_time'[s] = last_reading_time[s] /\ (s \notin shared' => s \notin shared)
        BY <2>4, <2>8, <2>b
      <3>3. \A u \in Threads : Reads(call'[u], s) =>
             \/ /\ Reads(call[u], s)
                /\ call'[u].step # "active" =>
                     \/ call[u].step # "active" /\ call'[u].time = call[u].time
                     \/ call'[u].time >= last_reading_time[s] + Interval(s)
             \/ /\ call'[u].step = "active"
                /\ \A v \in Threads : v # u => call'[v] = call[v] /\ ~ Reads(call[v], s)
        BY <2>a
      <3> QED
        BY <3>1, <3>2, <3>3, PaceStays
    <2>c. PaceRight(r)'
      <3>1. PaceRight(r) /\ taken[r] \in Seq(Int)
        BY <2>4 DEF PaceInv, PaceRight
      <3>2. PICK L : L = Len(taken[r])
        OBVIOUS
      <3>3. PICK q : q = taken[r]
        OBVIOUS
      <3>4. PICK p : p = Append(q, x)
        OBVIOUS
      <3>5. /\ q \in Seq(Int) /\ L \in Nat /\ p \in Seq(Int) /\ Len(p) = L + 1 /\ p[L + 1] = x /\ p # << >>
            /\ \A k \in 1..L : p[k] = q[k]
            /\ q = << >> <=> L = 0
        BY <2>4, <3>1, <3>2, <3>3, <3>4, SeqPush
      <3>6. ASSUME r \notin shared, NEW k \in 1..(L + 1), k > 1
            PROVE  p[k] >= p[k - 1] + Interval(r)
        <4>1. CASE k \in 1..L
          <5>1. k - 1 \in 1..L
            BY <3>5, <3>6, <4>1
          <5> QED
            BY <3>1, <3>2, <3>3, <3>5, <3>6, <4>1, <5>1 DEF PaceRight
        <4>2. CASE k = L + 1
          <5>1. L \in 1..L /\ k - 1 = L /\ L # 0
            BY <3>5, <3>6, <4>2
          <5>2. x >= last_reading_time[r] + Interval(r)
            BY <2>2, <2>4, <3>1, <3>6 DEF PaceRight, c
          <5>3. last_reading_time[r] = q[L]
            BY <3>1, <3>2, <3>3, <3>5, <5>1 DEF PaceRight
          <5> QED
            BY <3>5, <4>2, <5>1, <5>2, <5>3
        <4> QED
          BY <3>5, <4>1, <4>2
      <3>7. r \notin shared => \A u \in Threads : ~ Reads(call'[u], r)
        BY <2>4, <2>a, <3>1 DEF PaceRight, c
      <3>8. taken'[r] = p
        BY <2>9, <3>3, <3>4
      <3> QED
        BY <2>4, <2>9, <3>5, <3>6, <3>7, <3>8 DEF PaceRight
    <2> QED
      BY <2>7, <2>b, <2>c DEF PaceInv
  <1> QED
    BY <1>a, <1>b, <1>d, <1>e, <1>f, <1>g DEF SensorStep

LEMMA PaceCallInv ==
  ASSUME ArrayInv, PaceInv, NEW t \in Threads, SensorCall(t)
  PROVE  PaceInv'
  <1>0. call = [u \in Threads |-> call[u]] /\ SensorTypes /\ last_reading_time \in [AllSensors -> Int]
    BY DEF ArrayInv, SensorTypes
  \* The reads of every thread go on as they were.
  <1>1. ASSUME \A u \in Threads, s \in AllSensors : Reads(call'[u], s) =>
                 Reads(call[u], s) /\ call'[u].step = call[u].step /\ call'[u].time = call[u].time,
               UNCHANGED <<taken, last_reading_time, shared>>
        PROVE  PaceInv'
    <2>1. ASSUME NEW s \in AllSensors PROVE PaceRight(s)'
      <3>1. PaceRight(s)
        BY DEF PaceInv
      <3>2. taken'[s] = taken[s] /\ last_reading_time'[s] = last_reading_time[s] /\ (s \notin shared' => s \notin shared)
        BY <1>1
      <3>3. \A u \in Threads : Reads(call'[u], s) =>
             \/ /\ Reads(call[u], s)
                /\ call'[u].step # "active" =>
                     \/ call[u].step # "active" /\ call'[u].time = call[u].time
                     \/ call'[u].time >= last_reading_time[s] + Interval(s)
             \/ /\ call'[u].step = "active"
                /\ \A v \in Threads : v # u => call'[v] = call[v] /\ ~ Reads(call[v], s)
        BY <1>1
      <3> QED
        BY <3>1, <3>2, <3>3, PaceStays
    <2> QED
      BY <1>1, <2>1 DEF PaceInv
  <1>2. ASSUME NEW r \in AllSensors, read(t, r)
        PROVE  PaceInv'
    <2>1. PICK b : b = [step |-> "active", sensor |-> r, all |-> FALSE, time |-> 0]
      OBVIOUS
    <2>2. /\ call' = [call EXCEPT ![t] = b] /\ UNCHANGED <<taken, last_reading_time>> /\ call[t] = Idle
          /\ MeetReaders(t, r)
      BY <1>2, <2>1 DEF read, Begin, readState
    <2>3. b.step = "active" /\ \A s : Reads(b, s) => s = r
      BY <2>1 DEF Reads
    <2>4. call'[t] = b /\ \A u \in Threads : u # t => call'[u] = call[u]
      BY <1>0, <2>2, SensorMoved
    <2>5. /\ \A s \in AllSensors : s \notin shared' => s \notin shared
          /\ r \notin shared' => \A v \in Threads : v # t => ~ Reads(call[v], r)
      BY <2>2 DEF MeetReaders, ReadingOf, Has, Reads, Reading
    <2>6. ASSUME NEW s \in AllSensors PROVE PaceRight(s)'
      <3>1. PaceRight(s)
        BY DEF PaceInv
      <3>2. taken'[s] = taken[s] /\ last_reading_time'[s] = last_reading_time[s] /\ (s \notin shared' => s \notin shared)
        BY <2>2, <2>5
      <3>3. s \notin shared' => \A u \in Threads : Reads(call'[u], s) =>
             \/ /\ Reads(call[u], s)
                /\ call'[u].step # "active" =>
                     \/ call[u].step # "active" /\ call'[u].time = call[u].time
                     \/ call'[u].time >= last_reading_time[s] + Interval(s)
             \/ /\ call'[u].step = "active"
                /\ \A v \in Threads : v # u => call'[v] = call[v] /\ ~ Reads(call[v], s)
        BY <2>3, <2>4, <2>5
      <3> QED
        BY <3>1, <3>2, <3>3, PaceStays
    <2> QED
      BY <2>2, <2>6 DEF PaceInv
  <1>3. CASE read_all(t)
    <2>1. PICK b : b = [step |-> "item", all |-> TRUE, at |-> 1, size |-> Cardinality(Names),
               left |-> Cardinality(Names), got |-> {}, stayed |-> Names, present |-> Names]
      OBVIOUS
    <2>2. call' = [call EXCEPT ![t] = b] /\ UNCHANGED <<taken, last_reading_time, shared>>
      BY <1>3, <2>1 DEF read_all, Begin, readState
    <2>3. b.step = "item" /\ \A s : ~ Reads(b, s)
      BY <2>1 DEF Reads, Reading
    <2>4. call'[t] = b /\ \A u \in Threads : u # t => call'[u] = call[u]
      BY <1>0, <2>2, SensorMoved
    <2> QED
      BY <1>1, <2>2, <2>3, <2>4
  <1>4. ASSUME NEW s, activate(t, s) \/ deactivate(t, s)
        PROVE  PaceInv'
    <2>1. UNCHANGED <<call, taken, last_reading_time, shared>>
      BY <1>4 DEF activate, deactivate, Quick, readState
    <2> QED
      BY <1>1, <2>1
  <1>5. ASSUME NEW n, NEW stays, call' = Noted(stays, n), UNCHANGED <<taken, last_reading_time, shared>>
        PROVE  PaceInv'
    <2>1. ASSUME NEW u \in Threads, NEW s \in AllSensors, Reads(call'[u], s)
          PROVE  Reads(call[u], s) /\ call'[u].step = call[u].step /\ call'[u].time = call[u].time
      <3>1. PICK c : c = call[u]
        OBVIOUS
      <3>2. PICK b : b = [c EXCEPT !.stayed = IF stays THEN @ ELSE @ \ {n}, !.present = @ \cup {n}]
        OBVIOUS
      <3>3. call'[u] = IF c = Idle \/ ~ c.all THEN c ELSE b
        BY <1>5, <3>1, <3>2 DEF Noted
      <3>4. CASE c = Idle \/ ~ c.all
        BY <2>1, <3>1, <3>3, <3>4
      <3>5. CASE c # Idle /\ c.all
        <4>1. ReadOK(c)
          BY <3>1, <3>5 DEF ArrayInv, ReadRight
        <4>2. DOMAIN b = DOMAIN c /\ b.step = c.step
          BY <3>2, <4>1 DEF ReadOK
        <4>3. c.step \in Reading => b.sensor = c.sensor /\ b.time = c.time
          BY <3>2, <4>1 DEF ReadOK
        <4> QED
          BY <2>1, <3>1, <3>3, <3>5, <4>2, <4>3 DEF Reads
      <3> QED
        BY <3>4, <3>5
    <2> QED
      BY <1>1, <1>5, <2>1
  <1>6. ASSUME NEW n, add_sensor(t, n) \/ remove_sensor(t, n)
        PROVE  PaceInv'
    BY <1>5, <1>6 DEF add_sensor, remove_sensor, readState
  <1>7. CASE reset(t, Solo)
    <2>1. /\ UNCHANGED call /\ call[t] = Idle /\ MeetReaders(t, Solo)
          /\ last_reading_time' = [last_reading_time EXCEPT ![Solo] = 0]
          /\ taken' = [taken EXCEPT ![Solo] = << >>]
      BY <1>7 DEF reset, Quick
    <2>2. Solo \in AllSensors
      BY SensorRanges
    <2>3. /\ taken' = [s \in AllSensors |-> taken'[s]] /\ taken'[Solo] = << >> /\ last_reading_time'[Solo] = 0
          /\ \A s \in AllSensors : s # Solo => taken'[s] = taken[s] /\ last_reading_time'[s] = last_reading_time[s]
      BY <1>0, <2>1, <2>2 DEF PaceInv
    <2>4. /\ \A s \in AllSensors : s # Solo => (s \notin shared' <=> s \notin shared)
          /\ Solo \notin shared' => \A v \in Threads : ~ Reads(call[v], Solo)
      BY <2>1 DEF MeetReaders, ReadingOf, Has, Reads, Reading
    <2>5. ASSUME NEW s \in AllSensors, s # Solo PROVE PaceRight(s)'
      <3>1. PaceRight(s)
        BY DEF PaceInv
      <3> QED
        BY <2>1, <2>3, <2>4, <2>5, <3>1 DEF PaceRight
    <2>6. PaceRight(Solo)'
      <3>1. taken'[Solo] \in Seq(Int) /\ \A k : k \notin 1..Len(taken'[Solo])
        BY <2>3
      <3> QED
        BY <2>1, <2>3, <2>4, <3>1 DEF PaceRight
    <2> QED
      BY <2>3, <2>5, <2>6 DEF PaceInv
  <1>8. ASSUME NEW n \in SensorNames, read_sensor(t, n)
        PROVE  PaceInv'
    <2>1. slots[SlotOf(n)].sensor \in AllSensors
      BY <1>0, <1>8, SlotTypes DEF read_sensor
    <2> QED
      BY <1>2, <1>8, <2>1 DEF read_sensor
  <1> QED
    BY <1>2, <1>3, <1>4, <1>6, <1>7, <1>8, SensorRanges DEF SensorCall

\* Paced holds: a reader that is alone at its sensor goes on from its sleep when the
\* interval since the last reading has passed, and nobody has read it meanwhile.
THEOREM ReadingsArePaced == SensorSpec => []Paced
  <1>1. ArrayInv /\ PaceInv /\ [Tick \/ \E t \in Threads : SensorCall(t) \/ SensorStep(t)]_sensorVars
          => ArrayInv' /\ PaceInv'
    <2>1. ASSUME ArrayInv, PaceInv, Tick \/ UNCHANGED sensorVars
          PROVE  PaceInv'
      <3>1. UNCHANGED <<call, taken, last_reading_time, shared>>
        BY <2>1 DEF Tick, sensorVars, callerVars, readState
      <3> QED
        BY <2>1, <3>1 DEF PaceInv, PaceRight
    <2> QED
      BY <2>1, ArrayCallInv, ArrayStepInv, ArrayTickInv, PaceCallInv, PaceStepInv
  <1>2. CallersInit /\ SensorInit => PaceInv
    <2>1. SUFFICES ASSUME CallersInit, SensorInit, NEW s \in AllSensors PROVE PaceRight(s)
      BY DEF PaceInv, SensorInit
    <2>2. /\ taken[s] = << >> /\ last_reading_time[s] = 0 /\ taken[s] \in Seq(Int)
          /\ \A t \in Threads : ~ Reads(call[t], s)
      BY <2>1 DEF CallersInit, SensorInit, Reads
    <2>3. \A k : k \notin 1..Len(taken[s])
      BY <2>2
    <2> QED
      BY <2>2, <2>3 DEF PaceRight
  <1>3. PaceInv => Paced
    <2>1. SUFFICES ASSUME PaceInv, NEW s \in AllSensors \ shared, NEW k \in DOMAIN taken[s], k > 1
                   PROVE  taken[s][k] >= taken[s][k - 1] + Interval(s)
      BY DEF Paced
    <2>2. PaceRight(s)
      BY <2>1 DEF PaceInv
    <2>3. k \in 1..Len(taken[s])
      BY <2>1, <2>2 DEF PaceRight
    <2> QED
      BY <2>1, <2>2, <2>3 DEF PaceRight
  <1> QED
    BY <1>1, <1>2, <1>3, ArrayInitInv, PTL DEF SensorSpec
=============================================================================
