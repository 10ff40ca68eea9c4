----------------------------- MODULE DAP2Proofs -----------------------------
(***************************************************************************)
(* Proofs about DAP2Session for any number of connections, ping tasks,        *)
(* queries and pings and for answers of any length: its types, that a        *)
(* query's complete answer is its own, and that pongs match pings.           *)
(***************************************************************************)
EXTENDS DAP2Session, BasicLemmas

---------------------------------------------------------------------------
(* The types, with what the numbers in the messages can be.                  *)

\* A task that sends or receives has a connection it sent on or receives from.
PingRecords(c) ==
  {p \in [state : {"sleeps", "sends", "receives", "failed", "cancelled"}, on : 0..c] :
     p.state \in {"sends", "receives"} => p.on # 0}

\* Messages about the n queries there have been.
UpMessages(n) == {m \in [type : Requests, query : 0..n] : m.type = "query" => m.query # 0}
DownMessages(n) ==
  {m \in [type : Replies, query : 0..n] : m.type = "stream_delta" => m.query # 0}

ConnRecords(n) ==
  [open : BOOLEAN, served : BOOLEAN, known : BOOLEAN, up : Seq(UpMessages(n)),
   todo : Seq(DownMessages(n)), down : Seq(DownMessages(n))]

AskedRecords(c, n) == [on : 1..c, parts : Seq(1..n), complete : BOOLEAN]

\* A socket that the satellite knows to be closed is not served any more, and
\* disconnect has forgotten its ping task before it closes.
SessTypes ==
  /\ app \in {"idle", "ack", "answer", "closes"}
  /\ ws \in 0..Len(conns) /\ registered \in BOOLEAN /\ ping_task \in 0..Len(pings)
  /\ pings \in Seq(PingRecords(Len(conns)))
  /\ sent \in 0..MaxPings
  /\ asked \in Seq(AskedRecords(Len(conns), Len(asked))) /\ Len(asked) <= MaxQueries
  /\ conns \in Seq(ConnRecords(Len(asked))) /\ Len(conns) <= MaxConnects
  /\ daemon \in {"up", "stopping", "down"} /\ mixed \subseteq Conns
  /\ ping_task # 0 => registered /\ ws # 0
  /\ app # "idle" => ws # 0
  /\ app = "closes" => ping_task = 0
  /\ app = "answer" => asked # << >>
  /\ \A c \in Conns : conns[c].served => conns[c].open

LEMMA BoundsAreNat == {MaxConnects, MaxQueries, MaxPings, Sentences} \subseteq Nat /\ Sentences # 0
  BY SessionConstants

\* Records and lists of fewer queries and connections are records and lists of more.
LEMMA TypesGrow ==
  ASSUME NEW n \in Nat, NEW m \in Nat, n <= m
  PROVE  /\ 0..n \subseteq 0..m /\ 1..n \subseteq 1..m
         /\ PingRecords(n) \subseteq PingRecords(m)
         /\ UpMessages(n) \subseteq UpMessages(m) /\ DownMessages(n) \subseteq DownMessages(m)
         /\ ConnRecords(n) \subseteq ConnRecords(m)
         /\ \A k \in Nat : AskedRecords(n, k) \subseteq AskedRecords(m, k)
         /\ \A c \in Nat : AskedRecords(c, n) \subseteq AskedRecords(c, m)
  <1>1. 0..n \subseteq 0..m /\ 1..n \subseteq 1..m
    OBVIOUS
  <1>2. PingRecords(n) \subseteq PingRecords(m)
    BY <1>1 DEF PingRecords
  <1>3. UpMessages(n) \subseteq UpMessages(m) /\ DownMessages(n) \subseteq DownMessages(m)
    BY <1>1 DEF UpMessages, DownMessages
  <1>4. /\ Seq(UpMessages(n)) \subseteq Seq(UpMessages(m))
        /\ Seq(DownMessages(n)) \subseteq Seq(DownMessages(m))
        /\ Seq(1..n) \subseteq Seq(1..m)
    BY <1>1, <1>3
  <1>5. ConnRecords(n) \subseteq ConnRecords(m)
    BY <1>4 DEF ConnRecords
  <1>6. /\ \A k \in Nat : AskedRecords(n, k) \subseteq AskedRecords(m, k)
        /\ \A c \in Nat : AskedRecords(c, n) \subseteq AskedRecords(c, m)
    BY <1>1, <1>4 DEF AskedRecords
  <1> QED
    BY <1>1, <1>2, <1>3, <1>5, <1>6

LEMMA SeqGrows ==
  ASSUME NEW S, NEW T, S \subseteq T, NEW s \in Seq(S)
  PROVE  s \in Seq(T)
  OBVIOUS

LEMMA SeqSet ==
  ASSUME NEW S, NEW s \in Seq(S), NEW k \in 1..Len(s), NEW x \in S, NEW v,
         v = [s EXCEPT ![k] = x]
  PROVE  /\ v \in Seq(S) /\ Len(v) = Len(s) /\ v[k] = x
         /\ \A j \in 1..Len(s) : j # k => v[j] = s[j]
  BY SeqUpdate

---------------------------------------------------------------------------
(* The answer of a query.                                                    *)

AnswerLen == Sentences + 3

LEMMA AnswerParts ==
  ASSUME NEW q
  PROVE  /\ DOMAIN Answer(q) = 1..AnswerLen /\ Len(Answer(q)) = AnswerLen
         /\ AnswerLen \in Nat /\ AnswerLen > 3
         /\ Answer(q)[1] = Message("state", q) /\ Answer(q)[2] = Message("stream_start", q)
         /\ \A k \in 3..(AnswerLen - 1) : Answer(q)[k] = Message("stream_delta", q)
         /\ Answer(q)[AnswerLen] = Message("stream_end", q)
  <1> DEFINE Kinds == {"state", "stream_start", "stream_delta", "stream_end"}
             first == <<"state", "stream_start">>
             middle == first \o Deltas
             last == <<"stream_end">>
             types == middle \o last
  <1>1. Deltas \in Seq(Kinds) /\ Len(Deltas) = Sentences
        /\ \A k \in 1..Sentences : Deltas[k] = "stream_delta"
    <2>1. Sentences \in Nat /\ Deltas \in [1..Sentences -> Kinds]
      BY BoundsAreNat DEF Deltas
    <2>2. Deltas \in Seq(Kinds) /\ Len(Deltas) = Sentences
      BY <2>1, SeqFromFunction
    <2> QED
      BY <2>2 DEF Deltas
  <1>2. Sentences \in Nat /\ Sentences > 0 /\ AnswerLen \in Nat /\ AnswerLen > 3
        /\ AnswerLen = Sentences + 3
    BY BoundsAreNat DEF AnswerLen
  <1>f. /\ first \in Seq(Kinds) /\ Len(first) = 2 /\ first[1] = "state" /\ first[2] = "stream_start"
        /\ last \in Seq(Kinds) /\ Len(last) = 1 /\ last[1] = "stream_end"
    OBVIOUS
  <1> HIDE DEF Kinds, first, last
  <1>m. /\ middle \in Seq(Kinds) /\ Len(middle) = 2 + Sentences
        /\ \A k \in 1..(2 + Sentences) : middle[k] = IF k <= 2 THEN first[k] ELSE Deltas[k - 2]
    <2>1. /\ first \o Deltas \in Seq(Kinds) /\ Len(first \o Deltas) = Len(first) + Len(Deltas)
          /\ \A i \in 1..(Len(first) + Len(Deltas)) :
               (first \o Deltas)[i] = IF i <= Len(first) THEN first[i] ELSE Deltas[i - Len(first)]
      BY <1>1, <1>f, ConcatProperties, Zenon
    <2> QED
      BY <1>1, <1>f, <2>1
  <1> HIDE DEF middle
  <1>t. /\ types \in Seq(Kinds) /\ Len(types) = 2 + Sentences + 1
        /\ \A k \in 1..(2 + Sentences + 1) :
             types[k] = IF k <= 2 + Sentences THEN middle[k] ELSE last[k - (2 + Sentences)]
    <2>1. /\ middle \o last \in Seq(Kinds) /\ Len(middle \o last) = Len(middle) + Len(last)
          /\ \A i \in 1..(Len(middle) + Len(last)) :
               (middle \o last)[i] = IF i <= Len(middle) THEN middle[i] ELSE last[i - Len(middle)]
      BY <1>f, <1>m, ConcatProperties, Zenon
    <2> QED
      BY <1>f, <1>m, <2>1
  <1> HIDE DEF types
  <1>3. /\ types \in Seq(Kinds) /\ Len(types) = AnswerLen
        /\ types[1] = "state" /\ types[2] = "stream_start"
        /\ \A k \in 3..(AnswerLen - 1) : types[k] = "stream_delta"
        /\ types[AnswerLen] = "stream_end"
    <2>1. types[1] = "state" /\ types[2] = "stream_start"
      BY <1>2, <1>f, <1>m, <1>t
    <2>2. types[AnswerLen] = "stream_end"
      BY <1>2, <1>f, <1>t
    <2>3. ASSUME NEW k \in 3..(AnswerLen - 1)
          PROVE  types[k] = "stream_delta"
      <3>1. k \in 1..(2 + Sentences) /\ ~ (k <= 2) /\ k - 2 \in 1..Sentences
        BY <1>2
      <3>2. types[k] = middle[k]
        BY <1>2, <1>t, <3>1
      <3> QED
        BY <1>1, <1>m, <3>1, <3>2
    <2> QED
      BY <1>2, <1>t, <2>1, <2>2, <2>3
  <1>4. DOMAIN types = 1..AnswerLen
    BY <1>2, <1>3
  <1>5. Answer(q) = [k \in 1..AnswerLen |-> Message(types[k], q)]
    BY <1>4 DEF Answer, Stream, types, middle, first, last
  <1>6. Len(Answer(q)) = AnswerLen /\ DOMAIN Answer(q) = 1..AnswerLen
    BY <1>2, <1>5
  <1> QED
    BY <1>2, <1>3, <1>5, <1>6

LEMMA AnswerTypes ==
  ASSUME NEW n \in Nat, NEW q \in 1..n
  PROVE  /\ Answer(q) \in Seq(DownMessages(n))
         /\ \A k \in 1..AnswerLen : Answer(q)[k].query = q
                                    /\ Answer(q)[k].type \in Exchange \ {"error"}
  <1>1. \A k \in 1..AnswerLen :
          \E type \in {"state", "stream_start", "stream_delta", "stream_end"} :
            Answer(q)[k] = Message(type, q)
    <2> TAKE k \in 1..AnswerLen
    <2>1. k = 1 \/ k = 2 \/ k \in 3..(AnswerLen - 1) \/ k = AnswerLen
      BY AnswerParts
    <2> QED
      BY <2>1, AnswerParts
  <1>2. \A k \in 1..AnswerLen : Answer(q)[k] \in DownMessages(n)
    BY <1>1 DEF DownMessages, Replies, Message
  <1>3. Answer(q) = [k \in 1..AnswerLen |-> Answer(q)[k]]
    BY AnswerParts DEF Answer, Stream
  <1>4. Answer(q) \in Seq(DownMessages(n))
    BY <1>2, <1>3, AnswerParts, SeqFromFunction
  <1> QED
    BY <1>1, <1>4 DEF Exchange, Replies, Message

---------------------------------------------------------------------------
(* What the actions do to a connection.                                      *)

ConnPop(x) == [x EXCEPT !.down = Tail(@)]
ConnSend(x, m) == IF x.served THEN [x EXCEPT !.up = Append(@, m)] ELSE x
ConnTake(x, r) ==
  [x EXCEPT !.up = Tail(@), !.todo = Tail(r), !.down = Append(@, Head(r)),
            !.known = @ \/ Head(x.up).type = "register"]
ConnReply(x) == [x EXCEPT !.todo = Tail(@), !.down = Append(@, Head(x.todo))]
ConnEnd(x) == [x EXCEPT !.served = FALSE, !.up = << >>, !.todo = << >>]
ConnNotice(x) == [x EXCEPT !.open = FALSE]
ConnClose(x) == [x EXCEPT !.open = FALSE, !.served = FALSE]

LEMMA ConnFields ==
  ASSUME NEW n \in Nat, NEW x \in ConnRecords(n)
  PROVE  /\ x.open \in BOOLEAN /\ x.served \in BOOLEAN /\ x.known \in BOOLEAN
         /\ x.up \in Seq(UpMessages(n)) /\ x.todo \in Seq(DownMessages(n))
         /\ x.down \in Seq(DownMessages(n))
         /\ DOMAIN x = {"open", "served", "known", "up", "todo", "down"}
  BY DEF ConnRecords

LEMMA TailTypes ==
  ASSUME NEW S, NEW s \in Seq(S), s # << >>
  PROVE  Tail(s) \in Seq(S) /\ Head(s) \in S /\ Len(Tail(s)) = Len(s) - 1 /\ Len(s) \in Nat \ {0}
         /\ Head(s) = s[1] /\ \A k \in 1..(Len(s) - 1) : Tail(s)[k] = s[k + 1]
  OBVIOUS

LEMMA PopFields ==
  ASSUME NEW n \in Nat, NEW x \in ConnRecords(n), x.down # << >>
  PROVE  /\ ConnPop(x) \in ConnRecords(n) /\ ConnPop(x).down = Tail(x.down)
         /\ ConnPop(x).up = x.up /\ ConnPop(x).todo = x.todo /\ ConnPop(x).served = x.served
         /\ ConnPop(x).open = x.open /\ ConnPop(x).known = x.known
  <1>1. Tail(x.down) \in Seq(DownMessages(n))
    BY ConnFields, TailTypes
  <1> QED
    BY <1>1, ConnFields DEF ConnPop, ConnRecords

LEMMA SendFields ==
  ASSUME NEW n \in Nat, NEW x \in ConnRecords(n), NEW m \in UpMessages(n)
  PROVE  /\ ConnSend(x, m) \in ConnRecords(n)
         /\ ConnSend(x, m).up = IF x.served THEN Append(x.up, m) ELSE x.up
         /\ ConnSend(x, m).down = x.down /\ ConnSend(x, m).todo = x.todo
         /\ ConnSend(x, m).served = x.served
         /\ ConnSend(x, m).open = x.open /\ ConnSend(x, m).known = x.known
  <1>1. Append(x.up, m) \in Seq(UpMessages(n))
    BY ConnFields
  <1> QED
    BY <1>1, ConnFields DEF ConnSend, ConnRecords

LEMMA TakeFields ==
  ASSUME NEW n \in Nat, NEW x \in ConnRecords(n), x.up # << >>,
         NEW r \in Seq(DownMessages(n)), r # << >>
  PROVE  /\ ConnTake(x, r) \in ConnRecords(n)
         /\ ConnTake(x, r).up = Tail(x.up) /\ ConnTake(x, r).todo = Tail(r)
         /\ ConnTake(x, r).down = Append(x.down, Head(r))
         /\ ConnTake(x, r).served = x.served /\ ConnTake(x, r).open = x.open
  <1>1. /\ Tail(x.up) \in Seq(UpMessages(n)) /\ Tail(r) \in Seq(DownMessages(n))
        /\ Head(r) \in DownMessages(n)
    BY ConnFields, TailTypes
  <1>2. Append(x.down, Head(r)) \in Seq(DownMessages(n))
    BY <1>1, ConnFields
  <1>3. (x.known \/ Head(x.up).type = "register") \in BOOLEAN
    OBVIOUS
  <1> QED
    BY <1>1, <1>2, <1>3, ConnFields DEF ConnTake, ConnRecords

LEMMA ReplyFields ==
  ASSUME NEW n \in Nat, NEW x \in ConnRecords(n), x.todo # << >>
  PROVE  /\ ConnReply(x) \in ConnRecords(n) /\ ConnReply(x).up = x.up
         /\ ConnReply(x).todo = Tail(x.todo) /\ ConnReply(x).down = Append(x.down, Head(x.todo))
         /\ ConnReply(x).served = x.served /\ ConnReply(x).open = x.open
  <1>1. Tail(x.todo) \in Seq(DownMessages(n)) /\ Head(x.todo) \in DownMessages(n)
    BY ConnFields, TailTypes
  <1>2. Append(x.down, Head(x.todo)) \in Seq(DownMessages(n))
    BY <1>1, ConnFields
  <1> QED
    BY <1>1, <1>2, ConnFields DEF ConnReply, ConnRecords

LEMMA EndFields ==
  ASSUME NEW n \in Nat, NEW x \in ConnRecords(n)
  PROVE  /\ ConnEnd(x) \in ConnRecords(n) /\ ConnNotice(x) \in ConnRecords(n)
         /\ ConnClose(x) \in ConnRecords(n)
         /\ ConnEnd(x).up = << >> /\ ConnEnd(x).todo = << >> /\ ConnEnd(x).down = x.down
         /\ ~ ConnEnd(x).served /\ ConnEnd(x).open = x.open
         /\ ConnNotice(x).up = x.up /\ ConnNotice(x).todo = x.todo
         /\ ConnNotice(x).down = x.down /\ ConnNotice(x).served = x.served
         /\ ConnClose(x).up = x.up /\ ConnClose(x).todo = x.todo /\ ConnClose(x).down = x.down
         /\ ~ ConnClose(x).served
  <1>1. << >> \in Seq(UpMessages(n)) /\ << >> \in Seq(DownMessages(n))
    OBVIOUS
  <1> QED
    BY <1>1, ConnFields DEF ConnEnd, ConnNotice, ConnClose, ConnRecords

\* What the daemon answers.
LEMMA ReplyTypes ==
  ASSUME NEW n \in Nat, NEW c, NEW m \in UpMessages(n)
  PROVE  /\ reply(c, m) \in Seq(DownMessages(n)) /\ reply(c, m) # << >>
         /\ m.type = "register" => reply(c, m) = <<Message("ack", 0)>>
         /\ m.type = "ping" => reply(c, m) = <<Message("pong", 0)>>
         /\ m.type = "query" =>
              \/ reply(c, m) = <<Message("error", m.query)>>
              \/ reply(c, m) = Answer(m.query)
         /\ m.type \in Requests /\ m.query \in 0..n /\ (m.type = "query" => m.query \in 1..n)
  <1>1. m.type \in Requests /\ m.query \in 0..n /\ (m.type = "query" => m.query \in 1..n)
    BY DEF UpMessages
  <1>2. /\ Message("ack", 0) \in DownMessages(n) /\ Message("pong", 0) \in DownMessages(n)
        /\ Message("error", m.query) \in DownMessages(n)
    BY <1>1 DEF DownMessages, Replies, Message
  <1>3. m.type \in {"register", "ping", "query"}
    BY <1>1 DEF Requests
  <1>4. m.type = "query" => Answer(m.query) \in Seq(DownMessages(n)) /\ Answer(m.query) # << >>
    BY <1>1, AnswerTypes, AnswerParts
  <1> QED
    BY <1>1, <1>2, <1>3, <1>4 DEF reply

\* A step that makes the connection c another record and leaves the others.
LEMMA ConnSet ==
  ASSUME SessTypes, NEW c \in Conns, NEW x \in ConnRecords(Len(asked)),
         x.served => x.open, conns' = [conns EXCEPT ![c] = x]
  PROVE  /\ conns' \in Seq(ConnRecords(Len(asked))) /\ Len(conns') = Len(conns)
         /\ Conns' = Conns /\ conns'[c] = x
         /\ \A d \in Conns : d # c => conns'[d] = conns[d]
         /\ \A d \in Conns : conns'[d].served => conns'[d].open
  <1>1. conns \in Seq(ConnRecords(Len(asked))) /\ c \in 1..Len(conns) /\ Conns = 1..Len(conns)
        /\ \A d \in Conns : conns[d].served => conns[d].open
    BY DEF SessTypes, Conns
  <1>2. /\ conns' \in Seq(ConnRecords(Len(asked))) /\ Len(conns') = Len(conns)
    BY <1>1, SeqUpdate
  <1>3. conns'[c] = x /\ \A d \in 1..Len(conns) : d # c => conns'[d] = conns[d]
    BY <1>1
  <1> QED
    BY <1>1, <1>2, <1>3 DEF Conns

\* The same, of each action.
LEMMA PopIs ==
  ASSUME SessTypes, NEW c \in Conns, Arrived(c), Pop(c)
  PROVE  /\ conns' = [conns EXCEPT ![c] = ConnPop(conns[c])]
         /\ conns[c].down # << >> /\ ConnPop(conns[c]).served = conns[c].served
         /\ ConnPop(conns[c]) \in ConnRecords(Len(asked))
         /\ ConnPop(conns[c]).open = conns[c].open
         /\ Received(c) = Head(conns[c].down) /\ Received(c) \in DownMessages(Len(asked))
  <1>1. /\ conns \in Seq(ConnRecords(Len(asked))) /\ Len(asked) \in Nat
        /\ conns[c] \in ConnRecords(Len(asked))
    BY DEF SessTypes, Conns
  <1>2. conns[c].down # << >> /\ conns[c].down \in Seq(DownMessages(Len(asked)))
    BY <1>1, ConnFields DEF Arrived
  <1>3. conns' = [conns EXCEPT ![c] = ConnPop(conns[c])]
    BY <1>1 DEF Pop, ConnPop
  <1> QED
    BY <1>1, <1>2, <1>3, PopFields, TailTypes DEF Received

LEMMA SendIs ==
  ASSUME SessTypes, NEW m \in UpMessages(Len(asked)), Send(m)
  PROVE  /\ ws \in Conns /\ conns[ws].open
         /\ conns' = [conns EXCEPT ![ws] = ConnSend(conns[ws], m)]
         /\ ConnSend(conns[ws], m) \in ConnRecords(Len(asked))
         /\ ConnSend(conns[ws], m).served = conns[ws].served
         /\ ConnSend(conns[ws], m).open = conns[ws].open
  <1>1. conns \in Seq(ConnRecords(Len(asked))) /\ Len(asked) \in Nat
    BY DEF SessTypes
  <1>2. ws \in Conns /\ conns[ws].open /\ conns[ws] \in ConnRecords(Len(asked))
    BY DEF SessTypes, Conns, Send, SocketOpen
  <1>3. CASE conns[ws].served
    <2>1. conns' = [conns EXCEPT ![ws].up = Append(@, m)]
      BY <1>3 DEF Send
    <2>2. conns' = [conns EXCEPT ![ws] = [conns[ws] EXCEPT !.up = Append(@, m)]]
      BY <1>1, <1>2, <2>1
    <2> QED
      BY <1>1, <1>2, <1>3, <2>2, SendFields DEF ConnSend
  <1>4. CASE ~ conns[ws].served
    <2>1. conns' = conns /\ ConnSend(conns[ws], m) = conns[ws]
      BY <1>4 DEF Send, ConnSend
    <2>2. conns = [conns EXCEPT ![ws] = conns[ws]]
      BY <1>1
    <2> QED
      BY <1>1, <1>2, <2>1, <2>2
  <1> QED
    BY <1>3, <1>4

LEMMA TakeIs ==
  ASSUME SessTypes, NEW c \in Conns, Take(c)
  PROVE  \E m \in UpMessages(Len(asked)), r \in Seq(DownMessages(Len(asked))) :
           /\ m = Head(conns[c].up) /\ r = reply(c, m) /\ r # << >>
           /\ conns[c].up # << >> /\ conns[c].todo = << >> /\ conns[c].served
           /\ conns' = [conns EXCEPT ![c] = ConnTake(conns[c], r)]
           /\ ConnTake(conns[c], r) \in ConnRecords(Len(asked))
           /\ ConnTake(conns[c], r).served = conns[c].served
           /\ ConnTake(conns[c], r).open = conns[c].open
  <1>1. /\ conns \in Seq(ConnRecords(Len(asked))) /\ Len(asked) \in Nat
        /\ conns[c] \in ConnRecords(Len(asked))
    BY DEF SessTypes, Conns
  <1>2. conns[c].up # << >> /\ conns[c].todo = << >> /\ conns[c].served
    BY DEF Take
  <1>3. Head(conns[c].up) \in UpMessages(Len(asked))
    BY <1>1, <1>2, ConnFields, TailTypes
  <1> PICK m : m = Head(conns[c].up)
    OBVIOUS
  <1> PICK r : r = reply(c, m)
    OBVIOUS
  <1>4. r \in Seq(DownMessages(Len(asked))) /\ r # << >>
    BY <1>1, <1>3, ReplyTypes
  <1>5. conns' = [conns EXCEPT ![c] = ConnTake(conns[c], r)]
    BY DEF Take, ConnTake
  <1> QED
    BY <1>1, <1>2, <1>3, <1>4, <1>5, TakeFields

LEMMA ConnStepIs ==
  ASSUME SessTypes, NEW c \in Conns
  PROVE  /\ conns[c] \in ConnRecords(Len(asked))
         /\ Reply(c) =>
              /\ conns[c].todo # << >> /\ ConnReply(conns[c]) \in ConnRecords(Len(asked))
              /\ conns' = [conns EXCEPT ![c] = ConnReply(conns[c])]
         /\ HandlerFails(c) \/ HangUp(c) =>
              /\ ConnEnd(conns[c]) \in ConnRecords(Len(asked))
              /\ conns' = [conns EXCEPT ![c] = ConnEnd(conns[c])]
         /\ Notice(c) =>
              /\ ConnNotice(conns[c]) \in ConnRecords(Len(asked)) /\ ~ conns[c].served
              /\ conns' = [conns EXCEPT ![c] = ConnNotice(conns[c])]
         /\ Close /\ c = ws =>
              /\ ConnClose(conns[c]) \in ConnRecords(Len(asked))
              /\ conns' = [conns EXCEPT ![c] = ConnClose(conns[c])]
  <1>1. /\ conns \in Seq(ConnRecords(Len(asked))) /\ Len(asked) \in Nat
        /\ conns[c] \in ConnRecords(Len(asked))
    BY DEF SessTypes, Conns
  <1>2. Reply(c) => /\ conns[c].todo # << >> /\ ConnReply(conns[c]) \in ConnRecords(Len(asked))
                    /\ conns' = [conns EXCEPT ![c] = ConnReply(conns[c])]
    BY <1>1, ReplyFields DEF Reply, ConnReply
  <1>3. HandlerFails(c) \/ HangUp(c) =>
          /\ ConnEnd(conns[c]) \in ConnRecords(Len(asked))
          /\ conns' = [conns EXCEPT ![c] = ConnEnd(conns[c])]
    BY <1>1, EndFields DEF HandlerFails, HangUp, EndHandler, ConnEnd
  <1>4. Notice(c) => /\ ConnNotice(conns[c]) \in ConnRecords(Len(asked)) /\ ~ conns[c].served
                     /\ conns' = [conns EXCEPT ![c] = ConnNotice(conns[c])]
    BY <1>1, EndFields DEF Notice, ConnNotice
  <1>5. Close /\ c = ws => /\ ConnClose(conns[c]) \in ConnRecords(Len(asked))
                           /\ conns' = [conns EXCEPT ![c] = ConnClose(conns[c])]
    BY <1>1, EndFields DEF Close, ConnClose
  <1> QED
    BY <1>1, <1>2, <1>3, <1>4, <1>5

\* The types of the other variables, given those of the connections.
LEMMA SessTypesStay ==
  ASSUME SessTypes, Len(asked') = Len(asked), asked' \in Seq(AskedRecords(Len(conns), Len(asked))),
         Len(conns') = Len(conns), conns' \in Seq(ConnRecords(Len(asked))),
         \A c \in Conns : conns'[c].served => conns'[c].open,
         app' \in {"idle", "ack", "answer", "closes"},
         ws' \in 0..Len(conns), registered' \in BOOLEAN, ping_task' \in 0..Len(pings'),
         pings' \in Seq(PingRecords(Len(conns))), sent' \in 0..MaxPings,
         daemon' \in {"up", "stopping", "down"}, mixed' \subseteq Conns,
         ping_task' # 0 => registered' /\ ws' # 0, app' # "idle" => ws' # 0,
         app' = "closes" => ping_task' = 0, app' = "answer" => asked' # << >>
  PROVE  SessTypes'
  <1>1. Len(asked) <= MaxQueries /\ Len(conns) <= MaxConnects /\ Conns = 1..Len(conns)
    BY DEF SessTypes, Conns
  <1>2. Conns' = Conns
    BY <1>1 DEF Conns
  <1> QED
    BY <1>1, <1>2 DEF SessTypes

\* What the application makes of a message of its answer.
AskNext(x, m) ==
  [x EXCEPT !.parts = IF m.type = "stream_delta" THEN Append(@, m.query) ELSE @,
            !.complete = m.type = "stream_end"]

LEMMA AskFields ==
  ASSUME NEW c \in Nat, NEW n \in Nat, NEW x \in AskedRecords(c, n), NEW m \in DownMessages(n)
  PROVE  /\ AskNext(x, m) \in AskedRecords(c, n) /\ AskNext(x, m).on = x.on
         /\ AskNext(x, m).complete <=> m.type = "stream_end"
         /\ AskNext(x, m).parts = IF m.type = "stream_delta" THEN Append(x.parts, m.query) ELSE x.parts
         /\ m.type = "stream_delta" => m.query \in 1..n
  <1>1. /\ x.on \in 1..c /\ x.parts \in Seq(1..n) /\ x.complete \in BOOLEAN
        /\ DOMAIN x = {"on", "parts", "complete"}
    BY DEF AskedRecords
  <1>2. m.type = "stream_delta" => m.query \in 1..n
    BY DEF DownMessages
  <1>3. (IF m.type = "stream_delta" THEN Append(x.parts, m.query) ELSE x.parts) \in Seq(1..n)
    <2>1. m.type = "stream_delta" => Append(x.parts, m.query) \in Seq(1..n)
      BY <1>1, <1>2
    <2> QED
      BY <1>1, <2>1
  <1>4. (m.type = "stream_end") \in BOOLEAN
    OBVIOUS
  <1> QED
    BY <1>1, <1>2, <1>3, <1>4 DEF AskedRecords, AskNext

\* What the application receives of its answer.
LEMMA CollectIs ==
  ASSUME SessTypes, Collect
  PROVE  /\ ws \in Conns /\ Current \in Queries /\ Arrived(ws) /\ Pop(ws)
         /\ asked' \in Seq(AskedRecords(Len(conns), Len(asked))) /\ Len(asked') = Len(asked)
         /\ \A q \in Queries : q # Current => asked'[q] = asked[q]
         /\ asked'[Current] = AskNext(asked[Current], Received(ws))
         /\ asked[Current] \in AskedRecords(Len(conns), Len(asked))
         /\ Received(ws) \in DownMessages(Len(asked))
         /\ app' = IF Received(ws).type \in {"stream_end", "error"} THEN "idle" ELSE app
         /\ UNCHANGED <<satVars, pings, sent, daemon>>
         /\ mixed' = IF Received(ws).type \in Exchange THEN mixed ELSE mixed \cup {ws}
  <1>1. /\ asked \in Seq(AskedRecords(Len(conns), Len(asked))) /\ Len(asked) \in 1..Len(asked)
        /\ Queries = 1..Len(asked) /\ Current = Len(asked) /\ ws \in Conns
        /\ Arrived(ws) /\ Pop(ws) /\ Len(conns) \in Nat /\ Len(asked) \in Nat
    BY DEF SessTypes, Collect, Queries, Current, Conns
  <1>2. asked[Current] \in AskedRecords(Len(conns), Len(asked))
    BY <1>1
  <1>3. Received(ws) \in DownMessages(Len(asked))
    BY <1>1, PopIs
  <1>4. asked' = [asked EXCEPT ![Current] = AskNext(asked[Current], Received(ws))]
    BY DEF Collect, AskNext
  <1>5. AskNext(asked[Current], Received(ws)) \in AskedRecords(Len(conns), Len(asked))
    BY <1>1, <1>2, <1>3, AskFields
  <1>6. /\ asked' \in Seq(AskedRecords(Len(conns), Len(asked))) /\ Len(asked') = Len(asked)
    BY <1>1, <1>4, <1>5, SeqUpdate
  <1>7. /\ asked'[Current] = AskNext(asked[Current], Received(ws))
        /\ \A q \in 1..Len(asked) : q # Current => asked'[q] = asked[q]
    BY <1>1, <1>4
  <1>8. /\ app' = IF Received(ws).type \in {"stream_end", "error"} THEN "idle" ELSE app
        /\ UNCHANGED <<satVars, pings, sent, daemon>>
        /\ mixed' = IF Received(ws).type \in Exchange THEN mixed ELSE mixed \cup {ws}
    BY DEF Collect, NoteOther
  <1> QED
    BY <1>1, <1>2, <1>3, <1>6, <1>7, <1>8

\* A ping task that goes on.
LEMMA PingIsIs ==
  ASSUME SessTypes, NEW t \in Tasks, NEW state, NEW next, NEW c, PingIs(t, state, next, c),
         next \in {"sleeps", "sends", "receives", "failed", "cancelled"}, c \in 0..Len(conns),
         next \in {"sends", "receives"} => c # 0
  PROVE  /\ pings' \in Seq(PingRecords(Len(conns))) /\ Len(pings') = Len(pings) /\ Tasks' = Tasks
         /\ pings[t].state = state /\ pings'[t].state = next /\ pings'[t].on = c
         /\ \A u \in Tasks : u # t => pings'[u] = pings[u]
         /\ pings[t].on \in 0..Len(conns)
         /\ pings[t].state \in {"sends", "receives"} => pings[t].on \in Conns
  <1>1. pings \in Seq(PingRecords(Len(conns))) /\ Tasks = 1..Len(pings)
    BY DEF SessTypes, Tasks
  <1>2. [state |-> next, on |-> c] \in PingRecords(Len(conns)) /\ pings[t] \in PingRecords(Len(conns))
    <2>1. pings[t] \in PingRecords(Len(conns))
      BY <1>1
    <2>2. [state |-> next, on |-> c] \in PingRecords(Len(conns))
      BY DEF PingRecords
    <2> QED
      BY <2>1, <2>2
  <1>3. pings[t].state = state /\ pings' = [pings EXCEPT ![t] = [state |-> next, on |-> c]]
    BY DEF PingIs
  <1>4. pings' \in Seq(PingRecords(Len(conns))) /\ Len(pings') = Len(pings)
    BY <1>1, <1>2, <1>3, SeqUpdate
  <1>5. /\ pings[t].on \in 0..Len(conns)
        /\ pings[t].state \in {"sends", "receives"} => pings[t].on \in 1..Len(conns)
    BY <1>2 DEF PingRecords
  <1> QED
    BY <1>1, <1>3, <1>4, <1>5 DEF Tasks, Conns

LEMMA SessTypesAct ==
  ASSUME SessTypes, Connect \/ Query \/ Disconnect \/ AppStep
  PROVE  SessTypes'
  <1> PICK n \in Nat, k \in Nat : n = Len(asked) /\ k = Len(conns)
    BY DEF SessTypes
  <1>1. /\ asked \in Seq(AskedRecords(k, n)) /\ conns \in Seq(ConnRecords(n)) /\ Conns = 1..k
        /\ pings \in Seq(PingRecords(k)) /\ Len(pings) \in Nat /\ n <= MaxQueries /\ k <= MaxConnects
        /\ \A c \in Conns : conns[c].served => conns[c].open
        /\ mixed \subseteq Conns /\ sent \in 0..MaxPings
    BY DEF SessTypes, Conns
  <1>a. CASE Connect
    <2> PICK v : v = Append(conns, NewConn)
      OBVIOUS
    <2>1. conns' = v /\ ws' = k + 1 /\ app' = "ack" /\ k < MaxConnects
          /\ UNCHANGED <<registered, ping_task, pings, sent, asked, daemon, mixed>>
      BY <1>a DEF Connect
    <2>2. NewConn \in ConnRecords(n) /\ NewConn.served /\ NewConn.open
      <3>1. /\ Message("register", 0) \in UpMessages(n)
            /\ <<Message("register", 0)>> \in Seq(UpMessages(n))
            /\ << >> \in Seq(DownMessages(n))
        BY DEF UpMessages, Message, Requests
      <3> QED
        BY <3>1 DEF NewConn, ConnRecords
    <2>3. /\ v \in Seq(ConnRecords(n)) /\ Len(v) = k + 1
          /\ v[k + 1] = NewConn /\ \A c \in 1..k : v[c] = conns[c]
      BY <1>1, <2>2, SeqPush
    <2>4. /\ AskedRecords(k, n) \subseteq AskedRecords(k + 1, n)
          /\ PingRecords(k) \subseteq PingRecords(k + 1) /\ k + 1 \in Nat
      BY TypesGrow
    <2>5. asked' \in Seq(AskedRecords(k + 1, n)) /\ pings' \in Seq(PingRecords(k + 1))
      BY <1>1, <2>1, <2>4, SeqGrows
    <2>6. Conns' = 1..(k + 1) /\ \A c \in 1..(k + 1) : v[c].served => v[c].open
      BY <1>1, <2>1, <2>2, <2>3 DEF Conns
    <2>7. k + 1 <= MaxConnects
      BY <2>1, BoundsAreNat
    <2> QED
      BY <1>1, <2>1, <2>3, <2>5, <2>6, <2>7 DEF SessTypes
  <1>b. CASE Query
    <2> PICK m : m = Message("query", n + 1)
      OBVIOUS
    <2> PICK x : x = [on |-> ws, parts |-> << >>, complete |-> FALSE]
      OBVIOUS
    <2>1. /\ Send(m) /\ asked' = Append(asked, x) /\ app' \in {"idle", "answer"} /\ n < MaxQueries
          /\ mixed' \in {mixed, mixed \cup {ws}} /\ UNCHANGED <<satVars, pings, sent, daemon>>
      BY <1>b DEF Query
    <2>2. ws \in Conns /\ conns[ws].open
      BY <1>1, <2>1 DEF SessTypes, Conns, Send, SocketOpen
    <2>3. x \in AskedRecords(k, n + 1)
      <3>1. << >> \in Seq(1..(n + 1))
        OBVIOUS
      <3> QED
        BY <1>1, <2>2, <3>1 DEF AskedRecords
    <2>4. /\ AskedRecords(k, n) \subseteq AskedRecords(k, n + 1)
          /\ ConnRecords(n) \subseteq ConnRecords(n + 1) /\ n + 1 \in Nat
      BY TypesGrow
    <2>5. asked' \in Seq(AskedRecords(k, n + 1)) /\ Len(asked') = n + 1
      <3>1. asked \in Seq(AskedRecords(k, n + 1))
        BY <1>1, <2>4, SeqGrows
      <3> QED
        BY <2>1, <2>3, <3>1
    <2>6. conns \in Seq(ConnRecords(n + 1))
      BY <1>1, <2>4, SeqGrows
    <2>7. m \in UpMessages(n + 1)
      BY DEF UpMessages, Message, Requests
    <2>8. /\ conns' \in Seq(ConnRecords(n + 1)) /\ Len(conns') = k
          /\ \A c \in 1..k : conns'[c].served => conns'[c].open
      <3>1. CASE ~ conns[ws].served
        BY <1>1, <2>1, <2>6, <3>1 DEF Send
      <3>2. CASE conns[ws].served
        <4> PICK y : y = ConnSend(conns[ws], m)
          OBVIOUS
        <4>1. y \in ConnRecords(n + 1) /\ y.open = conns[ws].open
          <5>1. conns[ws] \in ConnRecords(n + 1)
            BY <1>1, <2>2, <2>6
          <5> QED
            BY <2>4, <2>7, <5>1, SendFields
        <4>2. conns' = [conns EXCEPT ![ws].up = Append(@, m)]
          BY <2>1, <3>2 DEF Send
        <4>3. conns' = [conns EXCEPT ![ws] = y]
          BY <1>1, <2>2, <3>2, <4>2 DEF ConnSend
        <4>4. conns' \in Seq(ConnRecords(n + 1)) /\ Len(conns') = k
          BY <1>1, <2>2, <2>6, <4>1, <4>3, SeqUpdate
        <4>5. \A c \in 1..k : conns'[c] = IF c = ws THEN y ELSE conns[c]
          BY <1>1, <2>2, <4>3
        <4> QED
          BY <1>1, <2>2, <4>1, <4>4, <4>5
      <3> QED
        BY <3>1, <3>2
    <2>9. Conns' = Conns /\ mixed' \subseteq Conns /\ asked' # << >> /\ n + 1 <= MaxQueries
      BY <1>1, <2>1, <2>2, <2>5, <2>8, BoundsAreNat DEF Conns
    <2> QED
      BY <1>1, <2>1, <2>2, <2>5, <2>8, <2>9 DEF SessTypes, satVars
  <1>c. CASE Disconnect
    <2> PICK q : q = [t \in Tasks |-> IF t = ping_task
                               THEN [state |-> "cancelled", on |-> 0] ELSE pings[t]]
      OBVIOUS
    <2>1. /\ pings' = q /\ app' = "closes" /\ ping_task' = 0 /\ ws # 0
          /\ mixed' \subseteq mixed \cup Conns
          /\ UNCHANGED <<ws, registered, sent, asked, conns, daemon>>
      BY <1>c DEF Disconnect
    <2>2. q \in [1..Len(pings) -> PingRecords(k)]
      <3>1. [state |-> "cancelled", on |-> 0] \in PingRecords(k)
        BY DEF PingRecords
      <3> QED
        BY <1>1, <3>1 DEF Tasks
    <2>3. q \in Seq(PingRecords(k)) /\ Len(q) = Len(pings)
      BY <1>1, <2>2, SeqFromFunction
    <2> QED
      <3>1. /\ ws' \in 0..k /\ mixed' \subseteq Conns /\ ping_task' \in 0..Len(pings')
            /\ app' = "closes" /\ registered' \in BOOLEAN /\ daemon' \in {"up", "stopping", "down"}
        <4>1. ws \in 0..k /\ registered \in BOOLEAN /\ daemon \in {"up", "stopping", "down"}
          BY DEF SessTypes
        <4>2. 0 \in 0..Len(pings')
          <5>1. Len(q) = Len(pings) /\ Len(pings) \in Nat /\ pings' = q
            BY <1>1, <2>1, <2>3
          <5>2. \A l \in Nat : 0 \in 0..l
            OBVIOUS
          <5> QED
            BY <5>1, <5>2
        <4> QED
          BY <1>1, <2>1, <4>1, <4>2
      <3> QED
        BY <1>1, <2>1, <2>3, <3>1, SessTypesStay
  <1>d. CASE Registered
    <2> PICK e : e = [state |-> "sleeps", on |-> 0]
      OBVIOUS
    <2>1. /\ app = "ack" /\ Arrived(ws) /\ Pop(ws) /\ app' = "idle" /\ registered' = TRUE
          /\ pings' = Append(pings, e) /\ ping_task' = Len(pings) + 1
          /\ UNCHANGED <<ws, sent, asked, daemon, mixed>>
      BY <1>d DEF Registered
    <2>2. ws \in Conns /\ ws # 0
      BY <2>1 DEF SessTypes, Conns
    <2>3. /\ conns' \in Seq(ConnRecords(n)) /\ Len(conns') = k
          /\ \A c \in Conns : conns'[c].served => conns'[c].open
      <3>1. /\ conns' = [conns EXCEPT ![ws] = ConnPop(conns[ws])]
            /\ ConnPop(conns[ws]) \in ConnRecords(Len(asked))
            /\ ConnPop(conns[ws]).served => ConnPop(conns[ws]).open
        BY <1>1, <2>1, <2>2, PopIs
      <3> QED
        BY <2>2, <3>1, ConnSet
    <2>4. pings' \in Seq(PingRecords(k)) /\ Len(pings') = Len(pings) + 1
      <3>1. e \in PingRecords(k)
        BY DEF PingRecords
      <3> QED
        BY <1>1, <2>1, <3>1
    <2>5. ping_task' \in 0..Len(pings')
      BY <1>1, <2>1, <2>4
    <2> QED
      BY <1>1, <2>1, <2>2, <2>3, <2>4, <2>5 DEF SessTypes, Conns
  <1>e. CASE Collect
    <2>1. /\ ws \in Conns /\ Arrived(ws) /\ Pop(ws)
          /\ asked' \in Seq(AskedRecords(k, n)) /\ Len(asked') = n
          /\ app' \in {"idle", app} /\ UNCHANGED <<satVars, pings, sent, daemon>>
          /\ mixed' \in {mixed, mixed \cup {ws}}
      BY <1>e, CollectIs
    <2>2. app = "answer"
      BY <1>e DEF Collect
    <2>3. /\ conns' \in Seq(ConnRecords(n)) /\ Len(conns') = k
          /\ \A c \in Conns : conns'[c].served => conns'[c].open
      <3>1. /\ conns' = [conns EXCEPT ![ws] = ConnPop(conns[ws])]
            /\ ConnPop(conns[ws]) \in ConnRecords(Len(asked))
            /\ ConnPop(conns[ws]).served => ConnPop(conns[ws]).open
        BY <1>1, <2>1, PopIs
      <3> QED
        BY <2>1, <3>1, ConnSet
    <2>4. asked' # << >>
      BY <2>1, <2>2 DEF SessTypes
    <2>5. /\ ws' \in 0..k /\ mixed' \subseteq Conns /\ ping_task' \in 0..Len(pings')
          /\ registered' \in BOOLEAN /\ daemon' \in {"up", "stopping", "down"}
          /\ pings' \in Seq(PingRecords(k)) /\ sent' \in 0..MaxPings
          /\ (ping_task' # 0 => registered' /\ ws' # 0) /\ ws' # 0
          /\ app' \in {"idle", "answer"}
      BY <1>1, <2>1, <2>2 DEF SessTypes, Conns, satVars
    <2> QED
      BY <2>1, <2>3, <2>4, <2>5, SessTypesStay
  <1>f. CASE CallLost
    BY <1>1, <1>f DEF SessTypes, Conns, satVars, CallLost
  <1>g. CASE Close
    <2>1. /\ app = "closes" /\ ws' = 0 /\ registered' = FALSE /\ app' = "idle"
          /\ UNCHANGED <<ping_task, pings, sent, asked, daemon, mixed>>
      BY <1>g DEF Close
    <2>2. ws \in Conns /\ ping_task = 0
      BY <2>1 DEF SessTypes, Conns
    <2>3. /\ conns' \in Seq(ConnRecords(n)) /\ Len(conns') = k
          /\ \A c \in Conns : conns'[c].served => conns'[c].open
      <3>1. /\ ConnClose(conns[ws]) \in ConnRecords(Len(asked))
            /\ conns' = [conns EXCEPT ![ws] = ConnClose(conns[ws])]
            /\ conns[ws] \in ConnRecords(n)
        BY <1>g, <2>2, ConnStepIs
      <3>2. ~ ConnClose(conns[ws]).served
        BY <3>1, EndFields
      <3> QED
        BY <2>2, <3>1, <3>2, ConnSet
    <2>4. /\ ws' \in 0..k /\ mixed' \subseteq Conns /\ ping_task' \in 0..Len(pings')
          /\ registered' \in BOOLEAN /\ daemon' \in {"up", "stopping", "down"}
          /\ pings' \in Seq(PingRecords(k)) /\ sent' \in 0..MaxPings
          /\ ping_task' = 0
      <3>1. daemon \in {"up", "stopping", "down"} /\ 0 \in 0..k /\ 0 \in 0..Len(pings)
        BY <1>1 DEF SessTypes
      <3> QED
        BY <1>1, <2>1, <2>2, <3>1
    <2> QED
      BY <1>1, <2>1, <2>3, <2>4, SessTypesStay
  <1> QED
    BY <1>a, <1>b, <1>c, <1>d, <1>e, <1>f, <1>g DEF AppStep

\* A ping task's step.
LEMMA SessTypesPing ==
  ASSUME SessTypes, NEW t \in Tasks, PingStep(t)
  PROVE  SessTypes'
  <1> PICK n \in Nat, k \in Nat : n = Len(asked) /\ k = Len(conns)
    BY DEF SessTypes
  <1>1. /\ asked \in Seq(AskedRecords(k, n)) /\ conns \in Seq(ConnRecords(n)) /\ Conns = 1..k
        /\ pings \in Seq(PingRecords(k)) /\ Len(pings) \in Nat /\ n <= MaxQueries /\ k <= MaxConnects
        /\ \A c \in Conns : conns[c].served => conns[c].open
        /\ mixed \subseteq Conns /\ sent \in 0..MaxPings /\ ws \in 0..k /\ ping_task \in 0..Len(pings)
    BY DEF SessTypes, Conns
  <1>2. /\ pings[t].on \in 0..k
        /\ pings[t].state \in {"sends", "receives"} => pings[t].on \in Conns
    <2>1. pings[t] \in PingRecords(k)
      BY <1>1 DEF Tasks
    <2> QED
      BY <1>1, <2>1 DEF PingRecords
  <1>a. CASE PingSend(t)
    <2> PICK m : m = Message("ping", 0)
      OBVIOUS
    <2>1. /\ PingIs(t, "sleeps", "sends", ws) /\ sent < MaxPings /\ sent' = sent + 1 /\ Send(m)
          /\ UNCHANGED <<app, satVars, asked, daemon, mixed>>
      BY <1>a DEF PingSend
    <2>2. m \in UpMessages(n)
      BY DEF UpMessages, Message, Requests
    <2>3. /\ conns' \in Seq(ConnRecords(n)) /\ Len(conns') = k
          /\ \A c \in Conns : conns'[c].served => conns'[c].open
      <3>1. /\ ws \in Conns /\ conns' = [conns EXCEPT ![ws] = ConnSend(conns[ws], m)]
            /\ ConnSend(conns[ws], m) \in ConnRecords(Len(asked))
            /\ ConnSend(conns[ws], m).served => ConnSend(conns[ws], m).open
        BY <1>1, <2>1, <2>2, SendIs
      <3> QED
        BY <3>1, ConnSet
    <2>4. pings' \in Seq(PingRecords(k)) /\ Len(pings') = Len(pings)
      <3>1. ws \in 0..Len(conns) /\ ws # 0
        BY <1>1, <2>1 DEF Send, SocketOpen
      <3> QED
        BY <1>1, <2>1, <3>1, PingIsIs
    <2>5. sent' \in 0..MaxPings
      BY <1>1, <2>1, BoundsAreNat
    <2> QED
      BY <1>1, <2>1, <2>3, <2>4, <2>5, SessTypesStay DEF SessTypes, satVars
  <1>b. CASE PingUnsent(t) \/ PingBeginReceive(t) \/ PingRefused(t) \/ PingTimeout(t) \/ PingLost(t)
    <2>1. /\ UNCHANGED <<app, satVars, sent, asked, conns, daemon>>
          /\ \E state, next, c :
               /\ PingIs(t, state, next, c) /\ c \in 0..k
               /\ next \in {"sleeps", "receives", "failed"}
               /\ next \in {"sends", "receives"} => c # 0
          /\ mixed' \subseteq Conns
      <3>1. CASE PingUnsent(t)
        <4>1. /\ PingIs(t, "sleeps", "failed", 0) /\ 0 \in 0..k
              /\ UNCHANGED <<app, satVars, sent, asked, conns, daemon>>
          BY <3>1, <1>1 DEF PingUnsent
        <4>2. mixed' \subseteq Conns
          BY <3>1, <1>1, <1>2, <4>1 DEF PingUnsent, PingIs
        <4> QED
          BY <4>1, <4>2
      <3>2. CASE PingBeginReceive(t)
        <4>1. /\ PingIs(t, "sends", "receives", ws) /\ ws \in 0..k
              /\ UNCHANGED <<app, satVars, sent, asked, conns, daemon>>
              /\ ws # 0
          BY <3>2, <1>1 DEF PingBeginReceive, SocketFree
        <4>2. mixed' \subseteq Conns
          <5>1. /\ pings[t].on \in Conns /\ ws \in Conns
                /\ mixed' \in {mixed, mixed \cup {ws, pings[t].on}}
            BY <3>2, <1>1, <1>2, <4>1 DEF PingBeginReceive, PingIs
          <5> QED
            BY <1>1, <5>1
        <4> QED
          BY <4>1, <4>2
      <3>3. CASE PingRefused(t)
        <4>1. /\ PingIs(t, "sends", "failed", 0) /\ 0 \in 0..k
              /\ UNCHANGED <<app, satVars, sent, asked, conns, daemon>>
          BY <3>3, <1>1 DEF PingRefused
        <4>2. mixed' \subseteq Conns
          BY <3>3, <1>1, <1>2, <4>1 DEF PingRefused, PingIs
        <4> QED
          BY <4>1, <4>2
      <3>4. CASE PingTimeout(t)
        <4>1. /\ PingIs(t, "receives", "sleeps", 0) /\ 0 \in 0..k
              /\ UNCHANGED <<app, satVars, sent, asked, conns, daemon>>
          BY <3>4, <1>1 DEF PingTimeout
        <4>2. mixed' \subseteq Conns
          BY <3>4, <1>1, <1>2, <4>1 DEF PingTimeout, PingIs
        <4> QED
          BY <4>1, <4>2
      <3>5. CASE PingLost(t)
        <4>1. /\ PingIs(t, "receives", "failed", 0) /\ 0 \in 0..k
              /\ UNCHANGED <<app, satVars, sent, asked, conns, daemon>>
          BY <3>5, <1>1 DEF PingLost
        <4>2. mixed' \subseteq Conns
          BY <3>5, <1>1, <1>2, <4>1 DEF PingLost, PingIs
        <4> QED
          BY <4>1, <4>2
      <3> QED
        BY <1>b, <3>1, <3>2, <3>3, <3>4, <3>5
    <2>2. pings' \in Seq(PingRecords(k)) /\ Len(pings') = Len(pings)
      <3>1. PICK state, next, c : /\ PingIs(t, state, next, c) /\ c \in 0..k
                                  /\ next \in {"sleeps", "receives", "failed"}
                                  /\ next \in {"sends", "receives"} => c # 0
        BY <2>1
      <3> QED
        BY <1>1, <3>1, PingIsIs
    <2> QED
      BY <1>1, <2>1, <2>2, SessTypesStay DEF SessTypes, satVars
  <1>c. CASE PingReceive(t)
    <2>1. /\ PingIs(t, "receives", "sleeps", 0) /\ Arrived(pings[t].on) /\ Pop(pings[t].on)
          /\ mixed' \in {mixed, mixed \cup {pings[t].on}}
          /\ UNCHANGED <<app, satVars, sent, asked, daemon>>
      BY <1>c DEF PingReceive, NoteOther
    <2>2. pings[t].on \in Conns
      BY <1>2, <2>1 DEF PingIs
    <2>3. /\ conns' \in Seq(ConnRecords(n)) /\ Len(conns') = k
          /\ \A c \in Conns : conns'[c].served => conns'[c].open
      <3> PICK c \in Conns : c = pings[t].on
        BY <2>2
      <3>1. /\ conns' = [conns EXCEPT ![c] = ConnPop(conns[c])]
            /\ ConnPop(conns[c]) \in ConnRecords(Len(asked))
            /\ ConnPop(conns[c]).served => ConnPop(conns[c]).open
        BY <1>1, <2>1, PopIs
      <3> QED
        BY <3>1, ConnSet
    <2>4. pings' \in Seq(PingRecords(k)) /\ Len(pings') = Len(pings)
      BY <1>1, <2>1, PingIsIs
    <2>5. mixed' \subseteq Conns
      BY <1>1, <2>1, <2>2
    <2> QED
      BY <1>1, <2>1, <2>3, <2>4, <2>5, SessTypesStay DEF SessTypes, satVars
  <1> QED
    BY <1>a, <1>b, <1>c DEF PingStep

\* A step of a connection or of the daemon.
LEMMA SessTypesConn ==
  ASSUME SessTypes, NEW c \in Conns, ConnStep(c)
  PROVE  SessTypes'
  <1>1. /\ conns' \in Seq(ConnRecords(Len(asked))) /\ Len(conns') = Len(conns)
        /\ \A d \in Conns : conns'[d].served => conns'[d].open
    <2>1. \E x \in ConnRecords(Len(asked)) :
            (x.served => x.open) /\ conns' = [conns EXCEPT ![c] = x]
      <3>1. conns[c].served => conns[c].open
        BY DEF SessTypes
      <3>2. CASE Take(c)
        BY <3>1, <3>2, TakeIs
      <3>3. CASE Reply(c)
        <4>1. /\ conns[c].todo # << >> /\ ConnReply(conns[c]) \in ConnRecords(Len(asked))
              /\ conns' = [conns EXCEPT ![c] = ConnReply(conns[c])]
              /\ conns[c] \in ConnRecords(Len(asked)) /\ Len(asked) \in Nat
          BY <3>3, ConnStepIs DEF SessTypes
        <4>2. /\ ConnReply(conns[c]).served = conns[c].served
              /\ ConnReply(conns[c]).open = conns[c].open
          BY <4>1, ReplyFields
        <4> QED
          BY <3>1, <4>1, <4>2
      <3>4. CASE HandlerFails(c) \/ HangUp(c)
        <4>1. /\ ConnEnd(conns[c]) \in ConnRecords(Len(asked))
              /\ conns' = [conns EXCEPT ![c] = ConnEnd(conns[c])]
              /\ conns[c] \in ConnRecords(Len(asked)) /\ Len(asked) \in Nat
          BY <3>4, ConnStepIs DEF SessTypes
        <4>2. ~ ConnEnd(conns[c]).served
          BY <4>1, EndFields
        <4> QED
          BY <4>1, <4>2
      <3>5. CASE Notice(c)
        <4>1. /\ ConnNotice(conns[c]) \in ConnRecords(Len(asked)) /\ ~ conns[c].served
              /\ conns' = [conns EXCEPT ![c] = ConnNotice(conns[c])]
              /\ conns[c] \in ConnRecords(Len(asked)) /\ Len(asked) \in Nat
          BY <3>5, ConnStepIs DEF SessTypes
        <4>2. ~ ConnNotice(conns[c]).served
          BY <4>1, EndFields
        <4> QED
          BY <4>1, <4>2
      <3> QED
        BY <3>2, <3>3, <3>4, <3>5 DEF ConnStep
    <2> QED
      BY <2>1, ConnSet
  <1>2. UNCHANGED <<app, satVars, pings, sent, asked, daemon, mixed>>
    BY DEF ConnStep, Take, Reply, HandlerFails, HangUp, Notice
  <1> QED
    BY <1>1, <1>2, SessTypesStay DEF SessTypes, satVars

LEMMA SessTypesStep ==
  ASSUME SessTypes, [Next]_vars
  PROVE  SessTypes'
  <1>1. CASE StopDaemon \/ Stopped \/ StartDaemon \/ UNCHANGED vars
    <2>1. /\ UNCHANGED <<app, satVars, pings, sent, asked, conns, mixed>>
          /\ daemon' \in {"up", "stopping", "down"}
      BY <1>1 DEF StopDaemon, Stopped, StartDaemon, vars, SessTypes
    <2> QED
      BY <2>1, SessTypesStay DEF SessTypes, satVars
  <1>2. CASE \E t \in Tasks : PingStep(t)
    BY <1>2, SessTypesPing
  <1>3. CASE \E c \in Conns : ConnStep(c)
    BY <1>3, SessTypesConn
  <1>4. CASE Connect \/ Query \/ Disconnect \/ AppStep
    BY <1>4, SessTypesAct
  <1> QED
    BY <1>1, <1>2, <1>3, <1>4 DEF Next

LEMMA SessTypesInit == Init => SessTypes
  <1> SUFFICES ASSUME Init PROVE SessTypes
    OBVIOUS
  <1>1. 0 \in 0..MaxPings /\ 0 <= MaxQueries /\ 0 <= MaxConnects
    BY BoundsAreNat
  <1>2. Len(asked) = 0 /\ Len(conns) = 0 /\ Len(pings) = 0 /\ Conns = {}
    BY DEF Init, Conns
  <1>3. /\ pings \in Seq(PingRecords(0)) /\ asked \in Seq(AskedRecords(0, 0))
        /\ conns \in Seq(ConnRecords(0))
    BY DEF Init
  <1>4. /\ app = "idle" /\ ws = 0 /\ registered = FALSE /\ ping_task = 0 /\ sent = 0
        /\ daemon = "up" /\ mixed = {}
    BY DEF Init
  <1>5. 0 \in 0..Len(conns) /\ 0 \in 0..Len(pings) /\ sent \in 0..MaxPings
    <2>1. \A l \in Nat : 0 \in 0..l
      OBVIOUS
    <2> QED
      BY <1>1, <1>2, <1>4, <2>1
  <1>6. /\ asked \in Seq(AskedRecords(Len(conns), Len(asked)))
        /\ conns \in Seq(ConnRecords(Len(asked))) /\ pings \in Seq(PingRecords(Len(conns)))
    BY <1>2, <1>3
  <1> QED
    BY <1>1, <1>2, <1>4, <1>5, <1>6 DEF SessTypes

\* The types the runs check follow.
LEMMA SessTypesEnough == SessTypes => TypeOK
  <1> SUFFICES ASSUME SessTypes PROVE TypeOK
    OBVIOUS
  <1> PICK n \in Nat, k \in Nat : n = Len(asked) /\ k = Len(conns)
    BY DEF SessTypes
  <1>1. /\ n <= MaxQueries /\ Conns = 1..k /\ Queries = 1..n
        /\ pings \in Seq(PingRecords(k)) /\ asked \in Seq(AskedRecords(k, n))
        /\ conns \in Seq(ConnRecords(n))
    BY DEF SessTypes, Conns, Queries
  <1>2. pings \in Seq([state : {"sleeps", "sends", "receives", "failed", "cancelled"}, on : 0..k])
    <2>1. PingRecords(k) \subseteq
            [state : {"sleeps", "sends", "receives", "failed", "cancelled"}, on : 0..k]
      BY DEF PingRecords
    <2> QED
      BY <1>1, <2>1, SeqGrows
  <1>3. asked \in Seq([on : Conns, parts : Seq(Queries), complete : BOOLEAN])
    BY <1>1 DEF AskedRecords
  <1>4. conns \in Seq([open : BOOLEAN, served : BOOLEAN, known : BOOLEAN,
                       up : Seq(Messages(Requests)), todo : Seq(Messages(Replies)),
                       down : Seq(Messages(Replies))])
    <2>1. UpMessages(n) \subseteq Messages(Requests) /\ DownMessages(n) \subseteq Messages(Replies)
      <3>1. 0..n \subseteq 0..MaxQueries
        BY <1>1, BoundsAreNat
      <3> QED
        BY <3>1 DEF UpMessages, DownMessages, Messages
    <2>2. /\ Seq(UpMessages(n)) \subseteq Seq(Messages(Requests))
          /\ Seq(DownMessages(n)) \subseteq Seq(Messages(Replies))
      BY <2>1
    <2>3. ConnRecords(n) \subseteq [open : BOOLEAN, served : BOOLEAN, known : BOOLEAN,
                       up : Seq(Messages(Requests)), todo : Seq(Messages(Replies)),
                       down : Seq(Messages(Replies))]
      BY <2>2 DEF ConnRecords
    <2> QED
      BY <1>1, <2>3, SeqGrows
  <1> QED
    BY <1>1, <1>2, <1>3, <1>4 DEF TypeOK, SessTypes

\* Types; a satellite with a ping task is registered and has a socket
\* (dap2_client.py, connect and disconnect).
THEOREM SessionTypesHold == Spec => []TypeOK
  <1>1. SessTypes /\ [Next]_vars => SessTypes'
    BY SessTypesStep
  <1> QED
    BY SessTypesInit, <1>1, SessTypesEnough, PTL DEF Spec

---------------------------------------------------------------------------
(* A query and the connection it was sent on.                                *)

\* Nothing of an exchange is on its way.
NoQuery(x) == \A k \in 1..Len(x.up) : x.up[k].type # "query"
NoReply(x) == x.todo = << >> /\ \A k \in 1..Len(x.down) : x.down[k].type \notin Exchange
Silent(x) == NoQuery(x) /\ NoReply(x)

\* The query is on its way up, or was lost.
Waiting(x, q, parts) ==
  /\ NoReply(x) /\ parts = << >>
  /\ \A k \in 1..Len(x.up) : x.up[k].type = "query" => x.up[k].query = q
  /\ \A j, k \in 1..Len(x.up) :
       x.up[j].type = "query" /\ x.up[k].type = "query" => j = k

\* g[k] is how many messages of the answer have been sent before and with the
\* k-th that the satellite has not received; pongs may be between them.
Tracks(g, down, q) ==
  /\ g \in [0..Len(down) -> 0..AnswerLen]
  /\ \A j, k \in 0..Len(down) : j <= k => g[j] <= g[k]
  /\ \A k \in 1..Len(down) :
       IF down[k].type \in Exchange
       THEN g[k] = g[k - 1] + 1 /\ down[k] = Answer(q)[g[k]] ELSE g[k] = g[k - 1]

\* What the handler has still to send after r messages.
Rest(todo, q, r) ==
  \/ todo = << >>
  \/ /\ r < AnswerLen /\ Len(todo) = AnswerLen - r
     /\ \A k \in 1..(AnswerLen - r) : todo[k] = Answer(q)[r + k]

\* What has been collected of r messages.
Collected(parts, q, r) ==
  /\ Len(parts) = IF r <= 2 THEN 0 ELSE r - 2
  /\ \A k \in 1..Len(parts) : parts[k] = q

\* The answer is on its way down.
ComesBy(x, q, parts, g) ==
  /\ NoQuery(x) /\ Tracks(g, x.down, q) /\ Rest(x.todo, q, g[Len(x.down)])
  /\ g[0] < AnswerLen /\ Collected(parts, q, g[0])
Coming(x, q, parts) ==
  \E g \in [0..Len(x.down) -> 0..AnswerLen] : ComesBy(x, q, parts, g)

\* The daemon does not know the satellite.
Refused(x) ==
  /\ NoQuery(x) /\ x.todo = << >>
  /\ \A k \in 1..Len(x.down) : x.down[k].type \in Exchange => x.down[k].type = "error"

Ongoing(x, q, parts) == Waiting(x, q, parts) \/ Coming(x, q, parts) \/ Refused(x)

\* After r messages, the message m is the next of the answer or none of it, and with it
\* it is i messages.
NextIs(m, q, r, i) ==
  IF m.type \in Exchange THEN i = r + 1 /\ m = Answer(q)[i] ELSE i = r

TracksFrom(d, q, first, i) ==
  \E h \in [0..Len(d) -> 0..AnswerLen] :
    Tracks(h, d, q) /\ h[0] = first /\ h[Len(d)] = i

\* One more message goes down: the next of the answer, or none of it.
LEMMA TracksAppend ==
  ASSUME NEW n \in Nat, NEW down \in Seq(DownMessages(n)), NEW q, NEW g, Tracks(g, down, q),
         NEW m \in DownMessages(n), NEW r \in 0..AnswerLen,
         NextIs(m, q, g[Len(down)], r)
  PROVE  TracksFrom(Append(down, m), q, g[0], r)
  <1> PICK l \in Nat : l = Len(down)
    OBVIOUS
  <1> PICK d : d = Append(down, m)
    OBVIOUS
  <1>1. /\ Len(d) = l + 1 /\ d[l + 1] = m /\ \A k \in 1..l : d[k] = down[k]
    BY SeqPush
  <1>2. /\ g \in [0..l -> 0..AnswerLen] /\ \A j, k \in 0..l : j <= k => g[j] <= g[k]
        /\ \A k \in 1..l : IF down[k].type \in Exchange
                           THEN g[k] = g[k - 1] + 1 /\ down[k] = Answer(q)[g[k]]
                           ELSE g[k] = g[k - 1]
    BY DEF Tracks
  <1>3. AnswerLen \in Nat
    BY AnswerParts
  <1>n. /\ m.type \in Exchange => r = g[l] + 1 /\ m = Answer(q)[r]
        /\ m.type \notin Exchange => r = g[l]
    BY DEF NextIs
  <1> PICK h : h = [k \in 0..(l + 1) |-> IF k <= l THEN g[k] ELSE r]
    OBVIOUS
  <1>4. /\ h[l + 1] = r /\ \A k \in 0..l : h[k] = g[k]
        /\ h \in [0..(l + 1) -> 0..AnswerLen]
    <2>1. \A k \in 0..(l + 1) : k <= l => g[k] \in 0..AnswerLen
      <3> TAKE k \in 0..(l + 1)
      <3>1. k <= l => k \in 0..l
        OBVIOUS
      <3> QED
        BY <1>2, <3>1
    <2>2. h[l + 1] = r /\ \A k \in 0..l : h[k] = g[k]
      OBVIOUS
    <2> QED
      BY <2>1, <2>2
  <1>5. g[l] \in 0..AnswerLen /\ g[l] <= r
    BY <1>2, <1>3, <1>n
  <1>6. \A j, k \in 0..(l + 1) : j <= k => h[j] <= h[k]
    <2> TAKE j, k \in 0..(l + 1)
    <2>1. CASE k <= l
      <3>1. j <= k => j \in 0..l /\ k \in 0..l
        BY <2>1
      <3> QED
        BY <3>1, <1>2, <1>4
    <2>2. CASE k = l + 1 /\ j <= l
      <3>1. j \in 0..l /\ l \in 0..l
        BY <2>2
      <3>2. g[j] <= g[l] /\ g[j] \in 0..AnswerLen
        <4>1. j <= l
          BY <2>2
        <4> QED
          BY <1>2, <3>1, <4>1, Zenon
      <3> QED
        BY <2>2, <3>1, <3>2, <1>3, <1>4, <1>5
    <2>3. CASE k = l + 1 /\ j = l + 1
      BY <2>3, <1>3, <1>4
    <2> QED
      BY <2>1, <2>2, <2>3
  <1>7. \A k \in 1..(l + 1) :
          IF d[k].type \in Exchange
          THEN h[k] = h[k - 1] + 1 /\ d[k] = Answer(q)[h[k]] ELSE h[k] = h[k - 1]
    <2> TAKE k \in 1..(l + 1)
    <2>1. CASE k <= l
      <3>1. k \in 1..l /\ k \in 0..l /\ k - 1 \in 0..l
        BY <2>1
      <3> QED
        BY <3>1, <1>1, <1>2, <1>4
    <2>2. CASE k = l + 1
      <3>1. k - 1 = l /\ l \in 0..l
        BY <2>2
      <3> QED
        BY <3>1, <2>2, <1>1, <1>4, <1>n
    <2> QED
      BY <2>1, <2>2
  <1>8. Tracks(h, d, q)
    BY <1>1, <1>4, <1>6, <1>7 DEF Tracks
  <1>9. h[0] = g[0] /\ h[Len(d)] = r /\ h \in [0..Len(d) -> 0..AnswerLen]
    BY <1>1, <1>4
  <1> QED
    BY <1>8, <1>9 DEF TracksFrom

\* One message has been received.
LEMMA TracksTail ==
  ASSUME NEW n \in Nat, NEW down \in Seq(DownMessages(n)), down # << >>, NEW q, NEW g,
         Tracks(g, down, q)
  PROVE  /\ TracksFrom(Tail(down), q, g[1], g[Len(down)])
         /\ g[0] \in 0..AnswerLen /\ g[1] \in 0..AnswerLen
         /\ NextIs(Head(down), q, g[0], g[1])
  <1> PICK d : d = Tail(down)
    OBVIOUS
  <1> PICK l \in Nat \ {0} : l = Len(down)
    BY TailTypes
  <1>1. Len(d) = l - 1 /\ \A k \in 1..(l - 1) : d[k] = down[k + 1] /\ Head(down) = down[1]
    BY TailTypes
  <1>h. Head(down) = down[1]
    BY TailTypes
  <1>2. /\ g \in [0..l -> 0..AnswerLen] /\ \A j, k \in 0..l : j <= k => g[j] <= g[k]
        /\ \A k \in 1..l : IF down[k].type \in Exchange
                           THEN g[k] = g[k - 1] + 1 /\ down[k] = Answer(q)[g[k]]
                           ELSE g[k] = g[k - 1]
    BY DEF Tracks
  <1>3. AnswerLen \in Nat
    BY AnswerParts
  <1> PICK h : h = [k \in 0..(l - 1) |-> g[k + 1]]
    OBVIOUS
  <1>4. /\ \A k \in 0..(l - 1) : h[k] = g[k + 1] /\ k + 1 \in 0..l /\ k + 1 \in 1..l
        /\ h \in [0..(l - 1) -> 0..AnswerLen]
    <2>1. \A k \in 0..(l - 1) : k + 1 \in 0..l /\ k + 1 \in 1..l /\ g[k + 1] \in 0..AnswerLen
      BY <1>2
    <2> QED
      BY <2>1
  <1>5. \A j, k \in 0..(l - 1) : j <= k => h[j] <= h[k]
    BY <1>2, <1>4
  <1>6. \A k \in 1..(l - 1) :
          IF d[k].type \in Exchange
          THEN h[k] = h[k - 1] + 1 /\ d[k] = Answer(q)[h[k]] ELSE h[k] = h[k - 1]
    <2> TAKE k \in 1..(l - 1)
    <2>1. k \in 0..(l - 1) /\ k - 1 \in 0..(l - 1) /\ k + 1 \in 1..l /\ (k + 1) - 1 = k
          /\ (k - 1) + 1 = k
      OBVIOUS
    <2>2. h[k] = g[k + 1] /\ h[k - 1] = g[k] /\ d[k] = down[k + 1]
      BY <1>1, <1>4, <2>1
    <2> QED
      BY <1>2, <2>1, <2>2
  <1>7. Tracks(h, d, q)
    BY <1>1, <1>4, <1>5, <1>6 DEF Tracks
  <1>8. h[0] = g[1] /\ h[Len(d)] = g[l] /\ h \in [0..Len(d) -> 0..AnswerLen]
    BY <1>1, <1>4
  <1>9. /\ g[0] \in 0..AnswerLen /\ g[1] \in 0..AnswerLen
        /\ IF Head(down).type \in Exchange
           THEN g[1] = g[0] + 1 /\ Head(down) = Answer(q)[g[1]] ELSE g[1] = g[0]
    <2>1. 1 \in 1..l /\ 0 \in 0..l /\ 1 \in 0..l /\ 1 - 1 = 0
      OBVIOUS
    <2> QED
      BY <1>2, <1>h, <2>1
  <1>10. TracksFrom(d, q, g[1], g[l])
    BY <1>7, <1>8 DEF TracksFrom
  <1>11. NextIs(Head(down), q, g[0], g[1])
    BY <1>9 DEF NextIs
  <1> QED
    BY <1>9, <1>10, <1>11

\* A step of the daemon or of a ping that makes the connection x the connection y
\* leaves what is known about an exchange as it is.
Continues(x, y, n) ==
  /\ Silent(x) => Silent(y)
  /\ \A q \in 1..n : \A parts : Ongoing(x, q, parts) => Ongoing(y, q, parts)

LEMMA TailUp ==
  ASSUME NEW n \in Nat, NEW x \in ConnRecords(n), NEW y, x.up # << >>, y.up = Tail(x.up)
  PROVE  /\ Len(x.up) \in Nat \ {0} /\ Len(y.up) = Len(x.up) - 1
         /\ \A k \in 1..Len(y.up) : y.up[k] = x.up[k + 1] /\ k + 1 \in 1..Len(x.up)
         /\ NoQuery(x) => NoQuery(y) /\ Head(x.up).type # "query"
         /\ Head(x.up) = x.up[1] /\ 1 \in 1..Len(x.up)
  <1> PICK u : u = x.up
    OBVIOUS
  <1>1. u \in Seq(UpMessages(n)) /\ u # << >>
    BY ConnFields
  <1>2. /\ Len(Tail(u)) = Len(u) - 1 /\ Len(u) \in Nat \ {0}
        /\ Head(u) = u[1] /\ \A k \in 1..(Len(u) - 1) : Tail(u)[k] = u[k + 1]
    BY <1>1, TailTypes
  <1>3. \A k \in 1..(Len(u) - 1) : k + 1 \in 1..Len(u)
    BY <1>2
  <1>4. 1 \in 1..Len(u)
    BY <1>2
  <1> QED
    BY <1>2, <1>3, <1>4 DEF NoQuery

\* One more message that is no part of an exchange goes down.
LEMMA PlainDown ==
  ASSUME NEW n \in Nat, NEW x \in ConnRecords(n), NEW y, NEW m \in DownMessages(n),
         m.type \notin Exchange, y.down = Append(x.down, m), y.todo = x.todo
  PROVE  /\ NoReply(x) => NoReply(y)
         /\ Refused(x) /\ NoQuery(y) => Refused(y)
         /\ \A q, parts : Coming(x, q, parts) /\ NoQuery(y) => Coming(y, q, parts)
  <1>1. x.down \in Seq(DownMessages(n))
    BY ConnFields
  <1>2. /\ Len(y.down) = Len(x.down) + 1 /\ y.down[Len(x.down) + 1] = m /\ Len(x.down) \in Nat
        /\ \A k \in 1..Len(x.down) : y.down[k] = x.down[k]
    BY <1>1, SeqPush
  <1>3. \A k \in 1..Len(y.down) : k \in 1..Len(x.down) \/ k = Len(x.down) + 1
    BY <1>2
  <1>4. NoReply(x) => NoReply(y)
    BY <1>2, <1>3 DEF NoReply
  <1>5. Refused(x) /\ NoQuery(y) => Refused(y)
    BY <1>2, <1>3 DEF Refused
  <1>6. ASSUME NEW q, NEW parts, Coming(x, q, parts), NoQuery(y)
        PROVE  Coming(y, q, parts)
    <2>1. PICK g \in [0..Len(x.down) -> 0..AnswerLen] : ComesBy(x, q, parts, g)
      BY <1>6 DEF Coming
    <2>2. Tracks(g, x.down, q)
      BY <2>1 DEF ComesBy
    <2> PICK r \in 0..AnswerLen : r = g[Len(x.down)]
      <3>1. Len(x.down) \in 0..Len(x.down)
        BY <1>2
      <3> QED
        BY <3>1
    <2>3. PICK h \in [0..Len(Append(x.down, m)) -> 0..AnswerLen] :
            Tracks(h, Append(x.down, m), q) /\ h[0] = g[0] /\ h[Len(Append(x.down, m))] = r
      <3>1. NextIs(m, q, g[Len(x.down)], r)
        BY DEF NextIs
      <3>2. TracksFrom(Append(x.down, m), q, g[0], r)
        BY <1>1, <2>2, <3>1, TracksAppend
      <3> QED
        BY <3>2 DEF TracksFrom
    <2>4. ComesBy(y, q, parts, h)
      BY <1>6, <2>1, <2>3 DEF ComesBy
    <2>5. h \in [0..Len(y.down) -> 0..AnswerLen]
      BY <2>3
    <2> QED
      BY <2>4, <2>5 DEF Coming
  <1> QED
    BY <1>4, <1>5, <1>6

\* What a query that the handler takes makes of its connection.
LEMMA QueryTaken ==
  ASSUME NEW n \in Nat, NEW x \in ConnRecords(n), NEW y, NEW q \in 1..n, NEW parts, NEW r,
         NoReply(x), parts = << >>, NoQuery(y),
         r = <<Message("error", q)>> \/ r = Answer(q),
         y.down = Append(x.down, Head(r)), y.todo = Tail(r)
  PROVE  Ongoing(y, q, parts)
  <1>0. /\ AnswerLen \in Nat /\ AnswerLen > 3 /\ Len(Answer(q)) = AnswerLen
        /\ Answer(q) \in Seq(DownMessages(n))
        /\ \A k \in 1..AnswerLen : Answer(q)[k].type \in Exchange
    BY AnswerParts, AnswerTypes
  <1>1. x.down \in Seq(DownMessages(n)) /\ \A k \in 1..Len(x.down) : x.down[k].type \notin Exchange
    BY ConnFields DEF NoReply
  <1> PICK l \in Nat : l = Len(x.down)
    BY <1>1
  <1>2. /\ Len(y.down) = l + 1 /\ y.down[l + 1] = Head(r)
        /\ \A k \in 1..l : y.down[k] = x.down[k]
    BY <1>1, SeqPush
  <1>3. CASE r = <<Message("error", q)>>
    <2>1. Head(r).type = "error" /\ y.todo = << >>
      BY <1>3 DEF Message
    <2>2. \A k \in 1..Len(y.down) : y.down[k].type \in Exchange => y.down[k].type = "error"
      <3> TAKE k \in 1..Len(y.down)
      <3>1. k \in 1..l \/ k = l + 1
        BY <1>2
      <3> QED
        BY <1>1, <1>2, <2>1, <3>1
    <2> QED
      BY <2>1, <2>2 DEF Ongoing, Refused
  <1>4. CASE r = Answer(q)
    <2>1. /\ Head(r) = Answer(q)[1] /\ Len(y.todo) = AnswerLen - 1 /\ Head(r) \in DownMessages(n)
          /\ \A k \in 1..(AnswerLen - 1) : y.todo[k] = Answer(q)[k + 1]
      <3>1. Answer(q) # << >>
        BY <1>0
      <3> QED
        BY <1>0, <1>4, <3>1, TailTypes
    <2>2. Rest(y.todo, q, 1)
      <3>1. \A k \in 1..(AnswerLen - 1) : k + 1 = 1 + k
        OBVIOUS
      <3> QED
        BY <1>0, <2>1, <3>1 DEF Rest
    <2> PICK g : g = [k \in 0..l |-> 0]
      OBVIOUS
    <2>3. g \in [0..l -> 0..AnswerLen] /\ \A k \in 0..l : g[k] = 0
      BY <1>0
    <2>4. Tracks(g, x.down, q)
      <3>1. \A k \in 1..l : k \in 0..l /\ k - 1 \in 0..l
        OBVIOUS
      <3> QED
        BY <1>1, <2>3, <3>1 DEF Tracks
    <2>5. PICK h \in [0..Len(Append(x.down, Head(r))) -> 0..AnswerLen] :
            /\ Tracks(h, Append(x.down, Head(r)), q) /\ h[0] = g[0]
            /\ h[Len(Append(x.down, Head(r)))] = 1
      <3>1. /\ 1 \in 0..AnswerLen /\ g[Len(x.down)] = 0 /\ Head(r).type \in Exchange
            /\ Head(r) = Answer(q)[1]
        <4>1. 1 \in 0..AnswerLen /\ 1 \in 1..AnswerLen /\ l \in 0..l
          BY <1>0
        <4> QED
          BY <1>0, <2>1, <2>3, <4>1
      <3>2. NextIs(Head(r), q, g[Len(x.down)], 1)
        BY <3>1 DEF NextIs
      <3>3. TracksFrom(Append(x.down, Head(r)), q, g[0], 1)
        BY <1>1, <2>1, <2>4, <3>1, <3>2, TracksAppend
      <3> QED
        BY <3>3 DEF TracksFrom
    <2>6. g[0] = 0 /\ Collected(parts, q, 0)
      <3>1. 0 \in 0..l /\ \A k : k \notin 1..Len(parts)
        OBVIOUS
      <3> QED
        BY <2>3, <3>1 DEF Collected
    <2>7. ComesBy(y, q, parts, h)
      BY <1>0, <2>2, <2>5, <2>6 DEF ComesBy
    <2> QED
      BY <2>5, <2>7 DEF Coming, Ongoing
  <1> QED
    BY <1>3, <1>4

LEMMA TakeContinues ==
  ASSUME NEW n \in Nat, NEW x \in ConnRecords(n), x.up # << >>, x.todo = << >>, NEW m, NEW r,
         m = Head(x.up), m \in UpMessages(n), r \in Seq(DownMessages(n)), r # << >>,
         m.type = "register" => r = <<Message("ack", 0)>>,
         m.type = "ping" => r = <<Message("pong", 0)>>,
         m.type = "query" => r = <<Message("error", m.query)>> \/ r = Answer(m.query)
  PROVE  Continues(x, ConnTake(x, r), n)
  <1> PICK y : y = ConnTake(x, r)
    OBVIOUS
  <1>1. y.up = Tail(x.up) /\ y.todo = Tail(r) /\ y.down = Append(x.down, Head(r))
    BY TakeFields
  <1>2. /\ Len(x.up) \in Nat \ {0} /\ Len(y.up) = Len(x.up) - 1
        /\ \A k \in 1..Len(y.up) : y.up[k] = x.up[k + 1] /\ k + 1 \in 1..Len(x.up)
        /\ NoQuery(x) => NoQuery(y) /\ m.type # "query"
        /\ m = x.up[1] /\ 1 \in 1..Len(x.up)
    BY <1>1, TailUp
  <1>3. m.type \in Requests
    BY DEF UpMessages
  <1>4. CASE m.type # "query"
    <2> PICK h : h = Head(r)
      OBVIOUS
    <2>1. h.type \notin Exchange /\ Tail(r) = << >> /\ h \in DownMessages(n)
      <3>1. r = <<Message("ack", 0)>> \/ r = <<Message("pong", 0)>>
        BY <1>3, <1>4 DEF Requests
      <3>2. h.type \in {"ack", "pong"} /\ Tail(r) = << >>
        <4>1. \A e : Head(<<e>>) = e /\ Tail(<<e>>) = << >>
          OBVIOUS
        <4>2. Message("ack", 0).type = "ack" /\ Message("pong", 0).type = "pong"
          BY DEF Message
        <4> QED
          BY <3>1, <4>1, <4>2
      <3> QED
        BY <3>2, TailTypes DEF Exchange
    <2>2. y.todo = x.todo /\ y.down = Append(x.down, h)
      BY <1>1, <2>1
    <2>3. /\ NoReply(x) => NoReply(y)
          /\ Refused(x) /\ NoQuery(y) => Refused(y)
          /\ \A q, parts : Coming(x, q, parts) /\ NoQuery(y) => Coming(y, q, parts)
      BY <2>1, <2>2, PlainDown
    <2>4. \A q, parts : Waiting(x, q, parts) => Waiting(y, q, parts)
      <3> TAKE q, parts
      <3> HAVE Waiting(x, q, parts)
      <3>1. /\ NoReply(x) /\ parts = << >>
            /\ \A k \in 1..Len(x.up) : x.up[k].type = "query" => x.up[k].query = q
            /\ \A j, k \in 1..Len(x.up) :
                 x.up[j].type = "query" /\ x.up[k].type = "query" => j = k
        BY DEF Waiting
      <3>2. \A k \in 1..Len(y.up) : y.up[k].type = "query" => y.up[k].query = q
        <4> TAKE k \in 1..Len(y.up)
        <4>1. y.up[k] = x.up[k + 1] /\ k + 1 \in 1..Len(x.up)
          BY <1>2
        <4> QED
          BY <3>1, <4>1
      <3>3. \A j, k \in 1..Len(y.up) :
                 y.up[j].type = "query" /\ y.up[k].type = "query" => j = k
        <4> TAKE j, k \in 1..Len(y.up)
        <4> HAVE y.up[j].type = "query" /\ y.up[k].type = "query"
        <4>1. j + 1 = k + 1
          BY <1>2, <3>1
        <4> QED
          BY <4>1
      <3> QED
        BY <2>3, <3>1, <3>2, <3>3 DEF Waiting
    <2>5. NoQuery(x) => NoQuery(y)
      BY <1>2
    <2>6. Silent(x) => Silent(y)
      BY <2>3, <2>5 DEF Silent
    <2>7. \A q, parts : Coming(x, q, parts) => NoQuery(x)
      BY DEF Coming, ComesBy
    <2>8. Refused(x) => NoQuery(x)
      BY DEF Refused
    <2>9. \A q, parts : Ongoing(x, q, parts) => Ongoing(y, q, parts)
      BY <2>3, <2>4, <2>5, <2>7, <2>8 DEF Ongoing
    <2> QED
      BY <2>6, <2>9 DEF Continues
  <1>5. CASE m.type = "query"
    <2>1. ~ NoQuery(x)
      BY <1>2, <1>5
    <2>2. ASSUME NEW q \in 1..n, NEW parts, Ongoing(x, q, parts)
          PROVE  Ongoing(y, q, parts)
      <3>1. Waiting(x, q, parts)
        BY <2>1, <2>2 DEF Ongoing, Coming, ComesBy, Refused
      <3>2. NoReply(x) /\ parts = << >> /\ m.query = q
        BY <1>2, <1>5, <3>1 DEF Waiting
      <3>3. NoQuery(y)
        <4> SUFFICES ASSUME NEW k \in 1..Len(y.up), y.up[k].type = "query" PROVE FALSE
          BY DEF NoQuery
        <4>1. x.up[k + 1].type = "query" /\ x.up[1].type = "query" /\ k + 1 \in 1..Len(x.up)
              /\ 1 \in 1..Len(x.up)
          BY <1>2, <1>5
        <4>2. k + 1 = 1
          BY <3>1, <4>1 DEF Waiting
        <4> QED
          BY <4>2
      <3>4. r = <<Message("error", q)>> \/ r = Answer(q)
        BY <1>5, <3>2
      <3> QED
        BY <1>1, <3>2, <3>3, <3>4, QueryTaken
    <2>3. ~ Silent(x)
      BY <2>1 DEF Silent
    <2> QED
      BY <2>2, <2>3 DEF Continues
  <1> QED
    BY <1>4, <1>5

\* The next message that the handler sends of an answer, and the rest.
LEMMA RestNext ==
  ASSUME NEW n \in Nat, NEW todo \in Seq(DownMessages(n)), todo # << >>, NEW q \in 1..n,
         NEW r \in 0..AnswerLen, Rest(todo, q, r)
  PROVE  /\ r + 1 \in 0..AnswerLen /\ Head(todo) \in DownMessages(n)
         /\ NextIs(Head(todo), q, r, r + 1) /\ Rest(Tail(todo), q, r + 1)
  <1>1. /\ r < AnswerLen /\ Len(todo) = AnswerLen - r
        /\ \A k \in 1..(AnswerLen - r) : todo[k] = Answer(q)[r + k]
    BY DEF Rest
  <1>2. AnswerLen \in Nat /\ \A k \in 1..AnswerLen : Answer(q)[k].type \in Exchange
    BY AnswerParts, AnswerTypes
  <1>3. /\ Head(todo) \in DownMessages(n) /\ Head(todo) = todo[1] /\ Len(Tail(todo)) = Len(todo) - 1
        /\ \A k \in 1..(Len(todo) - 1) : Tail(todo)[k] = todo[k + 1]
        /\ Tail(todo) \in Seq(DownMessages(n))
    BY TailTypes
  <1>4. r + 1 \in 1..AnswerLen /\ r + 1 \in 0..AnswerLen /\ 1 \in 1..(AnswerLen - r)
    BY <1>1, <1>2
  <1>5. NextIs(Head(todo), q, r, r + 1)
    BY <1>1, <1>2, <1>3, <1>4 DEF NextIs
  <1>6. CASE r + 1 = AnswerLen
    <2> PICK t \in Seq(DownMessages(n)) : t = Tail(todo)
      BY <1>3
    <2>0. Len(t) = Len(todo) - 1 /\ Len(todo) = AnswerLen - r /\ r \in Nat /\ AnswerLen \in Nat
      BY <1>1, <1>2, <1>3
    <2>1. Len(t) = 0
      <3>1. \A u, v, a, b : u = v - 1 /\ v = a - b /\ b \in Nat /\ a \in Nat /\ b + 1 = a => u = 0
        OBVIOUS
      <3> QED
        BY <1>6, <2>0, <3>1, Zenon
    <2>2. Tail(todo) = << >>
      <3>1. t = << >>
        BY <2>1
      <3> QED
        BY <3>1
    <2> QED
      BY <1>3, <1>4, <1>5, <2>2 DEF Rest
  <1>7. CASE r + 1 # AnswerLen
    <2>1. r + 1 < AnswerLen /\ Len(Tail(todo)) = AnswerLen - (r + 1)
      BY <1>1, <1>2, <1>3, <1>7
    <2>2. \A k \in 1..(AnswerLen - (r + 1)) : Tail(todo)[k] = Answer(q)[(r + 1) + k]
      <3> TAKE k \in 1..(AnswerLen - (r + 1))
      <3>1. k \in 1..(Len(todo) - 1) /\ k + 1 \in 1..(AnswerLen - r) /\ r + (k + 1) = (r + 1) + k
        BY <1>1, <1>2
      <3> QED
        BY <1>1, <1>3, <3>1
    <2> QED
      BY <1>3, <1>4, <1>5, <2>1, <2>2 DEF Rest
  <1> QED
    BY <1>6, <1>7

LEMMA ReplyContinues ==
  ASSUME NEW n \in Nat, NEW x \in ConnRecords(n), x.todo # << >>
  PROVE  Continues(x, ConnReply(x), n)
  <1> PICK y : y = ConnReply(x)
    OBVIOUS
  <1>1. y.up = x.up /\ y.todo = Tail(x.todo) /\ y.down = Append(x.down, Head(x.todo))
    BY ReplyFields
  <1>2. ~ NoReply(x) /\ ~ Refused(x)
    BY DEF NoReply, Refused
  <1>3. ASSUME NEW q \in 1..n, NEW parts, Ongoing(x, q, parts)
        PROVE  Coming(y, q, parts)
    <2>1. Coming(x, q, parts)
      BY <1>2, <1>3 DEF Ongoing, Waiting
    <2>2. PICK g \in [0..Len(x.down) -> 0..AnswerLen] : ComesBy(x, q, parts, g)
      BY <2>1 DEF Coming
    <2>3. x.down \in Seq(DownMessages(n)) /\ x.todo \in Seq(DownMessages(n))
      BY ConnFields
    <2>4. g[Len(x.down)] \in 0..AnswerLen
      <3>1. Len(x.down) \in 0..Len(x.down)
        BY <2>3
      <3> QED
        BY <3>1
    <2> PICK r \in 0..AnswerLen : r = g[Len(x.down)]
      BY <2>4
    <2>5. Tracks(g, x.down, q) /\ Rest(x.todo, q, r)
      BY <2>2 DEF ComesBy
    <2>6. /\ r + 1 \in 0..AnswerLen /\ Head(x.todo) \in DownMessages(n)
          /\ NextIs(Head(x.todo), q, r, r + 1) /\ Rest(Tail(x.todo), q, r + 1)
      BY <2>3, <2>5, RestNext
    <2>7. TracksFrom(Append(x.down, Head(x.todo)), q, g[0], r + 1)
      BY <2>3, <2>5, <2>6, TracksAppend
    <2>8. PICK h \in [0..Len(y.down) -> 0..AnswerLen] :
            Tracks(h, y.down, q) /\ h[0] = g[0] /\ h[Len(y.down)] = r + 1
      BY <1>1, <2>7 DEF TracksFrom
    <2>9. NoQuery(y) /\ g[0] < AnswerLen /\ Collected(parts, q, g[0])
      BY <1>1, <2>2 DEF ComesBy, NoQuery
    <2>10. ComesBy(y, q, parts, h)
      BY <1>1, <2>6, <2>8, <2>9 DEF ComesBy
    <2> QED
      BY <2>10 DEF Coming
  <1> QED
    BY <1>2, <1>3 DEF Continues, Silent, Ongoing

\* A connection whose handler ends, is noticed to have ended or is closed, and one
\* on which something that is no query is sent.
LEMMA LessContinues ==
  ASSUME NEW n \in Nat, NEW x \in ConnRecords(n), NEW y,
         y.down = x.down, y.todo = x.todo \/ y.todo = << >>, y.up = x.up \/ y.up = << >>
  PROVE  Continues(x, y, n)
  <1>1. NoQuery(x) => NoQuery(y)
    BY DEF NoQuery
  <1>2. NoReply(x) => NoReply(y)
    BY DEF NoReply
  <1>3. Refused(x) => Refused(y)
    BY <1>1 DEF Refused
  <1>4. \A q, parts : Waiting(x, q, parts) => Waiting(y, q, parts)
    <2>1. \A k : k \notin 1..Len(<< >>)
      OBVIOUS
    <2> QED
      BY <1>2, <2>1 DEF Waiting
  <1>5. \A q, parts, g : ComesBy(x, q, parts, g) => ComesBy(y, q, parts, g)
    BY <1>1 DEF ComesBy, Rest
  <1>6. \A q, parts : Coming(x, q, parts) => Coming(y, q, parts)
    BY <1>5 DEF Coming
  <1> QED
    BY <1>1, <1>2, <1>3, <1>4, <1>6 DEF Continues, Silent, Ongoing

LEMMA SendContinues ==
  ASSUME NEW n \in Nat, NEW x \in ConnRecords(n), NEW y, NEW m, m.type # "query",
         y.down = x.down, y.todo = x.todo, y.up = Append(x.up, m)
  PROVE  Continues(x, y, n)
  <1>1. x.up \in Seq(UpMessages(n))
    BY ConnFields
  <1>2. /\ Len(y.up) = Len(x.up) + 1 /\ y.up[Len(x.up) + 1] = m /\ Len(x.up) \in Nat
        /\ \A k \in 1..Len(x.up) : y.up[k] = x.up[k]
    BY <1>1, SeqPush
  <1>3. \A k \in 1..Len(y.up) : y.up[k].type = "query" => k \in 1..Len(x.up) /\ y.up[k] = x.up[k]
    BY <1>2
  <1>4. NoQuery(x) => NoQuery(y)
    BY <1>3 DEF NoQuery
  <1>5. NoReply(x) => NoReply(y)
    BY DEF NoReply
  <1>6. Refused(x) => Refused(y)
    BY <1>4 DEF Refused
  <1>7. \A q, parts : Waiting(x, q, parts) => Waiting(y, q, parts)
    BY <1>3, <1>5 DEF Waiting
  <1>8. \A q, parts, g : ComesBy(x, q, parts, g) => ComesBy(y, q, parts, g)
    BY <1>4 DEF ComesBy
  <1>9. \A q, parts : Coming(x, q, parts) => Coming(y, q, parts)
    BY <1>8 DEF Coming
  <1> QED
    BY <1>4, <1>5, <1>6, <1>7, <1>9 DEF Continues, Silent, Ongoing

\* A query that is sent on a silent connection.
LEMMA QuerySent ==
  ASSUME NEW n \in Nat, NEW x \in ConnRecords(n), NEW y, NEW m, NEW q, m.query = q,
         y.down = x.down, y.todo = x.todo, y.up = Append(x.up, m) \/ y.up = x.up, Silent(x)
  PROVE  Ongoing(y, q, << >>)
  <1>1. x.up \in Seq(UpMessages(n))
    BY ConnFields
  <1>2. NoReply(y)
    BY DEF NoReply, Silent
  <1>3. CASE y.up = x.up
    BY <1>2, <1>3 DEF Ongoing, Waiting, Silent, NoQuery
  <1>4. CASE y.up = Append(x.up, m)
    <2>1. /\ Len(y.up) = Len(x.up) + 1 /\ y.up[Len(x.up) + 1] = m /\ Len(x.up) \in Nat
          /\ \A k \in 1..Len(x.up) : y.up[k] = x.up[k]
      BY <1>1, <1>4, SeqPush
    <2>2. \A k \in 1..Len(y.up) : y.up[k].type = "query" => k = Len(x.up) + 1
      <3> TAKE k \in 1..Len(y.up)
      <3>1. k \in 1..Len(x.up) \/ k = Len(x.up) + 1
        BY <2>1
      <3> QED
        BY <2>1, <3>1 DEF Silent, NoQuery
    <2> QED
      BY <1>2, <2>1, <2>2 DEF Ongoing, Waiting
  <1> QED
    BY <1>3, <1>4

\* The application receives the next message.  What that makes of the query.
LEMMA CollectContinues ==
  ASSUME NEW n \in Nat, NEW x \in ConnRecords(n), x.down # << >>, NEW m, m = Head(x.down),
         NEW c \in Nat, NEW a \in AskedRecords(c, n), NEW q \in 1..n, Ongoing(x, q, a.parts)
  PROVE  /\ m.type = "stream_end" =>
              Silent(ConnPop(x)) /\ AskNext(a, m).parts = OwnParts(q)
         /\ m.type \notin {"stream_end", "error"} =>
              Ongoing(ConnPop(x), q, AskNext(a, m).parts)
  <1> PICK y : y = ConnPop(x)
    OBVIOUS
  <1> PICK b : b = AskNext(a, m)
    OBVIOUS
  <1>1. y.down = Tail(x.down) /\ y.up = x.up /\ y.todo = x.todo
    BY PopFields
  <1>2. /\ x.down \in Seq(DownMessages(n)) /\ m \in DownMessages(n) /\ m = x.down[1]
        /\ Len(x.down) \in Nat \ {0} /\ Len(y.down) = Len(x.down) - 1
        /\ \A k \in 1..(Len(x.down) - 1) : y.down[k] = x.down[k + 1]
    BY <1>1, ConnFields, TailTypes
  <1>3. /\ 1 \in 1..Len(x.down)
        /\ \A k \in 1..Len(y.down) : y.down[k] = x.down[k + 1] /\ k + 1 \in 1..Len(x.down)
    BY <1>2
  <1>4. /\ b.parts = IF m.type = "stream_delta" THEN Append(a.parts, m.query) ELSE a.parts
        /\ a.parts \in Seq(1..n)
    <2>1. a.parts \in Seq(1..n)
      BY DEF AskedRecords
    <2>2. m \in DownMessages(n)
      BY <1>2
    <2>3. AskNext(a, m).parts = IF m.type = "stream_delta" THEN Append(a.parts, m.query) ELSE a.parts
      BY <2>2, AskFields, Zenon
    <2> QED
      BY <2>1, <2>3
  <1>5. NoQuery(x) => NoQuery(y)
    BY <1>1 DEF NoQuery
  <1>6. CASE Waiting(x, q, a.parts)
    <2>1. NoReply(x)
      BY <1>6 DEF Waiting
    <2>2. m.type \notin Exchange
      BY <1>2, <1>3, <2>1 DEF NoReply
    <2>3. m.type \notin {"stream_end", "stream_delta"}
      BY <2>2 DEF Exchange, Replies
    <2>4. NoReply(y)
      BY <1>1, <1>3, <2>1 DEF NoReply
    <2> QED
      BY <1>1, <1>4, <1>6, <2>3, <2>4 DEF Waiting, Ongoing
  <1>7. CASE Refused(x)
    <2>1. m.type \in Exchange => m.type = "error"
      BY <1>2, <1>3, <1>7 DEF Refused
    <2>2. m.type \notin {"stream_end", "stream_delta"}
      BY <2>1 DEF Exchange, Replies
    <2>3. Refused(y)
      BY <1>1, <1>3, <1>5, <1>7 DEF Refused
    <2> QED
      BY <2>2, <2>3 DEF Ongoing
  <1>8. CASE Coming(x, q, a.parts)
    <2>1. PICK g \in [0..Len(x.down) -> 0..AnswerLen] : ComesBy(x, q, a.parts, g)
      BY <1>8 DEF Coming
    <2>2. /\ NoQuery(x) /\ Tracks(g, x.down, q) /\ Rest(x.todo, q, g[Len(x.down)])
          /\ g[0] < AnswerLen /\ Collected(a.parts, q, g[0])
      BY <2>1 DEF ComesBy
    <2>3. /\ TracksFrom(Tail(x.down), q, g[1], g[Len(x.down)])
          /\ g[0] \in 0..AnswerLen /\ g[1] \in 0..AnswerLen
          /\ NextIs(m, q, g[0], g[1])
      BY <1>2, <2>2, TracksTail
    <2>4. PICK h \in [0..Len(y.down) -> 0..AnswerLen] :
            Tracks(h, y.down, q) /\ h[0] = g[1] /\ h[Len(y.down)] = g[Len(x.down)]
      BY <1>1, <2>3 DEF TracksFrom
    <2> PICK r \in 0..AnswerLen, i \in 0..AnswerLen : r = g[0] /\ i = g[1]
      BY <2>3
    <2>5. /\ r < AnswerLen /\ Collected(a.parts, q, r)
          /\ m.type \in Exchange => i = r + 1 /\ m = Answer(q)[i]
          /\ m.type \notin Exchange => i = r
      BY <2>2, <2>3 DEF NextIs
    <2>6. AnswerLen \in Nat /\ AnswerLen > 3 /\ AnswerLen = Sentences + 3 /\ Sentences \in Nat
      BY AnswerParts, BoundsAreNat DEF AnswerLen
    <2>7. CASE m.type \notin Exchange
      <3>1. m.type \notin {"stream_end", "stream_delta"}
        BY <2>7 DEF Exchange, Replies
      <3>2. ComesBy(y, q, b.parts, h)
        BY <1>1, <1>4, <1>5, <2>2, <2>4, <2>5, <2>7, <3>1 DEF ComesBy
      <3> QED
        BY <3>1, <3>2 DEF Coming, Ongoing
    <2>8. CASE m.type \in Exchange
      <3>1. i = r + 1 /\ m = Answer(q)[i] /\ i \in 1..AnswerLen
        BY <2>5, <2>6, <2>8
      <3>2. CASE i = AnswerLen
        <4>1. m.type = "stream_end"
          <5>1. m = Message("stream_end", q)
            BY <3>1, <3>2, AnswerParts
          <5> QED
            BY <5>1 DEF Message
        <4>2. b.parts = a.parts
          BY <1>4, <4>1
        <4>3. Len(a.parts) = Sentences /\ \A k \in 1..Sentences : a.parts[k] = q
          <5>1. ~ (r <= 2) /\ r - 2 = Sentences
            BY <2>6, <3>1, <3>2
          <5>2. Len(a.parts) = r - 2 /\ \A k \in 1..Len(a.parts) : a.parts[k] = q
            BY <2>5, <5>1 DEF Collected
          <5> QED
            BY <5>1, <5>2
        <4>4. a.parts = OwnParts(q)
          <5>1. a.parts = [k \in 1..Sentences |-> a.parts[k]]
            BY <1>4, <4>3
          <5> QED
            BY <4>3, <5>1 DEF OwnParts
        <4>5. \A k \in 0..Len(y.down) : h[k] = AnswerLen
          <5> TAKE k \in 0..Len(y.down)
          <5>1. h[0] <= h[k] /\ h[k] \in 0..AnswerLen
            <6>1. 0 \in 0..Len(y.down) /\ 0 <= k
              BY <1>2
            <6> QED
              BY <2>4, <6>1 DEF Tracks
          <5> QED
            BY <2>4, <2>6, <3>2, <5>1
        <4>6. \A k \in 1..Len(y.down) : y.down[k].type \notin Exchange
          <5> TAKE k \in 1..Len(y.down)
          <5>1. h[k] = AnswerLen /\ h[k - 1] = AnswerLen
            <6>1. k \in 0..Len(y.down) /\ k - 1 \in 0..Len(y.down)
              BY <1>2
            <6> QED
              BY <4>5, <6>1
          <5>2. AnswerLen # AnswerLen + 1
            BY <2>6
          <5> QED
            BY <2>4, <5>1, <5>2 DEF Tracks
        <4>7. y.todo = << >>
          <5>1. Len(y.down) \in 0..Len(y.down)
            BY <1>2
          <5>2. g[Len(x.down)] = AnswerLen
            BY <2>4, <4>5, <5>1
          <5>3. ~ (AnswerLen < AnswerLen)
            BY <2>6
          <5> QED
            BY <1>1, <2>2, <5>2, <5>3 DEF Rest
        <4>8. Silent(y)
          BY <1>5, <2>2, <4>6, <4>7 DEF Silent, NoReply
        <4> QED
          BY <4>1, <4>2, <4>4, <4>8
      <3>3. CASE i # AnswerLen
        <4>1. i < AnswerLen
          BY <2>6, <3>1, <3>3
        <4>2. Collected(b.parts, q, i) /\ m.type \notin {"stream_end", "error"}
          <5>1. CASE i \in {1, 2}
            <6>1. m = Message("state", q) \/ m = Message("stream_start", q)
              BY <3>1, <5>1, AnswerParts
            <6>2. m.type \in {"state", "stream_start"}
              BY <6>1 DEF Message
            <6>3. r <= 2 /\ i <= 2
              BY <3>1, <5>1
            <6> QED
              BY <1>4, <2>5, <6>2, <6>3 DEF Collected
          <5>2. CASE i \notin {1, 2}
            <6>1. i \in 3..(AnswerLen - 1)
              BY <2>6, <3>1, <4>1, <5>2
            <6>2. m = Message("stream_delta", q)
              BY <3>1, <6>1, AnswerParts
            <6>3. m.type = "stream_delta" /\ m.query = q
              BY <6>2 DEF Message
            <6>4. b.parts = Append(a.parts, q)
              BY <1>4, <6>3
            <6>5. Len(a.parts) = i - 3 /\ \A k \in 1..Len(a.parts) : a.parts[k] = q
              <7>1. (r <= 2 => i - 3 = 0) /\ (~ (r <= 2) => i - 3 = r - 2)
                BY <3>1, <6>1
              <7> QED
                BY <2>5, <7>1 DEF Collected
            <6>6. /\ Len(b.parts) = (i - 3) + 1 /\ b.parts[(i - 3) + 1] = q
                  /\ \A k \in 1..(i - 3) : b.parts[k] = q
              <7> PICK p : p = a.parts
                OBVIOUS
              <7>1. /\ Len(Append(p, q)) = Len(p) + 1 /\ Append(p, q)[Len(p) + 1] = q
                    /\ \A k \in 1..Len(p) : Append(p, q)[k] = p[k]
                BY <1>4, SeqPush
              <7>2. b.parts = Append(p, q) /\ Len(p) = i - 3 /\ \A k \in 1..Len(p) : p[k] = q
                BY <6>4, <6>5
              <7> QED
                BY <7>1, <7>2
            <6>7. Len(b.parts) = i - 2 /\ ~ (i <= 2)
              BY <6>1, <6>6
            <6>8. \A k \in 1..Len(b.parts) : b.parts[k] = q
              <7> TAKE k \in 1..Len(b.parts)
              <7>1. k \in 1..(i - 3) \/ k = (i - 3) + 1
                BY <6>1, <6>7
              <7> QED
                BY <6>6, <7>1
            <6> QED
              BY <6>3, <6>7, <6>8 DEF Collected
          <5> QED
            BY <5>1, <5>2
        <4>3. ComesBy(y, q, b.parts, h)
          BY <1>1, <1>5, <2>2, <2>4, <4>1, <4>2 DEF ComesBy
        <4> QED
          BY <4>2, <4>3 DEF Coming, Ongoing
      <3> QED
        BY <3>2, <3>3
    <2> QED
      BY <2>7, <2>8
  <1> QED
    BY <1>6, <1>7, <1>8 DEF Ongoing

---------------------------------------------------------------------------
(* A query's complete answer is its own.                                     *)

\* On a connection on which every query has returned its answer nothing of an
\* exchange is left.
AllReturned(c) == \A q \in Queries : asked[q].on = c => asked[q].complete
SilentInv == \A c \in Conns : AllReturned(c) => Silent(conns[c])

\* While the application collects, nobody else receives from its connection, and if
\* the earlier queries on it have returned, what is on its way is the query or
\* its answer.
EarlierReturned == \A p \in 1..(Current - 1) : asked[p].on = ws => asked[p].complete
AnswerInv ==
  app = "answer" =>
    /\ asked[Current].on = ws /\ ~ asked[Current].complete
    /\ \A t \in Tasks : ~ PingReceives(t, ws)
    /\ EarlierReturned => Ongoing(conns[ws], Current, asked[Current].parts)

OwnInv == SessTypes /\ SilentInv /\ AnswerInv /\ OwnAnswer

LEMMA PopSilent ==
  ASSUME NEW n \in Nat, NEW x \in ConnRecords(n), x.down # << >>, Silent(x)
  PROVE  Silent(ConnPop(x))
  <1> PICK y : y = ConnPop(x)
    OBVIOUS
  <1>1. y.down = Tail(x.down) /\ y.up = x.up /\ y.todo = x.todo
    BY PopFields
  <1>2. /\ Len(x.down) \in Nat \ {0} /\ Len(y.down) = Len(x.down) - 1
        /\ \A k \in 1..(Len(x.down) - 1) : y.down[k] = x.down[k + 1]
    BY <1>1, ConnFields, TailTypes
  <1>3. \A k \in 1..Len(y.down) : y.down[k] = x.down[k + 1] /\ k + 1 \in 1..Len(x.down)
    BY <1>2
  <1> QED
    BY <1>1, <1>3 DEF Silent, NoQuery, NoReply

LEMMA NewSilent == Silent(NewConn)
  <1>1. /\ NewConn.up = <<Message("register", 0)>> /\ NewConn.todo = << >>
        /\ NewConn.down = << >> /\ Message("register", 0).type = "register"
    BY DEF NewConn, Message
  <1>2. NoQuery(NewConn)
    <2>1. \A k \in 1..Len(NewConn.up) : NewConn.up[k] = Message("register", 0)
      BY <1>1
    <2> QED
      BY <1>1, <2>1 DEF NoQuery
  <1>3. \A k : k \notin 1..Len(NewConn.down)
    BY <1>1
  <1> QED
    BY <1>1, <1>2, <1>3 DEF Silent, NoReply

\* A step that changes no query and takes nothing from the answer that is awaited.
LEMMA OwnStays ==
  ASSUME OwnInv, SessTypes', asked' = asked, Len(conns') = Len(conns),
         \A c \in Conns : Silent(conns[c]) => Silent(conns'[c]),
         app' = "answer" =>
           /\ app = "answer" /\ ws' = ws
           /\ \A t \in Tasks' : ~ PingReceives(t, ws)'
           /\ \A q \in Queries : \A parts : Ongoing(conns[ws], q, parts) => Ongoing(conns'[ws], q, parts)
  PROVE  OwnInv'
  <1>1. Conns' = Conns /\ Queries' = Queries /\ Current' = Current
    BY DEF OwnInv, SessTypes, Conns, Queries, Current
  <1>2. \A c : AllReturned(c)' <=> AllReturned(c)
    BY <1>1 DEF AllReturned
  <1>3. SilentInv'
    BY <1>1, <1>2 DEF OwnInv, SilentInv
  <1>4. OwnAnswer'
    BY <1>1 DEF OwnInv, OwnAnswer
  <1>5. AnswerInv'
    <2> SUFFICES ASSUME app' = "answer"
                 PROVE  /\ asked'[Current'].on = ws' /\ ~ asked'[Current'].complete
                        /\ \A t \in Tasks' : ~ PingReceives(t, ws)'
                        /\ EarlierReturned' => Ongoing(conns'[ws'], Current', asked'[Current'].parts)
      BY DEF AnswerInv
    <2>1. EarlierReturned' <=> EarlierReturned
      BY <1>1 DEF EarlierReturned
    <2>2. Current \in Queries
      BY DEF OwnInv, SessTypes, Queries, Current
    <2> QED
      BY <1>1, <2>1, <2>2 DEF OwnInv, AnswerInv
  <1> QED
    BY <1>3, <1>4, <1>5 DEF OwnInv

\* A step on one connection.
LEMMA OwnConn ==
  ASSUME OwnInv, SessTypes', asked' = asked, NEW c \in Conns, NEW x \in ConnRecords(Len(asked)),
         conns' = [conns EXCEPT ![c] = x], x.served => x.open, Silent(conns[c]) => Silent(x),
         app' = "answer" =>
           /\ app = "answer" /\ ws' = ws
           /\ c = ws => Continues(conns[c], x, Len(asked))
           /\ \A t \in Tasks' : ~ PingReceives(t, ws)'
  PROVE  OwnInv'
  <1>0. SessTypes
    BY DEF OwnInv
  <1>1. Len(conns') = Len(conns) /\ conns'[c] = x /\ \A d \in Conns : d # c => conns'[d] = conns[d]
    BY <1>0, ConnSet
  <1>2. \A d \in Conns : Silent(conns[d]) => Silent(conns'[d])
    BY <1>1
  <1>3. ASSUME app' = "answer", NEW q \in Queries, NEW parts, Ongoing(conns[ws], q, parts)
        PROVE  Ongoing(conns'[ws], q, parts)
    <2>1. ws \in Conns /\ q \in 1..Len(asked)
      BY <1>0, <1>3 DEF SessTypes, Conns, Queries
    <2>2. CASE c = ws
      <3>1. Continues(conns[c], x, Len(asked))
        BY <1>3, <2>2
      <3> QED
        BY <1>1, <1>3, <2>1, <2>2, <3>1 DEF Continues
    <2>3. CASE c # ws
      BY <1>1, <1>3, <2>1, <2>3
    <2> QED
      BY <2>2, <2>3
  <1> QED
    BY <1>1, <1>2, <1>3, OwnStays

LEMMA OwnConnStep ==
  ASSUME OwnInv, NEW c \in Conns, ConnStep(c)
  PROVE  OwnInv'
  <1>0. SessTypes /\ SessTypes' /\ Len(asked) \in Nat /\ conns[c] \in ConnRecords(Len(asked))
    BY SessTypesConn, ConnStepIs DEF OwnInv, SessTypes
  <1>1. UNCHANGED <<app, satVars, pings, sent, asked, daemon, mixed>>
    BY DEF ConnStep, Take, Reply, HandlerFails, HangUp, Notice
  <1>2. \E x \in ConnRecords(Len(asked)) :
          /\ conns' = [conns EXCEPT ![c] = x] /\ Continues(conns[c], x, Len(asked))
    <2>1. CASE Take(c)
      <3>1. PICK m \in UpMessages(Len(asked)), r \in Seq(DownMessages(Len(asked))) :
              /\ m = Head(conns[c].up) /\ r = reply(c, m) /\ r # << >>
              /\ conns[c].up # << >> /\ conns[c].todo = << >> /\ conns[c].served
              /\ conns' = [conns EXCEPT ![c] = ConnTake(conns[c], r)]
              /\ ConnTake(conns[c], r) \in ConnRecords(Len(asked))
              /\ ConnTake(conns[c], r).served = conns[c].served
              /\ ConnTake(conns[c], r).open = conns[c].open
        BY <1>0, <2>1, TakeIs
      <3>2. /\ m.type = "register" => r = <<Message("ack", 0)>>
            /\ m.type = "ping" => r = <<Message("pong", 0)>>
            /\ m.type = "query" => r = <<Message("error", m.query)>> \/ r = Answer(m.query)
        BY <1>0, <3>1, ReplyTypes
      <3>3. Continues(conns[c], ConnTake(conns[c], r), Len(asked))
        BY <1>0, <3>1, <3>2, TakeContinues
      <3> QED
        BY <3>1, <3>3
    <2>2. CASE Reply(c)
      <3>1. /\ conns[c].todo # << >> /\ ConnReply(conns[c]) \in ConnRecords(Len(asked))
            /\ conns' = [conns EXCEPT ![c] = ConnReply(conns[c])]
        BY <1>0, <2>2, ConnStepIs
      <3>2. Continues(conns[c], ConnReply(conns[c]), Len(asked))
        BY <1>0, <3>1, ReplyContinues
      <3> QED
        BY <3>1, <3>2
    <2>3. CASE HandlerFails(c) \/ HangUp(c)
      <3>1. /\ ConnEnd(conns[c]) \in ConnRecords(Len(asked))
            /\ conns' = [conns EXCEPT ![c] = ConnEnd(conns[c])]
        BY <1>0, <2>3, ConnStepIs
      <3>2. Continues(conns[c], ConnEnd(conns[c]), Len(asked))
        BY <1>0, EndFields, LessContinues
      <3> QED
        BY <3>1, <3>2
    <2>4. CASE Notice(c)
      <3>1. /\ ConnNotice(conns[c]) \in ConnRecords(Len(asked))
            /\ conns' = [conns EXCEPT ![c] = ConnNotice(conns[c])]
        BY <1>0, <2>4, ConnStepIs
      <3>2. Continues(conns[c], ConnNotice(conns[c]), Len(asked))
        BY <1>0, EndFields, LessContinues
      <3> QED
        BY <3>1, <3>2
    <2> QED
      BY <2>1, <2>2, <2>3, <2>4 DEF ConnStep
  <1>3. PICK x \in ConnRecords(Len(asked)) :
          /\ conns' = [conns EXCEPT ![c] = x] /\ Continues(conns[c], x, Len(asked))
    BY <1>2
  <1>4. x.served => x.open
    <2>1. conns'[c] = x /\ c \in Conns'
      BY <1>0, <1>3 DEF SessTypes, Conns
    <2> QED
      BY <1>0, <2>1 DEF SessTypes
  <1>5. app' = "answer" =>
          /\ app = "answer" /\ ws' = ws /\ \A t \in Tasks' : ~ PingReceives(t, ws)'
    BY <1>1 DEF satVars, OwnInv, AnswerInv, PingReceives, Tasks
  <1>6. Silent(conns[c]) => Silent(x)
    BY <1>3 DEF Continues
  <1> QED
    BY <1>0, <1>1, <1>3, <1>4, <1>5, <1>6, OwnConn

LEMMA OwnPing ==
  ASSUME OwnInv, NEW t \in Tasks, PingStep(t)
  PROVE  OwnInv'
  <1>0. SessTypes /\ SessTypes' /\ Len(asked) \in Nat
    BY SessTypesPing DEF OwnInv, SessTypes
  <1>1. UNCHANGED <<app, satVars, asked, daemon>>
    BY DEF PingStep, PingSend, PingUnsent, PingBeginReceive, PingRefused, PingReceive, PingTimeout,
           PingLost
  <1>2. /\ Tasks' = Tasks /\ \A u \in Tasks : u # t => pings'[u] = pings[u]
        /\ pings[t].state = "receives" => pings[t].on \in Conns
        /\ pings'[t].state = "receives" => PingBeginReceive(t)
    <2>1. \E state, next, c : /\ PingIs(t, state, next, c) /\ c \in 0..Len(conns)
                             /\ next \in {"sleeps", "sends", "receives", "failed", "cancelled"}
                             /\ (next \in {"sends", "receives"} => c # 0)
                             /\ (next = "receives" => PingBeginReceive(t))
      <3>1. ws \in 0..Len(conns) /\ 0 \in 0..Len(conns)
        BY <1>0 DEF SessTypes
      <3>2. CASE PingSend(t)
        BY <3>1, <3>2 DEF PingSend, Send, SocketOpen
      <3>3. CASE PingUnsent(t)
        BY <3>1, <3>3 DEF PingUnsent
      <3>4. CASE PingBeginReceive(t)
        <4>1. PingIs(t, "sends", "receives", ws) /\ ws # 0
          BY <3>4 DEF PingBeginReceive, SocketFree
        <4> QED
          BY <3>1, <3>4, <4>1
      <3>5. CASE PingRefused(t)
        BY <3>1, <3>5 DEF PingRefused
      <3>6. CASE PingReceive(t)
        BY <3>1, <3>6 DEF PingReceive
      <3>7. CASE PingTimeout(t)
        BY <3>1, <3>7 DEF PingTimeout
      <3>8. CASE PingLost(t)
        BY <3>1, <3>8 DEF PingLost
      <3> QED
        BY <3>2, <3>3, <3>4, <3>5, <3>6, <3>7, <3>8 DEF PingStep
    <2>2. PICK state, next, c : /\ PingIs(t, state, next, c) /\ c \in 0..Len(conns)
                             /\ next \in {"sleeps", "sends", "receives", "failed", "cancelled"}
                             /\ (next \in {"sends", "receives"} => c # 0)
                             /\ (next = "receives" => PingBeginReceive(t))
      BY <2>1
    <2>3. /\ Tasks' = Tasks /\ pings'[t].state = next
          /\ \A u \in Tasks : u # t => pings'[u] = pings[u]
          /\ pings[t].state \in {"sends", "receives"} => pings[t].on \in Conns
      BY <1>0, <2>2, PingIsIs
    <2> QED
      BY <2>2, <2>3
  <1>3. PingBeginReceive(t) => app # "answer"
    <2>1. PingBeginReceive(t) => ~ AppReceives(ws)
      BY DEF PingBeginReceive, SocketFree, Busy
    <2> QED
      BY <2>1 DEF AppReceives
  <1>4. app' = "answer" =>
          /\ app = "answer" /\ ws' = ws /\ \A u \in Tasks' : ~ PingReceives(u, ws)'
    <2> SUFFICES ASSUME app' = "answer", NEW u \in Tasks, PingReceives(u, ws)' PROVE FALSE
      BY <1>1, <1>2 DEF satVars
    <2>1. app = "answer" /\ ws' = ws /\ ~ PingReceives(u, ws)
      BY <1>1 DEF satVars, OwnInv, AnswerInv
    <2>2. CASE u # t
      BY <1>2, <2>1, <2>2 DEF PingReceives
    <2>3. CASE u = t
      BY <1>2, <1>3, <2>1, <2>3 DEF PingReceives
    <2> QED
      BY <2>2, <2>3
  <1>5. CASE PingSend(t)
    <2> PICK m : m = Message("ping", 0)
      OBVIOUS
    <2>1. Send(m) /\ m \in UpMessages(Len(asked)) /\ m.type # "query"
      BY <1>5 DEF PingSend, UpMessages, Message, Requests
    <2> PICK x : x = ConnSend(conns[ws], m)
      OBVIOUS
    <2>2. /\ ws \in Conns /\ conns' = [conns EXCEPT ![ws] = x]
          /\ x \in ConnRecords(Len(asked)) /\ (x.served => x.open)
      BY <1>0, <2>1, SendIs
    <2>3. conns[ws] \in ConnRecords(Len(asked))
      BY <1>0, <2>2, ConnStepIs
    <2>4. Continues(conns[ws], x, Len(asked))
      <3>1. /\ x.up = IF conns[ws].served THEN Append(conns[ws].up, m) ELSE conns[ws].up
            /\ x.down = conns[ws].down /\ x.todo = conns[ws].todo
        BY <1>0, <2>1, <2>3, SendFields
      <3>2. CASE conns[ws].served
        BY <1>0, <2>1, <2>3, <3>1, <3>2, SendContinues
      <3>3. CASE ~ conns[ws].served
        BY <1>0, <2>3, <3>1, <3>3, LessContinues
      <3> QED
        BY <3>2, <3>3
    <2>5. Silent(conns[ws]) => Silent(x)
      BY <2>4 DEF Continues
    <2> QED
      BY <1>0, <1>1, <1>4, <2>2, <2>4, <2>5, OwnConn
  <1>6. CASE PingReceive(t)
    <2> PICK c : c = pings[t].on
      OBVIOUS
    <2>1. c \in Conns /\ Arrived(c) /\ Pop(c) /\ PingReceives(t, c)
      BY <1>2, <1>6 DEF PingReceive, PingIs, PingReceives
    <2>2. /\ conns' = [conns EXCEPT ![c] = ConnPop(conns[c])]
          /\ conns[c].down # << >> /\ ConnPop(conns[c]).served = conns[c].served
          /\ ConnPop(conns[c]) \in ConnRecords(Len(asked))
          /\ ConnPop(conns[c]).open = conns[c].open
      BY <1>0, <2>1, PopIs
    <2>3. conns[c] \in ConnRecords(Len(asked)) /\ (conns[c].served => conns[c].open)
      BY <1>0, <2>1, ConnStepIs DEF SessTypes
    <2>4. Silent(conns[c]) => Silent(ConnPop(conns[c]))
      BY <1>0, <2>2, <2>3, PopSilent
    <2>5. app' = "answer" => c # ws
      BY <1>1, <2>1 DEF OwnInv, AnswerInv
    <2> QED
      BY <1>0, <1>1, <1>4, <2>1, <2>2, <2>3, <2>4, <2>5, OwnConn
  <1>7. CASE conns' = conns
    BY <1>0, <1>1, <1>4, <1>7, OwnStays
  <1> QED
    BY <1>5, <1>6, <1>7 DEF PingStep, PingUnsent, PingBeginReceive, PingRefused, PingTimeout, PingLost

LEMMA OwnAct ==
  ASSUME OwnInv, Connect \/ Query \/ Disconnect \/ AppStep
  PROVE  OwnInv'
  <1>0. SessTypes /\ SessTypes' /\ Len(asked) \in Nat /\ Len(conns) \in Nat
        /\ Conns = 1..Len(conns) /\ Queries = 1..Len(asked)
    BY SessTypesAct DEF OwnInv, SessTypes, Conns, Queries
  <1>1. \A c \in Conns : conns[c] \in ConnRecords(Len(asked)) /\ (conns[c].served => conns[c].open)
    BY <1>0, ConnStepIs DEF SessTypes
  <1>a. CASE Connect
    <2>1. /\ conns' = Append(conns, NewConn) /\ asked' = asked /\ app' = "ack"
      BY <1>a DEF Connect
    <2>2. /\ Len(conns') = Len(conns) + 1 /\ conns'[Len(conns) + 1] = NewConn
          /\ \A c \in 1..Len(conns) : conns'[c] = conns[c]
      BY <1>0, <2>1, SeqPush DEF SessTypes
    <2>3. \A c \in Conns' : c \in 1..Len(conns) \/ c = Len(conns) + 1
      BY <1>0, <2>2 DEF Conns
    <2>4. \A c : AllReturned(c)' <=> AllReturned(c)
      BY <2>1 DEF AllReturned, Queries
    <2>5. SilentInv'
      BY <1>0, <2>2, <2>3, <2>4, NewSilent DEF OwnInv, SilentInv
    <2>6. AnswerInv' /\ OwnAnswer'
      BY <2>1 DEF OwnInv, AnswerInv, OwnAnswer, Queries
    <2> QED
      BY <1>0, <2>5, <2>6 DEF OwnInv
  <1>b. CASE Query
    <2> PICK n \in Nat : n = Len(asked)
      BY <1>0
    <2> PICK m : m = Message("query", n + 1)
      OBVIOUS
    <2> PICK a : a = [on |-> ws, parts |-> << >>, complete |-> FALSE]
      OBVIOUS
    <2>1. /\ Send(m) /\ asked' = Append(asked, a) /\ ws' = ws /\ pings' = pings
          /\ app' = "answer" => ~ Busy(ws)
      BY <1>b DEF Query, satVars
    <2>2. ws \in Conns /\ m.query = n + 1 /\ a.on = ws /\ ~ a.complete /\ a.parts = << >>
      <3>1. ws \in Conns
        BY <1>0, <2>1 DEF SessTypes, Send, SocketOpen
      <3> QED
        BY <3>1 DEF Message
    <2>3. /\ Len(asked') = n + 1 /\ asked'[n + 1] = a /\ \A q \in 1..n : asked'[q] = asked[q]
      BY <1>0, <2>1, SeqPush DEF SessTypes
    <2>4. Queries' = 1..(n + 1) /\ Current' = n + 1
      BY <1>0, <2>3 DEF Queries, Current, SessTypes
    <2>q. \A q \in Queries' : q \in 1..n \/ q = n + 1
      BY <2>4
    <2> PICK x : x = ConnSend(conns[ws], m)
      OBVIOUS
    <2>5. /\ x.up = Append(conns[ws].up, m) \/ x.up = conns[ws].up
          /\ x.down = conns[ws].down /\ x.todo = conns[ws].todo
      <3>1. x = conns[ws] \/ x = [conns[ws] EXCEPT !.up = Append(@, m)]
        BY DEF ConnSend
      <3>2. DOMAIN conns[ws] = {"open", "served", "known", "up", "todo", "down"}
        BY <1>0, <1>1, <2>2, ConnFields
      <3> QED
        BY <3>1, <3>2
    <2>6. /\ Len(conns') = Len(conns) /\ Conns' = Conns /\ conns'[ws] = x
          /\ \A c \in Conns : c # ws => conns'[c] = conns[c]
      <3>1. conns \in Seq(ConnRecords(n))
        BY <1>0 DEF SessTypes
      <3>2. CASE conns[ws].served
        <4>1. conns' = [conns EXCEPT ![ws] = [conns[ws] EXCEPT !.up = Append(@, m)]]
          <5>1. conns' = [conns EXCEPT ![ws].up = Append(@, m)]
            BY <2>1, <3>2 DEF Send
          <5> QED
            BY <1>0, <2>2, <3>1, <5>1
        <4>2. conns' = [conns EXCEPT ![ws] = x]
          BY <3>2, <4>1 DEF ConnSend
        <4> QED
          BY <1>0, <2>2, <3>1, <4>2 DEF Conns
      <3>3. CASE ~ conns[ws].served
        BY <1>0, <2>1, <3>1, <3>3 DEF Send, ConnSend, Conns
      <3> QED
        BY <3>2, <3>3
    <2>7. SilentInv'
      <3> SUFFICES ASSUME NEW c \in Conns, AllReturned(c)' PROVE Silent(conns'[c])
        BY <2>6 DEF SilentInv
      <3>1. c # ws
        <4>1. n + 1 \in Queries'
          BY <2>4
        <4> QED
          BY <2>2, <2>3, <4>1 DEF AllReturned
      <3>2. AllReturned(c)
        <4>1. \A q \in 1..n : q \in Queries'
          BY <2>4
        <4> QED
          BY <1>0, <2>3, <4>1 DEF AllReturned
      <3> QED
        BY <2>6, <3>1, <3>2 DEF OwnInv, SilentInv
    <2>8. OwnAnswer'
      <3> SUFFICES ASSUME NEW q \in Queries', asked'[q].complete,
                          \A p \in 1..(q - 1) : asked'[p].on = asked'[q].on => asked'[p].complete
                   PROVE  asked'[q].parts = OwnParts(q)
        BY DEF OwnAnswer, OwnParts
      <3>1. q \in 1..n
        BY <2>q, <2>2, <2>3
      <3>2. \A p \in 1..(q - 1) : p \in 1..n
        BY <3>1
      <3>3. \A p \in 1..(q - 1) : asked[p].on = asked[q].on => asked[p].complete
        BY <2>3, <3>1, <3>2
      <3> QED
        BY <1>0, <2>3, <3>1, <3>3 DEF OwnInv, OwnAnswer
    <2>9. AnswerInv'
      <3> SUFFICES ASSUME app' = "answer"
                   PROVE  /\ asked'[Current'].on = ws' /\ ~ asked'[Current'].complete
                          /\ \A t \in Tasks' : ~ PingReceives(t, ws)'
                          /\ EarlierReturned' => Ongoing(conns'[ws'], Current', asked'[Current'].parts)
        BY DEF AnswerInv
      <3>1. \A t \in Tasks : ~ PingReceives(t, ws)
        BY <2>1 DEF Busy
      <3>2. \A t \in Tasks' : ~ PingReceives(t, ws)'
        BY <2>1, <3>1 DEF PingReceives, Tasks
      <3>3. EarlierReturned' => AllReturned(ws)
        <4>1. \A q \in 1..n : q \in 1..(Current' - 1)
          BY <2>4
        <4> QED
          BY <1>0, <2>1, <2>3, <4>1 DEF EarlierReturned, AllReturned
      <3>4. EarlierReturned' => Silent(conns[ws])
        BY <2>2, <3>3 DEF OwnInv, SilentInv
      <3>5. EarlierReturned' => Ongoing(x, n + 1, << >>)
        BY <1>0, <1>1, <2>2, <2>5, <3>4, QuerySent
      <3> QED
        BY <2>1, <2>2, <2>3, <2>4, <2>6, <3>2, <3>5
    <2> QED
      BY <1>0, <2>7, <2>8, <2>9 DEF OwnInv
  <1>c. CASE Disconnect
    <2>1. asked' = asked /\ conns' = conns /\ app' # "answer"
      BY <1>c DEF Disconnect
    <2> QED
      BY <1>0, <2>1, OwnStays
  <1>d. CASE Registered
    <2>1. asked' = asked /\ app' # "answer" /\ app = "ack" /\ Arrived(ws) /\ Pop(ws)
      BY <1>d DEF Registered
    <2>2. ws \in Conns
      BY <1>0, <2>1 DEF SessTypes
    <2>3. /\ conns' = [conns EXCEPT ![ws] = ConnPop(conns[ws])]
          /\ conns[ws].down # << >> /\ ConnPop(conns[ws]).served = conns[ws].served
          /\ ConnPop(conns[ws]) \in ConnRecords(Len(asked))
          /\ ConnPop(conns[ws]).open = conns[ws].open
      BY <1>0, <2>1, <2>2, PopIs
    <2>4. Silent(conns[ws]) => Silent(ConnPop(conns[ws]))
      BY <1>0, <1>1, <2>2, <2>3, PopSilent
    <2> QED
      BY <1>0, <1>1, <2>1, <2>2, <2>3, <2>4, OwnConn
  <1>f. CASE CallLost
    <2>1. asked' = asked /\ conns' = conns /\ app' # "answer"
      BY <1>f DEF CallLost
    <2> QED
      BY <1>0, <2>1, OwnStays
  <1>g. CASE Close
    <2>1. asked' = asked /\ app' # "answer" /\ app = "closes"
      BY <1>g DEF Close
    <2>2. ws \in Conns
      BY <1>0, <2>1 DEF SessTypes
    <2>3. /\ ConnClose(conns[ws]) \in ConnRecords(Len(asked))
          /\ conns' = [conns EXCEPT ![ws] = ConnClose(conns[ws])]
      BY <1>0, <1>g, <2>2, ConnStepIs
    <2>4. Continues(conns[ws], ConnClose(conns[ws]), Len(asked)) /\ ~ ConnClose(conns[ws]).served
      BY <1>0, <1>1, <2>2, EndFields, LessContinues
    <2>5. Silent(conns[ws]) => Silent(ConnClose(conns[ws]))
      BY <2>4 DEF Continues
    <2> QED
      BY <1>0, <2>1, <2>2, <2>3, <2>4, <2>5, OwnConn
  <1>e. CASE Collect
    <2> PICK n \in Nat : n = Len(asked)
      BY <1>0
    <2> PICK m : m = Received(ws)
      OBVIOUS
    <2> PICK a : a = asked[n]
      OBVIOUS
    <2> PICK b : b = AskNext(a, m)
      OBVIOUS
    <2> PICK y : y = ConnPop(conns[ws])
      OBVIOUS
    <2>1. /\ ws \in Conns /\ n \in 1..n /\ Arrived(ws) /\ Pop(ws) /\ Current = n /\ app = "answer"
          /\ Len(asked') = n /\ asked'[n] = b /\ \A q \in 1..n : q # n => asked'[q] = asked[q]
          /\ a \in AskedRecords(Len(conns), n) /\ m \in DownMessages(n)
          /\ app' = IF m.type \in {"stream_end", "error"} THEN "idle" ELSE app
          /\ UNCHANGED <<satVars, pings, sent, daemon>>
      <3>1. /\ ws \in Conns /\ Current \in Queries /\ Arrived(ws) /\ Pop(ws) /\ Len(asked') = Len(asked)
            /\ \A q \in Queries : q # Current => asked'[q] = asked[q]
            /\ asked'[Current] = AskNext(asked[Current], Received(ws))
            /\ asked[Current] \in AskedRecords(Len(conns), Len(asked))
            /\ Received(ws) \in DownMessages(Len(asked))
            /\ app' = IF Received(ws).type \in {"stream_end", "error"} THEN "idle" ELSE app
            /\ UNCHANGED <<satVars, pings, sent, daemon>>
        BY <1>0, <1>e, CollectIs
      <3>2. Current = n /\ app = "answer"
        BY <1>e DEF Current, Collect
      <3> QED
        BY <1>0, <3>1, <3>2
    <2>2. /\ b.on = a.on /\ (b.complete <=> m.type = "stream_end")
      BY <1>0, <2>1, AskFields
    <2>3. /\ Len(conns') = Len(conns) /\ Conns' = Conns /\ conns'[ws] = y
          /\ \A c \in Conns : c # ws => conns'[c] = conns[c]
          /\ conns[ws].down # << >> /\ m = Head(conns[ws].down)
      <3>1. /\ conns' = [conns EXCEPT ![ws] = y] /\ y \in ConnRecords(Len(asked))
            /\ conns[ws].down # << >> /\ m = Head(conns[ws].down) /\ (y.served => y.open)
        BY <1>0, <1>1, <2>1, PopIs
      <3> QED
        BY <1>0, <2>1, <3>1, ConnSet
    <2>4. /\ a.on = ws /\ ~ a.complete /\ \A t \in Tasks : ~ PingReceives(t, ws)
          /\ EarlierReturned => Ongoing(conns[ws], n, a.parts)
      BY <2>1 DEF OwnInv, AnswerInv
    <2>5. EarlierReturned =>
            /\ m.type = "stream_end" => Silent(y) /\ b.parts = OwnParts(n)
            /\ m.type \notin {"stream_end", "error"} => Ongoing(y, n, b.parts)
      BY <1>0, <1>1, <2>1, <2>3, <2>4, CollectContinues
    <2>6. Queries' = 1..n /\ Current' = n
      BY <1>0, <2>1 DEF Queries, Current, SessTypes
    <2>7. \A p \in 1..(n - 1) : p \in 1..n /\ p # n /\ asked'[p] = asked[p]
      <3>1. \A p \in 1..(n - 1) : p \in 1..n /\ p # n
        OBVIOUS
      <3> QED
        BY <2>1, <3>1
    <2>8. SilentInv'
      <3> SUFFICES ASSUME NEW c \in Conns, AllReturned(c)' PROVE Silent(conns'[c])
        BY <2>3 DEF SilentInv
      <3>1. \A q \in 1..n : asked'[q].on = c => asked'[q].complete
        BY <2>6 DEF AllReturned
      <3>2. CASE c # ws
        <4>1. AllReturned(c)
          BY <1>0, <2>1, <2>4, <3>1, <3>2 DEF AllReturned
        <4> QED
          BY <2>3, <3>2, <4>1 DEF OwnInv, SilentInv
      <3>3. CASE c = ws
        <4>1. m.type = "stream_end"
          BY <2>1, <2>2, <2>4, <3>1, <3>3
        <4>2. EarlierReturned
          BY <2>1, <2>7, <3>1, <3>3 DEF EarlierReturned
        <4> QED
          BY <2>3, <2>5, <3>3, <4>1, <4>2
      <3> QED
        BY <3>2, <3>3
    <2>9. OwnAnswer'
      <3> SUFFICES ASSUME NEW q \in 1..n, asked'[q].complete,
                          \A p \in 1..(q - 1) : asked'[p].on = asked'[q].on => asked'[p].complete
                   PROVE  asked'[q].parts = OwnParts(q)
        BY <2>6 DEF OwnAnswer, OwnParts
      <3>1. CASE q = n
        <4>1. EarlierReturned
          <5>1. asked'[q].on = ws
            BY <2>1, <2>2, <2>4, <3>1
          <5>2. \A p \in 1..(n - 1) : asked[p].on = ws => asked[p].complete
            BY <2>7, <3>1, <5>1
          <5> QED
            BY <2>1, <5>2 DEF EarlierReturned
        <4> QED
          BY <2>1, <2>2, <2>5, <3>1, <4>1
      <3>2. CASE q # n
        <4>1. \A p \in 1..(q - 1) : p \in 1..(n - 1)
          BY <3>2
        <4>2. asked'[q] = asked[q] /\ \A p \in 1..(q - 1) : asked'[p] = asked[p]
          BY <2>1, <2>7, <3>2, <4>1
        <4>3. \A p \in 1..(q - 1) : asked[p].on = asked[q].on => asked[p].complete
          BY <4>2
        <4> QED
          BY <1>0, <4>2, <4>3 DEF OwnInv, OwnAnswer
      <3> QED
        BY <3>1, <3>2
    <2>10. AnswerInv'
      <3> SUFFICES ASSUME app' = "answer"
                   PROVE  /\ asked'[Current'].on = ws' /\ ~ asked'[Current'].complete
                          /\ \A t \in Tasks' : ~ PingReceives(t, ws)'
                          /\ EarlierReturned' => Ongoing(conns'[ws'], Current', asked'[Current'].parts)
        BY DEF AnswerInv
      <3>1. m.type \notin {"stream_end", "error"} /\ ws' = ws
        BY <2>1 DEF satVars
      <3>2. \A t \in Tasks' : ~ PingReceives(t, ws)'
        BY <2>1, <2>4 DEF PingReceives, Tasks, satVars
      <3>3. EarlierReturned' => EarlierReturned
        BY <2>1, <2>6, <2>7, <3>1 DEF EarlierReturned
      <3> QED
        BY <2>1, <2>2, <2>3, <2>4, <2>5, <2>6, <3>1, <3>2, <3>3
    <2> QED
      BY <1>0, <2>8, <2>9, <2>10 DEF OwnInv
  <1> QED
    BY <1>a, <1>b, <1>c, <1>d, <1>e, <1>f, <1>g DEF AppStep

LEMMA OwnStep ==
  ASSUME OwnInv, [Next]_vars
  PROVE  OwnInv'
  <1>1. CASE StopDaemon \/ Stopped \/ StartDaemon \/ UNCHANGED vars
    <2>1. UNCHANGED <<app, satVars, pings, sent, asked, conns, mixed>>
      BY <1>1 DEF StopDaemon, Stopped, StartDaemon, vars
    <2>2. SessTypes'
      BY SessTypesStep DEF OwnInv
    <2>3. \A t \in Tasks' : \A c : PingReceives(t, c)' <=> PingReceives(t, c)
      BY <2>1 DEF PingReceives
    <2>4. app' = "answer" => \A t \in Tasks' : ~ PingReceives(t, ws)'
      BY <2>1 DEF OwnInv, AnswerInv, PingReceives, Tasks, satVars
    <2> QED
      BY <2>1, <2>2, <2>4, OwnStays DEF satVars
  <1>2. CASE \E t \in Tasks : PingStep(t)
    BY <1>2, OwnPing
  <1>3. CASE \E c \in Conns : ConnStep(c)
    BY <1>3, OwnConnStep
  <1>4. CASE Connect \/ Query \/ Disconnect \/ AppStep
    BY <1>4, OwnAct
  <1> QED
    BY <1>1, <1>2, <1>3, <1>4 DEF Next

LEMMA OwnInit == Init => OwnInv
  <1> SUFFICES ASSUME Init PROVE OwnInv
    OBVIOUS
  <1>1. Conns = {} /\ Queries = {} /\ app = "idle"
    BY DEF Init, Conns, Queries
  <1> QED
    BY <1>1, SessTypesInit DEF OwnInv, SilentInv, AnswerInv, OwnAnswer

\* A complete answer is the query's own, all of it and nothing else, if every query
\* before it on its connection returned too (dap2_client.py, query and
\* _collect_stream), for any number of connections, queries, pings and sentences.
THEOREM CompleteAnswersAreOwn == Spec => []OwnAnswer
  <1>1. OwnInv /\ [Next]_vars => OwnInv'
    BY OwnStep
  <1>2. OwnInv => OwnAnswer
    BY DEF OwnInv
  <1> QED
    BY OwnInit, <1>1, <1>2, PTL DEF Spec

---------------------------------------------------------------------------
(* Pongs.                                                                    *)

\* The positions of a list with messages of one type, and how many there are.
Places(s, type) == {i \in 1..Len(s) : s[i].type = type}

LEMMA CountIs ==
  ASSUME NEW S, NEW s \in Seq(S), NEW type
  PROVE  /\ Count(s, type) = Cardinality(Places(s, type)) /\ Count(s, type) \in Nat
         /\ IsFiniteSet(Places(s, type))
  <1>1. Len(s) \in Nat /\ DOMAIN s = 1..Len(s)
    OBVIOUS
  <1>2. IsFiniteSet(1..Len(s))
    BY <1>1, FS_Interval
  <1>3. Places(s, type) \in SUBSET (1..Len(s))
    BY DEF Places
  <1>4. IsFiniteSet(Places(s, type))
    BY <1>2, <1>3, FS_Subset
  <1> QED
    BY <1>1, <1>4, FS_CardinalityType DEF Count, Places

LEMMA CountNone ==
  ASSUME NEW S, NEW s \in Seq(S), NEW type, \A i \in 1..Len(s) : s[i].type # type
  PROVE  Count(s, type) = 0
  <1>1. Places(s, type) = {}
    BY DEF Places
  <1> QED
    BY <1>1, CountIs, FS_EmptySet

LEMMA CountAppend ==
  ASSUME NEW S, NEW s \in Seq(S), NEW m \in S, NEW type
  PROVE  Count(Append(s, m), type) = Count(s, type) + (IF m.type = type THEN 1 ELSE 0)
  <1> PICK v : v = Append(s, m)
    OBVIOUS
  <1> PICK l \in Nat : l = Len(s)
    OBVIOUS
  <1>1. v \in Seq(S) /\ Len(v) = l + 1 /\ v[l + 1] = m /\ \A k \in 1..l : v[k] = s[k]
    BY SeqPush
  <1>2. \A k \in 1..(l + 1) : k \in 1..l \/ k = l + 1
    OBVIOUS
  <1>3. l + 1 \in 1..(l + 1) /\ \A k \in 1..l : k \in 1..(l + 1) /\ k # l + 1
    OBVIOUS
  <1>4. Places(v, type) = IF m.type = type THEN Places(s, type) \cup {l + 1} ELSE Places(s, type)
    <2>1. CASE m.type = type
      BY <1>1, <1>2, <1>3, <2>1 DEF Places
    <2>2. CASE m.type # type
      BY <1>1, <1>2, <1>3, <2>2 DEF Places
    <2> QED
      BY <2>1, <2>2
  <1>5. l + 1 \notin Places(s, type)
    BY <1>3 DEF Places
  <1>6. Cardinality(Places(s, type) \cup {l + 1}) = Cardinality(Places(s, type)) + 1
    BY <1>5, CountIs, FS_AddElement
  <1>7. /\ Count(v, type) = Cardinality(Places(v, type)) /\ Count(s, type) \in Nat
        /\ Count(s, type) = Cardinality(Places(s, type))
    BY <1>1, CountIs
  <1> QED
    BY <1>4, <1>6, <1>7

LEMMA CountTail ==
  ASSUME NEW S, NEW s \in Seq(S), s # << >>, NEW type
  PROVE  Count(s, type) = Count(Tail(s), type) + (IF Head(s).type = type THEN 1 ELSE 0)
  <1> PICK v : v = Tail(s)
    OBVIOUS
  <1> PICK l \in Nat \ {0} : l = Len(s)
    BY TailTypes
  <1>1. /\ v \in Seq(S) /\ Len(v) = l - 1 /\ Head(s) = s[1]
        /\ \A k \in 1..(l - 1) : v[k] = s[k + 1]
    BY TailTypes
  <1> PICK P : P = Places(s, type) \ {1}
    OBVIOUS
  <1> PICK R : R = Places(v, type)
    OBVIOUS
  <1>2. /\ \A i \in R : i \in 1..(l - 1) /\ s[i + 1].type = type
        /\ \A i \in 1..(l - 1) : s[i + 1].type = type => i \in R
    BY <1>1 DEF Places
  <1>3. /\ \A i \in P : i \in 1..l /\ i # 1 /\ s[i].type = type
        /\ \A i \in 1..l : i # 1 /\ s[i].type = type => i \in P
    BY DEF Places
  <1>4. ExistsBijection(R, P)
    <2> PICK f : f = [i \in R |-> i + 1]
      OBVIOUS
    <2>1. \A i \in R : f[i] = i + 1 /\ i + 1 \in P /\ i \in Nat
      <3> TAKE i \in R
      <3>1. i \in 1..(l - 1) /\ i + 1 \in 1..l /\ i + 1 # 1 /\ i \in Nat
        BY <1>2
      <3> QED
        BY <1>2, <1>3, <3>1
    <2>2. f \in [R -> P]
      BY <2>1
    <2>3. \A a, b \in R : f[a] = f[b] => a = b
      <3> TAKE a, b \in R
      <3>1. f[a] = a + 1 /\ f[b] = b + 1 /\ a \in Nat /\ b \in Nat
        BY <2>1
      <3> QED
        BY <3>1
    <2>4. \A t \in P : \E i \in R : f[i] = t
      <3> TAKE t \in P
      <3>1. t \in 1..l /\ t # 1 /\ s[t].type = type
        BY <1>3
      <3>2. t - 1 \in 1..(l - 1) /\ (t - 1) + 1 = t
        BY <3>1
      <3>3. t - 1 \in R
        BY <1>2, <3>1, <3>2
      <3> QED
        BY <2>1, <3>2, <3>3
    <2>5. f \in Bijection(R, P)
      <3>1. f \in Injection(R, P)
        <4>1. DOMAIN f = R
          BY <2>2
        <4> QED
          BY <2>2, <2>3, <4>1 DEF Injection, IsInjective
      <3>2. f \in Surjection(R, P)
        BY <2>2, <2>4 DEF Surjection
      <3> QED
        BY <3>1, <3>2 DEF Bijection
    <2> QED
      BY <2>5 DEF ExistsBijection
  <1>5. /\ IsFiniteSet(Places(s, type)) /\ IsFiniteSet(R) /\ Count(s, type) = Cardinality(Places(s, type))
        /\ Count(s, type) \in Nat /\ Count(v, type) = Cardinality(R) /\ Count(v, type) \in Nat
    BY <1>1, CountIs
  <1>6. Cardinality(P) = Cardinality(R)
    BY <1>4, <1>5, FS_Bijection
  <1>7. Cardinality(P) = IF 1 \in Places(s, type) THEN Cardinality(Places(s, type)) - 1
                                                  ELSE Cardinality(Places(s, type))
    BY <1>5, FS_RemoveElement
  <1>8. 1 \in Places(s, type) <=> Head(s).type = type
    <2>1. 1 \in 1..l
      OBVIOUS
    <2> QED
      BY <1>1, <2>1 DEF Places
  <1> QED
    BY <1>5, <1>6, <1>7, <1>8

\* The pings and pongs on their way on a connection.
OwedBy(x) == Count(x.up, "ping") + Count(x.todo, "pong") + Count(x.down, "pong")

LEMMA OwedIs ==
  ASSUME NEW n \in Nat, NEW x \in ConnRecords(n)
  PROVE  /\ Count(x.up, "ping") \in Nat /\ Count(x.todo, "pong") \in Nat
         /\ Count(x.down, "pong") \in Nat /\ OwedBy(x) \in Nat
  <1>1. /\ x.up \in Seq(UpMessages(n)) /\ x.todo \in Seq(DownMessages(n))
        /\ x.down \in Seq(DownMessages(n))
    BY ConnFields
  <1>2. /\ Count(x.up, "ping") \in Nat /\ Count(x.todo, "pong") \in Nat
        /\ Count(x.down, "pong") \in Nat
    BY <1>1, CountIs
  <1> QED
    BY <1>2 DEF OwedBy

\* A request that the handler takes: a ping becomes a pong.
LEMMA OwedTake ==
  ASSUME NEW n \in Nat, NEW x \in ConnRecords(n), x.up # << >>, x.todo = << >>, NEW m, NEW r,
         m = Head(x.up), m \in UpMessages(n), r \in Seq(DownMessages(n)), r # << >>,
         m.type = "register" => r = <<Message("ack", 0)>>,
         m.type = "ping" => r = <<Message("pong", 0)>>,
         m.type = "query" => r = <<Message("error", m.query)>> \/ r = Answer(m.query)
  PROVE  OwedBy(ConnTake(x, r)) = OwedBy(x)
  <1> PICK y : y = ConnTake(x, r)
    OBVIOUS
  <1>1. y.up = Tail(x.up) /\ y.todo = Tail(r) /\ y.down = Append(x.down, Head(r))
    BY TakeFields
  <1>2. /\ x.up \in Seq(UpMessages(n)) /\ x.todo \in Seq(DownMessages(n))
        /\ x.down \in Seq(DownMessages(n))
    BY ConnFields
  <1>3. Head(r) \in DownMessages(n) /\ Tail(r) \in Seq(DownMessages(n)) /\ Len(Tail(r)) = Len(r) - 1
        /\ \A k \in 1..(Len(r) - 1) : Tail(r)[k] = r[k + 1]
        /\ Head(r) = r[1] /\ Len(r) \in Nat \ {0}
    BY TailTypes
  <1>4. m.type \in {"register", "ping", "query"} /\ (m.type = "query" => m.query \in 1..n)
    BY DEF UpMessages, Requests
  <1>5. /\ Head(r).type = "pong" <=> m.type = "ping"
        /\ \A k \in 1..Len(Tail(r)) : Tail(r)[k].type # "pong"
    <2>1. \A e : Head(<<e>>) = e /\ Tail(<<e>>) = << >> /\ \A k : k \notin 1..Len(<< >>)
      OBVIOUS
    <2>2. CASE r = Answer(m.query) /\ m.type = "query"
      <3>1. \A k \in 1..AnswerLen : Answer(m.query)[k].type \in Exchange
        BY <1>4, <2>2, AnswerTypes
      <3>2. \A k \in 1..Len(r) : r[k].type # "pong"
        BY <2>2, <3>1, AnswerParts DEF Exchange
      <3>3. 1 \in 1..Len(r) /\ \A k \in 1..(Len(r) - 1) : k + 1 \in 1..Len(r)
        BY <1>3
      <3> QED
        BY <1>3, <2>2, <3>2, <3>3
    <2>3. CASE r = <<Message("ack", 0)>> /\ m.type = "register"
      BY <2>1, <2>3 DEF Message
    <2>4. CASE r = <<Message("pong", 0)>> /\ m.type = "ping"
      BY <2>1, <2>4 DEF Message
    <2>5. CASE r = <<Message("error", m.query)>> /\ m.type = "query"
      BY <2>1, <2>5 DEF Message
    <2> QED
      BY <1>4, <2>2, <2>3, <2>4, <2>5
  <1>6. Count(y.todo, "pong") = 0
    <2> PICK t \in Seq(DownMessages(n)) : t = Tail(r)
      BY <1>3
    <2>1. \A i \in 1..Len(t) : t[i].type # "pong"
      BY <1>5
    <2>2. Count(t, "pong") = 0
      BY <2>1, CountNone
    <2> QED
      BY <1>1, <2>2
  <1>7. Count(x.todo, "pong") = 0
    <2>1. \A k : k \notin 1..Len(<< >>)
      OBVIOUS
    <2> QED
      BY <1>2, <2>1, CountNone
  <1>8. Count(x.up, "ping") = Count(y.up, "ping") + (IF m.type = "ping" THEN 1 ELSE 0)
    BY <1>1, <1>2, CountTail
  <1>9. Count(y.down, "pong") = Count(x.down, "pong") + (IF Head(r).type = "pong" THEN 1 ELSE 0)
    BY <1>1, <1>2, <1>3, CountAppend
  <1>10. Count(y.up, "ping") \in Nat /\ Count(x.down, "pong") \in Nat
    <2>1. y.up \in Seq(UpMessages(n))
      BY <1>1, <1>2, TailTypes
    <2> QED
      BY <1>2, <2>1, CountIs
  <1>11. OwedBy(y) = OwedBy(x)
    <2>1. CASE m.type = "ping"
      BY <1>5, <1>6, <1>7, <1>8, <1>9, <1>10, <2>1 DEF OwedBy
    <2>2. CASE m.type # "ping"
      BY <1>5, <1>6, <1>7, <1>8, <1>9, <1>10, <2>2 DEF OwedBy
    <2> QED
      BY <2>1, <2>2
  <1> QED
    BY <1>11

LEMMA OwedReply ==
  ASSUME NEW n \in Nat, NEW x \in ConnRecords(n), x.todo # << >>
  PROVE  OwedBy(ConnReply(x)) = OwedBy(x)
  <1> PICK y : y = ConnReply(x)
    OBVIOUS
  <1> PICK m : m = Head(x.todo)
    OBVIOUS
  <1>1. y.up = x.up /\ y.todo = Tail(x.todo) /\ y.down = Append(x.down, m)
    BY ReplyFields
  <1>2. x.todo \in Seq(DownMessages(n)) /\ x.down \in Seq(DownMessages(n))
    BY ConnFields
  <1>3. m \in DownMessages(n) /\ y.todo \in Seq(DownMessages(n))
    BY <1>1, <1>2, TailTypes
  <1>4. Count(x.todo, "pong") = Count(y.todo, "pong") + (IF m.type = "pong" THEN 1 ELSE 0)
    BY <1>1, <1>2, CountTail
  <1>5. Count(y.down, "pong") = Count(x.down, "pong") + (IF m.type = "pong" THEN 1 ELSE 0)
    BY <1>1, <1>2, <1>3, CountAppend
  <1>6. Count(y.todo, "pong") \in Nat /\ Count(x.down, "pong") \in Nat /\ Count(x.up, "ping") \in Nat
    BY <1>2, <1>3, CountIs, OwedIs
  <1> QED
    BY <1>1, <1>4, <1>5, <1>6 DEF OwedBy

LEMMA OwedPop ==
  ASSUME NEW n \in Nat, NEW x \in ConnRecords(n), x.down # << >>
  PROVE  OwedBy(x) = OwedBy(ConnPop(x)) + (IF Head(x.down).type = "pong" THEN 1 ELSE 0)
  <1> PICK y : y = ConnPop(x)
    OBVIOUS
  <1>1. y.up = x.up /\ y.todo = x.todo /\ y.down = Tail(x.down)
    BY PopFields
  <1>2. x.down \in Seq(DownMessages(n))
    BY ConnFields
  <1>3. Count(x.down, "pong") = Count(y.down, "pong") + (IF Head(x.down).type = "pong" THEN 1 ELSE 0)
    BY <1>1, <1>2, CountTail
  <1>4. y.down \in Seq(DownMessages(n))
    BY <1>1, <1>2, TailTypes
  <1>5. Count(y.down, "pong") \in Nat /\ Count(x.todo, "pong") \in Nat /\ Count(x.up, "ping") \in Nat
    BY <1>4, CountIs, OwedIs
  <1> QED
    BY <1>1, <1>3, <1>5 DEF OwedBy

LEMMA OwedSend ==
  ASSUME NEW n \in Nat, NEW x \in ConnRecords(n), NEW m \in UpMessages(n), x.served
  PROVE  OwedBy(ConnSend(x, m)) = OwedBy(x) + (IF m.type = "ping" THEN 1 ELSE 0)
  <1> PICK y : y = ConnSend(x, m)
    OBVIOUS
  <1>1. y.up = Append(x.up, m) /\ y.todo = x.todo /\ y.down = x.down
    <2>1. /\ ConnSend(x, m).up = IF x.served THEN Append(x.up, m) ELSE x.up
          /\ ConnSend(x, m).down = x.down /\ ConnSend(x, m).todo = x.todo
      BY SendFields
    <2> QED
      BY <2>1
  <1>2. x.up \in Seq(UpMessages(n))
    BY ConnFields
  <1>3. Count(y.up, "ping") = Count(x.up, "ping") + (IF m.type = "ping" THEN 1 ELSE 0)
    BY <1>1, <1>2, CountAppend
  <1>4. Count(x.down, "pong") \in Nat /\ Count(x.todo, "pong") \in Nat /\ Count(x.up, "ping") \in Nat
    BY OwedIs
  <1> QED
    BY <1>1, <1>3, <1>4 DEF OwedBy

\* Pongs on a connection match the tasks that wait for them, given the types.
PongInv == SessTypes /\ PongsMatch

LEMMA AwaitingIs ==
  ASSUME SessTypes, NEW c
  PROVE  IsFiniteSet(Awaiting(c)) /\ Cardinality(Awaiting(c)) \in Nat
  <1>1. Tasks = 1..Len(pings) /\ Len(pings) \in Nat
    BY DEF SessTypes, Tasks
  <1>2. IsFiniteSet(Tasks)
    BY <1>1, FS_Interval
  <1>3. Awaiting(c) \in SUBSET Tasks
    BY DEF Awaiting
  <1>4. IsFiniteSet(Awaiting(c))
    BY <1>2, <1>3, FS_Subset
  <1> QED
    BY <1>4, FS_CardinalityType

LEMMA PongsMeans ==
  PongsMatch <=> \A c \in Conns \ mixed : conns[c].served => OwedBy(conns[c]) = Cardinality(Awaiting(c))
  BY DEF PongsMatch, Owed, OwedBy

\* A step after which, on every connection that is served and not mixed, as many are
\* owed and waiting as before.
LEMMA PongsStay ==
  ASSUME PongInv, SessTypes', Len(conns') = Len(conns), mixed \subseteq mixed',
         \A c \in Conns \ mixed' : conns'[c].served =>
           conns[c].served /\ OwedBy(conns'[c]) = OwedBy(conns[c]) /\ Awaiting(c)' = Awaiting(c)
  PROVE  PongInv'
  <1>1. Conns' = Conns
    BY DEF PongInv, SessTypes, Conns
  <1>2. \A c \in Conns \ mixed' : conns'[c].served => OwedBy(conns'[c]) = Cardinality(Awaiting(c)')
    BY PongsMeans DEF PongInv
  <1>3. \A c \in Conns' \ mixed' :
          conns'[c].served => Count(conns'[c].up, "ping") + Count(conns'[c].todo, "pong")
                                + Count(conns'[c].down, "pong") = Cardinality(Awaiting(c)')
    BY <1>1, <1>2 DEF OwedBy
  <1>4. PongsMatch'
    BY <1>3 DEF PongsMatch, Owed
  <1> QED
    BY <1>4 DEF PongInv

\* A step of one connection that owes what it owed.
LEMMA PongsConn ==
  ASSUME PongInv, SessTypes', NEW c \in Conns, NEW x \in ConnRecords(Len(asked)),
         x.served => x.open, conns' = [conns EXCEPT ![c] = x],
         x.served /\ c \notin mixed' => conns[c].served /\ OwedBy(x) = OwedBy(conns[c]),
         \A d : Awaiting(d)' = Awaiting(d), mixed \subseteq mixed'
  PROVE  PongInv'
  <1>1. /\ Len(conns') = Len(conns) /\ conns'[c] = x
        /\ \A d \in Conns : d # c => conns'[d] = conns[d]
    BY ConnSet DEF PongInv
  <1> QED
    BY <1>1, PongsStay

LEMMA AwaitingStays ==
  ASSUME pings' = pings
  PROVE  \A d : Awaiting(d)' = Awaiting(d)
  BY DEF Awaiting, Tasks

LEMMA PongsConnStep ==
  ASSUME PongInv, NEW c \in Conns, ConnStep(c)
  PROVE  PongInv'
  <1>0. SessTypes /\ SessTypes' /\ Len(asked) \in Nat /\ conns[c] \in ConnRecords(Len(asked))
    BY SessTypesConn, ConnStepIs DEF PongInv, SessTypes
  <1>1. UNCHANGED <<app, satVars, pings, sent, asked, daemon, mixed>>
    BY DEF ConnStep, Take, Reply, HandlerFails, HangUp, Notice
  <1>2. \E x \in ConnRecords(Len(asked)) :
          /\ conns' = [conns EXCEPT ![c] = x]
          /\ x.served => conns[c].served /\ OwedBy(x) = OwedBy(conns[c])
    <2>1. CASE Take(c)
      <3>1. PICK m \in UpMessages(Len(asked)), r \in Seq(DownMessages(Len(asked))) :
              /\ m = Head(conns[c].up) /\ r = reply(c, m) /\ r # << >>
              /\ conns[c].up # << >> /\ conns[c].todo = << >> /\ conns[c].served
              /\ conns' = [conns EXCEPT ![c] = ConnTake(conns[c], r)]
              /\ ConnTake(conns[c], r) \in ConnRecords(Len(asked))
              /\ ConnTake(conns[c], r).served = conns[c].served
              /\ ConnTake(conns[c], r).open = conns[c].open
        BY <1>0, <2>1, TakeIs
      <3>2. /\ m.type = "register" => r = <<Message("ack", 0)>>
            /\ m.type = "ping" => r = <<Message("pong", 0)>>
            /\ m.type = "query" => r = <<Message("error", m.query)>> \/ r = Answer(m.query)
        BY <1>0, <3>1, ReplyTypes
      <3>3. OwedBy(ConnTake(conns[c], r)) = OwedBy(conns[c])
        BY <1>0, <3>1, <3>2, OwedTake
      <3> QED
        BY <3>1, <3>3
    <2>2. CASE Reply(c)
      <3>1. /\ conns[c].todo # << >> /\ ConnReply(conns[c]) \in ConnRecords(Len(asked))
            /\ conns' = [conns EXCEPT ![c] = ConnReply(conns[c])]
        BY <1>0, <2>2, ConnStepIs
      <3>2. OwedBy(ConnReply(conns[c])) = OwedBy(conns[c])
        BY <1>0, <3>1, OwedReply
      <3>3. ConnReply(conns[c]).served = conns[c].served
        BY <1>0, <3>1, ReplyFields
      <3> QED
        BY <3>1, <3>2, <3>3
    <2>3. CASE HandlerFails(c) \/ HangUp(c)
      <3>1. /\ ConnEnd(conns[c]) \in ConnRecords(Len(asked))
            /\ conns' = [conns EXCEPT ![c] = ConnEnd(conns[c])]
        BY <1>0, <2>3, ConnStepIs
      <3>2. ~ ConnEnd(conns[c]).served
        BY <1>0, EndFields
      <3> QED
        BY <3>1, <3>2
    <2>4. CASE Notice(c)
      <3>1. /\ ConnNotice(conns[c]) \in ConnRecords(Len(asked)) /\ ~ conns[c].served
            /\ conns' = [conns EXCEPT ![c] = ConnNotice(conns[c])]
        BY <1>0, <2>4, ConnStepIs
      <3>2. ~ ConnNotice(conns[c]).served
        BY <1>0, <3>1, EndFields
      <3> QED
        BY <3>1, <3>2
    <2> QED
      BY <2>1, <2>2, <2>3, <2>4 DEF ConnStep
  <1>3. PICK x \in ConnRecords(Len(asked)) :
          /\ conns' = [conns EXCEPT ![c] = x]
          /\ x.served => conns[c].served /\ OwedBy(x) = OwedBy(conns[c])
    BY <1>2
  <1>4. x.served => x.open
    <2>1. conns'[c] = x /\ c \in Conns'
      BY <1>0, <1>3 DEF SessTypes, Conns
    <2> QED
      BY <1>0, <2>1 DEF SessTypes
  <1>5. \A d : Awaiting(d)' = Awaiting(d)
    BY <1>1, AwaitingStays
  <1> QED
    BY <1>0, <1>1, <1>3, <1>4, <1>5, PongsConn

LEMMA PongsPing ==
  ASSUME PongInv, NEW t \in Tasks, PingStep(t)
  PROVE  PongInv'
  <1>0. SessTypes /\ SessTypes' /\ Len(asked) \in Nat
    BY SessTypesPing DEF PongInv, SessTypes
  <1>c. \A c \in Conns : conns[c] \in ConnRecords(Len(asked)) /\ (conns[c].served => conns[c].open)
    BY <1>0, ConnStepIs DEF SessTypes
  <1>w. ws \in 0..Len(conns) /\ 0 \in 0..Len(conns)
    BY <1>0 DEF SessTypes
  <1>a. CASE PingSend(t)
    <2> PICK m : m = Message("ping", 0)
      OBVIOUS
    <2>1. /\ PingIs(t, "sleeps", "sends", ws) /\ Send(m) /\ mixed' = mixed
          /\ m \in UpMessages(Len(asked)) /\ m.type = "ping"
      BY <1>a DEF PingSend, UpMessages, Message, Requests
    <2> PICK x : x = ConnSend(conns[ws], m)
      OBVIOUS
    <2>2. /\ ws \in Conns /\ conns' = [conns EXCEPT ![ws] = x]
          /\ x \in ConnRecords(Len(asked)) /\ (x.served => x.open) /\ x.served = conns[ws].served
      BY <1>0, <1>c, <2>1, SendIs
    <2>3. /\ Len(conns') = Len(conns) /\ conns'[ws] = x /\ Conns' = Conns
          /\ \A d \in Conns : d # ws => conns'[d] = conns[d]
      BY <1>0, <2>2, ConnSet
    <2>4. /\ Tasks' = Tasks /\ pings[t].state = "sleeps" /\ pings'[t].state = "sends"
          /\ pings'[t].on = ws /\ \A u \in Tasks : u # t => pings'[u] = pings[u]
      <3>1. ws # 0
        BY <2>2 DEF Conns
      <3> QED
        BY <1>0, <1>w, <2>1, <3>1, PingIsIs
    <2> PICK w \in Conns : w = ws
      BY <2>2
    <2>5. Awaiting(w)' = Awaiting(w) \cup {t} /\ t \notin Awaiting(w)
      <3>1. t \notin Awaiting(w)
        BY <2>4 DEF Awaiting
      <3>2. \A u : u \in Awaiting(w)' <=> u \in Awaiting(w) \cup {t}
        <4> DEFINE Waits(p, u, d) == p[u].state \in {"sends", "receives"} /\ p[u].on = d
        <4>1. \A u : u \in Awaiting(w)' <=> u \in Tasks /\ Waits(pings', u, w)
          BY <2>4 DEF Awaiting
        <4>2. \A u : u \in Awaiting(w) <=> u \in Tasks /\ Waits(pings, u, w)
          BY DEF Awaiting
        <4>3. Waits(pings', t, w)
          BY <2>4
        <4>4. \A u \in Tasks : u # t => (Waits(pings', u, w) <=> Waits(pings, u, w))
          BY <2>4
        <4> HIDE DEF Waits
        <4> QED
          BY <4>1, <4>2, <4>3, <4>4
      <3> QED
        BY <3>1, <3>2
    <2>6. \A d : d # ws => Awaiting(d)' = Awaiting(d)
      <3> TAKE d
      <3> HAVE d # ws
      <3> DEFINE Waits(p, u) == p[u].state \in {"sends", "receives"} /\ p[u].on = d
      <3>1. \A u : u \in Awaiting(d)' <=> u \in Tasks /\ Waits(pings', u)
        BY <2>4 DEF Awaiting
      <3>2. \A u : u \in Awaiting(d) <=> u \in Tasks /\ Waits(pings, u)
        BY DEF Awaiting
      <3>3. ~ Waits(pings', t) /\ ~ Waits(pings, t)
        BY <2>4
      <3>4. \A u \in Tasks : u # t => (Waits(pings', u) <=> Waits(pings, u))
        BY <2>4
      <3> HIDE DEF Waits
      <3>5. \A u : u \in Awaiting(d)' <=> u \in Awaiting(d)
        BY <3>1, <3>2, <3>3, <3>4
      <3> QED
        BY <3>5
    <2>7. PongsMatch'
      <3> SUFFICES ASSUME NEW d \in Conns \ mixed, conns'[d].served
                   PROVE  OwedBy(conns'[d]) = Cardinality(Awaiting(d)')
        BY <2>1, <2>3 DEF PongsMatch, Owed, OwedBy
      <3>1. CASE d = ws
        <4>1. conns[ws].served /\ OwedBy(x) = OwedBy(conns[ws]) + 1
          BY <1>0, <1>c, <2>1, <2>2, <2>3, <3>1, OwedSend
        <4>2. OwedBy(conns[ws]) = Cardinality(Awaiting(w))
          BY <3>1, <4>1, PongsMeans DEF PongInv
        <4>3. Cardinality(Awaiting(w) \cup {t}) = Cardinality(Awaiting(w)) + 1
          BY <1>0, <2>5, AwaitingIs, FS_AddElement
        <4> QED
          BY <2>3, <2>5, <3>1, <4>1, <4>2, <4>3
      <3>2. CASE d # ws
        BY <2>3, <2>6, <3>2, PongsMeans DEF PongInv
      <3> QED
        BY <3>1, <3>2
    <2> QED
      BY <1>0, <2>7 DEF PongInv
  <1>b. CASE PingReceive(t)
    <2> PICK c : c = pings[t].on
      OBVIOUS
    <2>1. /\ PingIs(t, "receives", "sleeps", 0) /\ Arrived(c) /\ Pop(c)
          /\ mixed' = IF Received(c).type \in {"pong"} THEN mixed ELSE mixed \cup {c}
      BY <1>b DEF PingReceive, NoteOther
    <2>2. /\ Tasks' = Tasks /\ pings[t].state = "receives" /\ pings'[t].state = "sleeps"
          /\ \A u \in Tasks : u # t => pings'[u] = pings[u] /\ c \in Conns
          /\ c \in Conns
      BY <1>0, <1>w, <2>1, PingIsIs
    <2> PICK x : x = ConnPop(conns[c])
      OBVIOUS
    <2>3. /\ conns' = [conns EXCEPT ![c] = x] /\ x \in ConnRecords(Len(asked))
          /\ conns[c].down # << >> /\ x.served = conns[c].served /\ x.open = conns[c].open
          /\ Received(c) = Head(conns[c].down)
      BY <1>0, <2>1, <2>2, PopIs
    <2>4. /\ Len(conns') = Len(conns) /\ conns'[c] = x /\ Conns' = Conns
          /\ \A d \in Conns : d # c => conns'[d] = conns[d]
      <3>1. c \in Conns
        BY <2>2
      <3>2. x.served => x.open
        BY <1>c, <2>2, <2>3
      <3>3. conns' = [conns EXCEPT ![c] = x] /\ x \in ConnRecords(Len(asked))
        BY <2>3
      <3> QED
        BY <1>0, <3>1, <3>2, <3>3, ConnSet, Zenon
    <2>5. OwedBy(conns[c]) = OwedBy(x) + (IF Received(c).type = "pong" THEN 1 ELSE 0)
      BY <1>0, <1>c, <2>2, <2>3, OwedPop
    <2>6. Awaiting(c)' = Awaiting(c) \ {t} /\ t \in Awaiting(c)
      <3>1. t \in Awaiting(c)
        BY <2>2 DEF Awaiting
      <3> DEFINE Waits(p, u) == p[u].state \in {"sends", "receives"} /\ p[u].on = c
      <3>2. \A u : u \in Awaiting(c)' <=> u \in Tasks /\ Waits(pings', u)
        BY <2>2 DEF Awaiting
      <3>3. \A u : u \in Awaiting(c) <=> u \in Tasks /\ Waits(pings, u)
        BY DEF Awaiting
      <3>4. ~ Waits(pings', t)
        BY <2>2
      <3>5. \A u \in Tasks : u # t => (Waits(pings', u) <=> Waits(pings, u))
        BY <2>2
      <3> HIDE DEF Waits
      <3>6. \A u : u \in Awaiting(c)' <=> u \in Awaiting(c) \ {t}
        BY <3>2, <3>3, <3>4, <3>5
      <3> QED
        BY <3>1, <3>6
    <2>7. \A d : d # c => Awaiting(d)' = Awaiting(d)
      <3> TAKE d
      <3> HAVE d # c
      <3> DEFINE Waits(p, u) == p[u].state \in {"sends", "receives"} /\ p[u].on = d
      <3>1. \A u : u \in Awaiting(d)' <=> u \in Tasks /\ Waits(pings', u)
        BY <2>2 DEF Awaiting
      <3>2. \A u : u \in Awaiting(d) <=> u \in Tasks /\ Waits(pings, u)
        BY DEF Awaiting
      <3>3. ~ Waits(pings', t) /\ ~ Waits(pings, t)
        BY <2>2
      <3>4. \A u \in Tasks : u # t => (Waits(pings', u) <=> Waits(pings, u))
        BY <2>2
      <3> HIDE DEF Waits
      <3>5. \A u : u \in Awaiting(d)' <=> u \in Awaiting(d)
        BY <3>1, <3>2, <3>3, <3>4
      <3> QED
        BY <3>5
    <2>8. PongsMatch'
      <3> SUFFICES ASSUME NEW d \in Conns \ mixed', conns'[d].served
                   PROVE  OwedBy(conns'[d]) = Cardinality(Awaiting(d)')
        BY <2>4 DEF PongsMatch, Owed, OwedBy
      <3>0. d \in Conns \ mixed
        BY <2>1
      <3>1. CASE d = c
        <4>1. Received(c).type = "pong" /\ conns[c].served
          BY <2>1, <2>3, <2>4, <3>1
        <4>2. OwedBy(conns[c]) = Cardinality(Awaiting(c)) /\ OwedBy(conns[c]) = OwedBy(x) + 1
          BY <2>5, <3>0, <3>1, <4>1, PongsMeans DEF PongInv
        <4>3. Cardinality(Awaiting(c) \ {t}) = Cardinality(Awaiting(c)) - 1
          BY <1>0, <2>6, AwaitingIs, FS_RemoveElement
        <4>4. OwedBy(x) \in Nat
          BY <1>0, <2>3, OwedIs
        <4>5. Awaiting(d)' = Awaiting(c) \ {t} /\ conns'[d] = x
          BY <2>4, <2>6, <3>1
        <4>6. Cardinality(Awaiting(c)) \in Nat
          BY <1>0, AwaitingIs
        <4>7. OwedBy(x) = Cardinality(Awaiting(c) \ {t})
          BY <4>2, <4>3, <4>4, <4>6
        <4> QED
          BY <4>5, <4>7
      <3>2. CASE d # c
        BY <2>4, <2>7, <3>0, <3>2, PongsMeans DEF PongInv
      <3> QED
        BY <3>1, <3>2
    <2> QED
      BY <1>0, <2>8 DEF PongInv
  <1>d. CASE PingUnsent(t) \/ PingBeginReceive(t) \/ PingRefused(t) \/ PingTimeout(t) \/ PingLost(t)
    <2>1. conns' = conns /\ mixed \subseteq mixed'
      BY <1>d DEF PingUnsent, PingBeginReceive, PingRefused, PingTimeout, PingLost
    <2>2. \E state, next, c :
            /\ PingIs(t, state, next, c) /\ c \in 0..Len(conns)
            /\ next \in {"sleeps", "receives", "failed"} /\ (next = "receives" => c # 0)
            /\ \/ state = "sleeps" /\ next = "failed"
               \/ pings[t].on \in mixed' /\ (c = 0 \/ c \in mixed')
               \/ state = "sends" /\ next = "receives" /\ c = pings[t].on
               \/ HasEnded(pings[t].on) /\ c = 0
      <3>1. CASE PingUnsent(t)
        BY <1>w, <3>1 DEF PingUnsent
      <3>2. CASE PingBeginReceive(t)
        <4>1. /\ PingIs(t, "sends", "receives", ws) /\ ws # 0
              /\ mixed' = IF ws = pings[t].on THEN mixed ELSE mixed \cup {ws, pings[t].on}
          BY <3>2 DEF PingBeginReceive, SocketFree
        <4>2. ws = pings[t].on \/ (pings[t].on \in mixed' /\ ws \in mixed')
          BY <4>1
        <4> QED
          BY <1>w, <4>1, <4>2
      <3>3. CASE PingRefused(t)
        <4>1. PingIs(t, "sends", "failed", 0) /\ pings[t].on \in mixed'
          BY <3>3 DEF PingRefused
        <4> QED
          BY <1>w, <4>1
      <3>4. CASE PingTimeout(t)
        <4>1. PingIs(t, "receives", "sleeps", 0) /\ pings[t].on \in mixed'
          BY <3>4 DEF PingTimeout
        <4> QED
          BY <1>w, <4>1
      <3>5. CASE PingLost(t)
        BY <1>w, <3>5 DEF PingLost
      <3> QED
        BY <1>d, <3>1, <3>2, <3>3, <3>4, <3>5
    <2>3. PICK state, next, c :
            /\ PingIs(t, state, next, c) /\ c \in 0..Len(conns)
            /\ next \in {"sleeps", "receives", "failed"} /\ (next = "receives" => c # 0)
            /\ \/ state = "sleeps" /\ next = "failed"
               \/ pings[t].on \in mixed' /\ (c = 0 \/ c \in mixed')
               \/ state = "sends" /\ next = "receives" /\ c = pings[t].on
               \/ HasEnded(pings[t].on) /\ c = 0
      BY <2>2
    <2>4. /\ Tasks' = Tasks /\ pings[t].state = state /\ pings'[t].state = next /\ pings'[t].on = c
          /\ \A u \in Tasks : u # t => pings'[u] = pings[u]
      BY <1>0, <2>3, PingIsIs
    <2>5. ASSUME NEW d \in Conns \ mixed', conns[d].served
          PROVE  Awaiting(d)' = Awaiting(d)
      <3> DEFINE Waits(p, u) == p[u].state \in {"sends", "receives"} /\ p[u].on = d
      <3>1. \A u : u \in Awaiting(d)' <=> u \in Tasks /\ Waits(pings', u)
        BY <2>4 DEF Awaiting
      <3>2. \A u : u \in Awaiting(d) <=> u \in Tasks /\ Waits(pings, u)
        BY DEF Awaiting
      <3>3. Waits(pings', t) <=> Waits(pings, t)
        <4>1. d # 0 /\ ~ HasEnded(d)
          BY <1>c, <2>5 DEF HasEnded, Conns
        <4> QED
          BY <2>3, <2>4, <2>5, <4>1
      <3>4. \A u \in Tasks : u # t => (Waits(pings', u) <=> Waits(pings, u))
        BY <2>4
      <3> HIDE DEF Waits
      <3>5. \A u : u \in Awaiting(d)' <=> u \in Awaiting(d)
        BY <3>1, <3>2, <3>3, <3>4
      <3> QED
        BY <3>5
    <2> QED
      BY <1>0, <2>1, <2>5, PongsStay
  <1> QED
    BY <1>a, <1>b, <1>d DEF PingStep

LEMMA PongsAct ==
  ASSUME PongInv, Connect \/ Query \/ Disconnect \/ AppStep
  PROVE  PongInv'
  <1>0. SessTypes /\ SessTypes' /\ Len(asked) \in Nat /\ Len(conns) \in Nat
        /\ Conns = 1..Len(conns)
    BY SessTypesAct DEF PongInv, SessTypes, Conns
  <1>1. \A c \in Conns : conns[c] \in ConnRecords(Len(asked)) /\ (conns[c].served => conns[c].open)
    BY <1>0, ConnStepIs DEF SessTypes
  <1>t. /\ Tasks = 1..Len(pings) /\ pings \in Seq(PingRecords(Len(conns))) /\ Len(pings) \in Nat
        /\ ping_task \in 0..Len(pings)
    BY <1>0 DEF SessTypes, Tasks
  <1>a. CASE Connect
    <2> PICK l \in Nat : l = Len(conns)
      BY <1>0
    <2> PICK x : x = NewConn
      OBVIOUS
    <2>1. conns' = Append(conns, x) /\ mixed' = mixed /\ pings' = pings
      BY <1>a DEF Connect
    <2>2. /\ Conns' = 1..(l + 1) /\ conns'[l + 1] = x /\ \A c \in 1..l : conns'[c] = conns[c]
      <3>1. /\ Len(conns') = l + 1 /\ conns'[l + 1] = x /\ \A c \in 1..l : conns'[c] = conns[c]
            /\ DOMAIN conns' = 1..Len(conns')
        BY <1>0, <2>1, SeqPush DEF SessTypes
      <3> QED
        BY <3>1 DEF Conns
    <2>3. \A d : Awaiting(d)' = Awaiting(d)
      BY <2>1, AwaitingStays
    <2>4. OwedBy(x) = 0
      <3>1. /\ x.up = <<Message("register", 0)>> /\ x.todo = << >> /\ x.down = << >>
        BY DEF NewConn
      <3>2. \A S : << >> \in Seq(S) /\ Len(<< >>) = 0 /\ \A k : k \notin 1..Len(<< >>)
        OBVIOUS
      <3>3. Count(x.todo, "pong") = 0 /\ Count(x.down, "pong") = 0
        BY <3>1, <3>2, CountNone
      <3>4. /\ x.up \in Seq(UpMessages(0)) /\ \A i \in 1..Len(x.up) : x.up[i].type # "ping"
        BY <3>1 DEF Message, UpMessages, Requests
      <3>5. Count(x.up, "ping") = 0
        BY <3>4, CountNone
      <3> QED
        BY <3>3, <3>5 DEF OwedBy
    <2> PICK c : c = l + 1
      OBVIOUS
    <2>5. Awaiting(c) = {}
      <3> SUFFICES ASSUME NEW t \in Tasks, pings[t].state \in {"sends", "receives"}, pings[t].on = c
                   PROVE  FALSE
        BY DEF Awaiting
      <3>1. pings[t] \in PingRecords(l)
        BY <1>t
      <3> QED
        BY <3>1 DEF PingRecords
    <2>6. PongsMatch'
      <3> SUFFICES ASSUME NEW d \in Conns' \ mixed', conns'[d].served
                   PROVE  OwedBy(conns'[d]) = Cardinality(Awaiting(d)')
        BY DEF PongsMatch, Owed, OwedBy
      <3>1. d \in 1..l \/ d = c
        BY <2>2
      <3>2. CASE d = c
        <4>1. Awaiting(d)' = {} /\ conns'[d] = x
          BY <2>2, <2>3, <2>5, <3>2
        <4> QED
          BY <2>4, <4>1, FS_EmptySet
      <3>3. CASE d \in 1..l
        <4>1. d \in Conns \ mixed /\ conns'[d] = conns[d]
          BY <1>0, <2>1, <2>2, <3>3
        <4> QED
          BY <2>3, <4>1, PongsMeans DEF PongInv
      <3> QED
        BY <3>1, <3>2, <3>3
    <2> QED
      BY <1>0, <2>6 DEF PongInv
  <1>b. CASE Query
    <2> PICK n \in Nat : n = Len(asked)
      BY <1>0
    <2> PICK m : m = Message("query", n + 1)
      OBVIOUS
    <2>1. /\ Send(m) /\ pings' = pings /\ mixed \subseteq mixed'
      BY <1>b DEF Query
    <2>2. /\ ws \in Conns /\ m \in UpMessages(n + 1) /\ m.type = "query"
          /\ conns \in Seq(ConnRecords(n + 1)) /\ conns[ws] \in ConnRecords(n + 1)
      <3>1. ws \in Conns
        BY <1>0, <2>1 DEF SessTypes, Send, SocketOpen
      <3>2. m \in UpMessages(n + 1) /\ m.type = "query"
        BY DEF UpMessages, Message, Requests
      <3>3. ConnRecords(n) \subseteq ConnRecords(n + 1)
        BY TypesGrow
      <3>4. conns \in Seq(ConnRecords(n + 1))
        BY <1>0, <3>3, SeqGrows DEF SessTypes
      <3> QED
        BY <1>1, <3>1, <3>2, <3>3, <3>4
    <2> PICK x : x = ConnSend(conns[ws], m)
      OBVIOUS
    <2>3. /\ Len(conns') = Len(conns)
          /\ conns[ws].served => conns'[ws] = x
          /\ ~ conns[ws].served => conns'[ws] = conns[ws]
          /\ \A c \in Conns : c # ws => conns'[c] = conns[c]
      <3>1. CASE conns[ws].served
        <4>1. conns' = [conns EXCEPT ![ws].up = Append(@, m)]
          BY <2>1, <3>1 DEF Send
        <4>2. conns' = [conns EXCEPT ![ws] = x]
          BY <2>2, <3>1, <4>1 DEF ConnSend
        <4> QED
          BY <2>2, <3>1, <4>2 DEF Conns
      <3>2. CASE ~ conns[ws].served
        BY <2>1, <3>2 DEF Send
      <3> QED
        BY <3>1, <3>2
    <2>4. \A d : Awaiting(d)' = Awaiting(d)
      BY <2>1, AwaitingStays
    <2>5. conns[ws].served => OwedBy(x) = OwedBy(conns[ws])
      <3> SUFFICES ASSUME conns[ws].served PROVE OwedBy(x) = OwedBy(conns[ws])
        OBVIOUS
      <3>1. OwedBy(x) = OwedBy(conns[ws]) + (IF m.type = "ping" THEN 1 ELSE 0)
        BY <2>2, OwedSend
      <3>2. OwedBy(conns[ws]) \in Nat
        BY <2>2, OwedIs
      <3> QED
        BY <2>2, <3>1, <3>2
    <2>6. \A c \in Conns \ mixed' : conns'[c].served =>
            conns[c].served /\ OwedBy(conns'[c]) = OwedBy(conns[c]) /\ Awaiting(c)' = Awaiting(c)
      BY <2>3, <2>4, <2>5
    <2> QED
      BY <1>0, <2>1, <2>3, <2>6, PongsStay
  <1>c. CASE Disconnect
    <2>1. /\ pings' = [t \in Tasks |-> IF t = ping_task
                               THEN [state |-> "cancelled", on |-> 0] ELSE pings[t]]
          /\ mixed' = mixed \cup {c \in Conns : ping_task # 0 /\ pings[ping_task].on = c}
          /\ conns' = conns
      BY <1>c DEF Disconnect
    <2>2. /\ Tasks' = Tasks
          /\ \A t \in Tasks : t # ping_task => pings'[t] = pings[t]
          /\ ping_task \in Tasks => pings'[ping_task].state = "cancelled"
          /\ 0 \notin Tasks
      BY <1>t, <2>1 DEF Tasks
    <2>3. ASSUME NEW d \in Conns \ mixed'
          PROVE  Awaiting(d)' = Awaiting(d)
      <3> DEFINE Waits(p, u) == p[u].state \in {"sends", "receives"} /\ p[u].on = d
      <3>1. \A u : u \in Awaiting(d)' <=> u \in Tasks /\ Waits(pings', u)
        BY <2>2 DEF Awaiting
      <3>2. \A u : u \in Awaiting(d) <=> u \in Tasks /\ Waits(pings, u)
        BY DEF Awaiting
      <3>3. ping_task \in Tasks => ~ Waits(pings', ping_task) /\ ~ Waits(pings, ping_task)
        BY <2>1, <2>2
      <3>4. \A u \in Tasks : u # ping_task => (Waits(pings', u) <=> Waits(pings, u))
        BY <2>2
      <3> HIDE DEF Waits
      <3>5. \A u : u \in Awaiting(d)' <=> u \in Awaiting(d)
        BY <3>1, <3>2, <3>3, <3>4
      <3> QED
        BY <3>5
    <2>4. mixed \subseteq mixed' /\ Len(conns') = Len(conns)
      BY <2>1
    <2>5. \A c \in Conns \ mixed' : conns'[c].served =>
            conns[c].served /\ OwedBy(conns'[c]) = OwedBy(conns[c]) /\ Awaiting(c)' = Awaiting(c)
      BY <2>1, <2>3
    <2> QED
      BY <1>0, <2>4, <2>5, PongsStay
  <1>d. CASE Registered
    <2> PICK e : e = [state |-> "sleeps", on |-> 0]
      OBVIOUS
    <2>1. /\ app = "ack" /\ Arrived(ws) /\ Pop(ws) /\ Received(ws).type = "ack"
          /\ pings' = Append(pings, e) /\ mixed' = mixed
      BY <1>d DEF Registered
    <2>2. ws \in Conns
      BY <1>0, <2>1 DEF SessTypes
    <2> PICK x : x = ConnPop(conns[ws])
      OBVIOUS
    <2>3. /\ conns' = [conns EXCEPT ![ws] = x] /\ x \in ConnRecords(Len(asked))
          /\ conns[ws].down # << >> /\ x.served = conns[ws].served /\ x.open = conns[ws].open
          /\ Received(ws) = Head(conns[ws].down)
      BY <1>0, <2>1, <2>2, PopIs
    <2>4. OwedBy(x) = OwedBy(conns[ws])
      <3>1. OwedBy(conns[ws]) = OwedBy(x) + (IF Head(conns[ws].down).type = "pong" THEN 1 ELSE 0)
        BY <1>0, <1>1, <2>2, <2>3, OwedPop
      <3>2. OwedBy(x) \in Nat
        BY <1>0, <2>3, OwedIs
      <3> QED
        BY <2>1, <2>3, <3>1, <3>2
    <2>5. \A d : Awaiting(d)' = Awaiting(d)
      <3> PICK k \in Nat : k = Len(pings)
        BY <1>t
      <3>1. /\ Len(pings') = k + 1 /\ pings'[k + 1] = e /\ \A u \in 1..k : pings'[u] = pings[u]
        <4>1. \A S : pings \in Seq(S) /\ e \in S =>
                /\ Len(pings') = k + 1 /\ pings'[k + 1] = e /\ \A u \in 1..k : pings'[u] = pings[u]
          BY <2>1, SeqPush
        <4>2. e \in PingRecords(Len(conns))
          BY <1>0 DEF PingRecords
        <4> QED
          BY <1>t, <4>1, <4>2
      <3>2. Tasks' = 1..(k + 1) /\ Tasks = 1..k
        <4>1. DOMAIN pings' = 1..Len(pings')
          BY <1>0 DEF SessTypes
        <4> QED
          BY <1>t, <3>1, <4>1 DEF Tasks
      <3>3. \A u : u \in Tasks' <=> u \in Tasks \/ u = k + 1
        BY <3>2
      <3>4. \A u \in Tasks : pings'[u] = pings[u]
        BY <3>1, <3>2
      <3> TAKE d
      <3>5. \A u : u \in Awaiting(d)' <=> u \in Awaiting(d)
        BY <3>1, <3>3, <3>4 DEF Awaiting
      <3> QED
        BY <3>5
    <2>6. x.served => x.open
      BY <1>1, <2>2, <2>3
    <2>7. /\ mixed \subseteq mixed'
          /\ x.served /\ ws \notin mixed' => conns[ws].served /\ OwedBy(x) = OwedBy(conns[ws])
      BY <2>1, <2>3, <2>4
    <2> QED
      BY <1>0, <2>2, <2>3, <2>5, <2>6, <2>7, PongsConn
  <1>e. CASE Collect
    <2>1. /\ app = "answer" /\ Arrived(ws) /\ Pop(ws) /\ pings' = pings
          /\ mixed' = IF Received(ws).type \in Exchange THEN mixed ELSE mixed \cup {ws}
      BY <1>e DEF Collect, NoteOther
    <2>2. ws \in Conns
      BY <1>0, <2>1 DEF SessTypes
    <2> PICK x : x = ConnPop(conns[ws])
      OBVIOUS
    <2>3. /\ conns' = [conns EXCEPT ![ws] = x] /\ x \in ConnRecords(Len(asked))
          /\ conns[ws].down # << >> /\ x.served = conns[ws].served /\ x.open = conns[ws].open
          /\ Received(ws) = Head(conns[ws].down)
      BY <1>0, <2>1, <2>2, PopIs
    <2>4. ws \notin mixed' => OwedBy(x) = OwedBy(conns[ws])
      <3>1. OwedBy(conns[ws]) = OwedBy(x) + (IF Head(conns[ws].down).type = "pong" THEN 1 ELSE 0)
        BY <1>0, <1>1, <2>2, <2>3, OwedPop
      <3>2. OwedBy(x) \in Nat
        BY <1>0, <2>3, OwedIs
      <3>3. "pong" \notin Exchange
        BY DEF Exchange
      <3> QED
        BY <2>1, <2>3, <3>1, <3>2, <3>3
    <2>5. \A d : Awaiting(d)' = Awaiting(d)
      BY <2>1, AwaitingStays
    <2>6. x.served => x.open
      BY <1>1, <2>2, <2>3
    <2>7. /\ mixed \subseteq mixed'
          /\ x.served /\ ws \notin mixed' => conns[ws].served /\ OwedBy(x) = OwedBy(conns[ws])
      BY <2>1, <2>3, <2>4
    <2> QED
      BY <1>0, <2>2, <2>3, <2>5, <2>6, <2>7, PongsConn
  <1>f. CASE CallLost
    <2>1. conns' = conns /\ pings' = pings /\ mixed' = mixed
      BY <1>f DEF CallLost
    <2>2. \A d : Awaiting(d)' = Awaiting(d)
      BY <2>1, AwaitingStays
    <2> QED
      BY <1>0, <2>1, <2>2, PongsStay
  <1>g. CASE Close
    <2>1. /\ app = "closes" /\ pings' = pings /\ mixed' = mixed
      BY <1>g DEF Close
    <2>2. ws \in Conns
      BY <1>0, <2>1 DEF SessTypes
    <2> PICK x : x = ConnClose(conns[ws])
      OBVIOUS
    <2>3. x \in ConnRecords(Len(asked)) /\ conns' = [conns EXCEPT ![ws] = x]
      BY <1>0, <1>g, <2>2, ConnStepIs
    <2>4. ~ x.served
      BY <1>0, <1>1, <2>2, EndFields
    <2>5. \A d : Awaiting(d)' = Awaiting(d)
      BY <2>1, AwaitingStays
    <2>6. /\ mixed \subseteq mixed' /\ (x.served => x.open)
          /\ x.served /\ ws \notin mixed' => conns[ws].served /\ OwedBy(x) = OwedBy(conns[ws])
      BY <2>1, <2>4
    <2> QED
      BY <1>0, <2>2, <2>3, <2>5, <2>6, PongsConn
  <1> QED
    BY <1>a, <1>b, <1>c, <1>d, <1>e, <1>f, <1>g DEF AppStep

LEMMA PongsStep ==
  ASSUME PongInv, [Next]_vars
  PROVE  PongInv'
  <1>1. CASE StopDaemon \/ Stopped \/ StartDaemon \/ UNCHANGED vars
    <2>1. UNCHANGED <<app, satVars, pings, sent, asked, conns, mixed>>
      BY <1>1 DEF StopDaemon, Stopped, StartDaemon, vars
    <2>2. SessTypes'
      BY SessTypesStep DEF PongInv
    <2>3. \A d : Awaiting(d)' = Awaiting(d)
      BY <2>1, AwaitingStays
    <2> QED
      BY <2>1, <2>2, <2>3, PongsStay
  <1>2. CASE \E t \in Tasks : PingStep(t)
    BY <1>2, PongsPing
  <1>3. CASE \E c \in Conns : ConnStep(c)
    BY <1>3, PongsConnStep
  <1>4. CASE Connect \/ Query \/ Disconnect \/ AppStep
    BY <1>4, PongsAct
  <1> QED
    BY <1>1, <1>2, <1>3, <1>4 DEF Next

LEMMA PongsInit == Init => PongInv
  <1> SUFFICES ASSUME Init PROVE PongInv
    OBVIOUS
  <1>1. Conns = {}
    BY DEF Init, Conns
  <1> QED
    BY <1>1, SessTypesInit DEF PongInv, PongsMatch

\* On a connection that is served, and on which no task has given up a reply or
\* received another's, there are as many pings and pongs on their way as there are
\* ping tasks that wait for a pong on it (dap2_client.py, _ping_loop and
\* _handle_client), for any number of connections, tasks, queries and pings.
THEOREM PongsMatchPings == Spec => []PongsMatch
  <1>1. PongInv /\ [Next]_vars => PongInv'
    BY PongsStep
  <1>2. PongInv => PongsMatch
    BY DEF PongInv
  <1> QED
    BY PongsInit, <1>1, <1>2, PTL DEF Spec
=============================================================================
