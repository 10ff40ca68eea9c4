---------------------------- MODULE StatusBoard ----------------------------
(***************************************************************************)
(* What swappable implementations and their tracker promise, without        *)
(* threads, locks or calls.  Interfaces run implementations; a board shows a *)
(* record for each tracked interface; each listener has a screen.  The next *)
(* implementation of a watched interface is activated only when the board   *)
(* shows the present one, and the board changes again only when every       *)
(* listener has been told, in order, of the last change.                    *)
(***************************************************************************)
EXTENDS Naturals, Sequences

CONSTANTS
  Interfaces, Implementations, Watched, Initial,
  RecordOf,      \* the record shown for each implementation
  Listeners, FirstListeners, Faulty,
  NoRecord, Unknown

VARIABLES
  active,    \* the implementation each interface runs
  board,     \* the record shown for each interface
  due,       \* watched interfaces whose activation is not on the board yet
  audience,  \* the listeners, in the order in which they are told
  telling,   \* the <<listener, interface>> pairs still to be told
  screens    \* what each listener shows

boardVars == <<active, board, due, audience, telling, screens>>

Init ==
  /\ active = Initial
  /\ board = [i \in Interfaces |-> NoRecord]
  /\ due = {}
  /\ audience = FirstListeners
  /\ telling = << >>
  /\ screens = [l \in Listeners |-> [i \in Interfaces |-> NoRecord]]

Activate(i, m) ==
  /\ i \notin due
  /\ active' = [active EXCEPT ![i] = m]
  /\ due' = IF i \in Watched THEN due \cup {i} ELSE due
  /\ UNCHANGED <<board, audience, telling, screens>>

Show(i, record) ==
  /\ telling = << >>
  /\ board' = [board EXCEPT ![i] = record]
  /\ telling' = [k \in 1..Len(audience) |-> <<audience[k], i>>]
  /\ UNCHANGED <<active, audience, screens>>

\* The record of what is active goes on the board: by a swap that owes it, or by
\* a registration.
Announce(i) == Show(i, RecordOf[active[i]]) /\ due' = due \ {i}

Withdraw(i) == board[i] # NoRecord /\ Show(i, NoRecord) /\ UNCHANGED due

Tell ==
  /\ telling # << >>
  /\ telling' = Tail(telling)
  /\ LET l == Head(telling)[1]
         i == Head(telling)[2]
     IN  \/ screens' = [screens EXCEPT ![l][i] = board[i]]
         \/ l \in Faulty /\ UNCHANGED screens
  /\ UNCHANGED <<active, board, due, audience>>

Join(l) ==
  /\ telling = << >>
  /\ audience' = Append(audience, l)
  /\ screens' = IF \E k \in 1..Len(audience) : audience[k] = l THEN screens
                ELSE [screens EXCEPT ![l] = [i \in Interfaces |-> Unknown]]
  /\ UNCHANGED <<active, board, due, telling>>

\* The others stay, in their order.
Leave(l) ==
  /\ telling = << >>
  /\ \E n \in 0..Len(audience) :
       LET others == {k \in 1..Len(audience) : audience[k] # l}
       IN  \E f \in [1..n -> others] :
             /\ others = {f[j] : j \in 1..n}
             /\ \A j, k \in 1..n : j < k => f[j] < f[k]
             /\ audience' = [j \in 1..n |-> audience[f[j]]]
  /\ UNCHANGED <<active, board, due, telling, screens>>

Next ==
  \/ \E i \in Interfaces :
       (\E m \in Implementations : Activate(i, m)) \/ Announce(i) \/ Withdraw(i)
  \/ Tell
  \/ \E l \in Listeners : Join(l) \/ Leave(l)

\* What is due is announced in the end, and what is announced is told.
Spec ==
  /\ Init /\ [][Next]_boardVars
  /\ WF_boardVars(Tell)
  /\ \A i \in Interfaces : SF_boardVars(i \in due /\ Announce(i))
=============================================================================
