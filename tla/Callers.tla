------------------------------ MODULE Callers ------------------------------
(***************************************************************************)
(* The threads of an application that uses the mocks of layer0 and layer2.   *)
(* A thread makes one call at a time; a call is a record of its arguments,   *)
(* its local variables and the step it takes next.  The mocks have no lock:  *)
(* between two steps of a call, other threads run.                           *)
(***************************************************************************)
EXTENDS Integers, Sequences, FiniteSets

CONSTANTS
  Threads,
  Idle,      \* the call of a thread that makes none
  MaxCalls   \* bound on the calls made in one behaviour

ASSUME CallersConstants == MaxCalls \in Nat

VARIABLES
  call,   \* the call each thread is in
  calls   \* calls made so far

callerVars == <<call, calls>>

\* The call of thread t has this argument or variable; has come to this step.
Has(t, field) == call[t] # Idle /\ field \in DOMAIN call[t]

At(t, step) == call[t] # Idle /\ call[t].step = step

\* Thread t calls; goes on with its next step; goes on with other values in its
\* local variables; returns to its caller, or raises.
Begin(t, c) ==
  /\ call[t] = Idle /\ calls < MaxCalls
  /\ calls' = calls + 1
  /\ call' = [call EXCEPT ![t] = c]

Goto(t, step) ==
  /\ call' = [call EXCEPT ![t].step = step]
  /\ UNCHANGED calls

Continue(t, c) ==
  /\ call' = [call EXCEPT ![t] = c]
  /\ UNCHANGED calls

\* A call that is one step.
Quick(t) == call[t] = Idle /\ calls < MaxCalls /\ calls' = calls + 1 /\ UNCHANGED call

Return(t) ==
  /\ call' = [call EXCEPT ![t] = Idle]
  /\ UNCHANGED calls

CallersInit ==
  /\ call = [t \in Threads |-> Idle]
  /\ calls = 0

---------------------------------------------------------------------------
\* Every call returns, or raises, once it has begun.
CallsEnd == \A t \in Threads : call[t] # Idle ~> call[t] = Idle
=============================================================================
