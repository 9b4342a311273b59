------------------------------- MODULE Calls -------------------------------
(***************************************************************************)
(* What send() promises the goroutines that share the serial bus: calls    *)
(* are numbered as they come, served one at a time in that order, and each *)
(* ends, ok or not, before the next is begun; and however often requests   *)
(* are repeated or delayed, a write reaches a table only after it has been *)
(* begun and never after a later one.                                      *)
(***************************************************************************)
EXTENDS Naturals, Sequences, Functions

CONSTANTS Clients, Devices, Tables, NoClient

VARIABLES
  calls,    \* calls so far
  queue,    \* clients whose call waits, the oldest first
  serving,  \* the client whose call is served, or NoClient
  outcome,  \* how the last call of each client ended: "ok", "failed", or "none"
  writer    \* the call that wrote each table of each device last, 0 for none

vars == <<calls, queue, serving, outcome, writer>>

\* The calls that are or have been served: the others are in the queue.
Begun == 1 .. calls - Len(queue)

Init ==
  /\ calls = 0
  /\ queue = <<>>
  /\ serving = NoClient
  /\ outcome = [c \in Clients |-> "none"]
  /\ writer = [d \in Devices |-> [t \in Tables |-> 0]]

Enter(c) ==
  /\ c \notin Range(queue) /\ c # serving
  /\ calls' = calls + 1
  /\ queue' = Append(queue, c)
  /\ outcome' = [outcome EXCEPT ![c] = "none"]
  /\ UNCHANGED <<serving, writer>>

Serve ==
  /\ serving = NoClient /\ queue # <<>>
  /\ serving' = Head(queue)
  /\ queue' = Tail(queue)
  /\ UNCHANGED <<calls, outcome, writer>>

Finish(how) ==
  /\ serving # NoClient
  /\ serving' = NoClient
  /\ outcome' = [outcome EXCEPT ![serving] = how]
  /\ UNCHANGED <<calls, queue, writer>>

Apply(d, t, call) ==
  /\ call \in Begun /\ call >= writer[d][t]
  /\ writer' = [writer EXCEPT ![d][t] = call]
  /\ UNCHANGED <<calls, queue, serving, outcome>>

Next ==
  \/ \E c \in Clients : Enter(c)
  \/ Serve
  \/ \E how \in {"ok", "failed"} : Finish(how)
  \/ \E d \in Devices, t \in Tables, call \in Begun : Apply(d, t, call)

Spec == Init /\ [][Next]_vars
=============================================================================
