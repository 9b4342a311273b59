---------------------------- MODULE EventStream ----------------------------
(***************************************************************************)
(* What the event dispatcher promises a websocket client: from the moment  *)
(* its listener is registered it is written every event, in the order of   *)
(* publication, each once and none left out, until it is detached.  Where  *)
(* in the stream it starts, and when it is detached, is left open.         *)
(***************************************************************************)
EXTENDS Naturals

CONSTANT Listeners

VARIABLES
  published,   \* events published so far
  seen,        \* number of the last event each listener wrote to its client
  attached     \* listeners that are being served

vars == <<published, seen, attached>>

Init ==
  /\ published = 0
  /\ seen = [l \in Listeners |-> 0]
  /\ attached = {}

Publish ==
  /\ published' = published + 1
  /\ UNCHANGED <<seen, attached>>

Attach(l) ==
  /\ l \notin attached
  /\ attached' = attached \cup {l}
  /\ \E n \in 0 .. published : seen' = [seen EXCEPT ![l] = n]
  /\ UNCHANGED published

Write(l) ==
  /\ l \in attached
  /\ seen[l] < published
  /\ seen' = [seen EXCEPT ![l] = @ + 1]
  /\ UNCHANGED <<published, attached>>

Detach(l) ==
  /\ l \in attached
  /\ attached' = attached \ {l}
  /\ UNCHANGED <<published, seen>>

Next == Publish \/ \E l \in Listeners : Attach(l) \/ Write(l) \/ Detach(l)

Spec == Init /\ [][Next]_vars
=============================================================================
