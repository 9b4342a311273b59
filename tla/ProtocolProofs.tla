--------------------------- MODULE ProtocolProofs ---------------------------
(***************************************************************************)
(* Proofs about Protocol, for every set of clients, devices and tables and *)
(* every value of the bounds, in three parts: types and who waits for      *)
(* whom; what an answer is worth; in which order calls are served and      *)
(* their writes applied, so that Protocol implements Calls.                *)
(***************************************************************************)
EXTENDS Protocol, SequenceTheorems, TLAPS

-----------------------------------------------------------------------------
(* Calls.                                                                  *)

\* Calls have distinct numbers, and a table's version only grows.
CallsInv ==
  /\ \A c \in Clients : act[c].id <= calls /\ (pc[c] # "idle" => act[c].id >= 1)
  /\ \A c, e \in Clients : act[c].id = act[e].id /\ act[c].id >= 1 => c = e
  /\ \A c \in Clients : act[c].since <= version[act[c].dst][act[c].table]

-----------------------------------------------------------------------------
(* Queues: what Append and Tail do to the elements of a sequence.          *)

LEMMA AppendRange ==
  ASSUME NEW S, NEW s \in Seq(S), NEW x \in S
  PROVE  /\ Append(s, x) \in Seq(S)
         /\ Len(Append(s, x)) = Len(s) + 1
         /\ Range(Append(s, x)) = Range(s) \cup {x}
         /\ \A i \in DOMAIN s : Append(s, x)[i] = s[i]
         /\ Append(s, x)[Len(s) + 1] = x
         /\ DOMAIN Append(s, x) = 1 .. Len(s) + 1
         /\ DOMAIN s = 1 .. Len(s)
  BY DEF Range

LEMMA TailRange ==
  ASSUME NEW S, NEW s \in Seq(S), s # <<>>
  PROVE  /\ Tail(s) \in Seq(S)
         /\ Head(s) \in S
         /\ Head(s) = s[1]
         /\ Len(s) \in Nat /\ Len(s) >= 1
         /\ Len(Tail(s)) = Len(s) - 1
         /\ Range(s) = {Head(s)} \cup Range(Tail(s))
         /\ \A i \in DOMAIN Tail(s) : i + 1 \in DOMAIN s /\ Tail(s)[i] = s[i + 1]
         /\ DOMAIN Tail(s) = 1 .. Len(s) - 1
         /\ DOMAIN s = 1 .. Len(s)
<1>1. Tail(s) \in Seq(S) /\ Head(s) \in S /\ Head(s) = s[1] /\ Len(s) \in Nat /\ Len(s) >= 1
  OBVIOUS
<1>2. Len(Tail(s)) = Len(s) - 1 /\ DOMAIN Tail(s) = 1 .. Len(s) - 1 /\ DOMAIN s = 1 .. Len(s)
  OBVIOUS
<1>3. \A i \in DOMAIN Tail(s) : i + 1 \in DOMAIN s /\ Tail(s)[i] = s[i + 1]
  BY <1>1, <1>2
<1>4. \A j \in DOMAIN s : j # 1 => j - 1 \in DOMAIN Tail(s) /\ s[j] = Tail(s)[j - 1]
  BY <1>1, <1>2, <1>3
<1>5. Range(s) = {Head(s)} \cup Range(Tail(s))
  <2>1. ASSUME NEW j \in DOMAIN s PROVE s[j] \in {Head(s)} \cup Range(Tail(s))
    BY <1>1, <1>4 DEF Range
  <2>2. ASSUME NEW j \in DOMAIN Tail(s) PROVE Tail(s)[j] \in Range(s)
    BY <1>3 DEF Range
  <2>3. Head(s) \in Range(s)
    BY <1>1, <1>2 DEF Range
  <2>4. QED BY <2>1, <2>2, <2>3 DEF Range
<1>6. QED BY <1>1, <1>2, <1>3, <1>5

-----------------------------------------------------------------------------
(* Type correctness.                                                       *)

LEMMA NoActionType == NoAction \in Action /\ NoResult \in Result
  BY ProtocolAssumption DEF NoAction, NoResult, Action, Result

\* Transmitting an action keeps every device's queue a sequence of actions.
LEMMA TransmitType ==
  ASSUME TypeOK, NEW a \in Action, Transmit(a)
  PROVE  inbox' \in [Devices -> Seq(Action)]
  BY AppendRange DEF TypeOK, Transmit, Action

\* What a device's answer does to its queue and to the line.
LEMMA AnswerType ==
  ASSUME TypeOK, NEW d \in Devices, NEW body \in {"data", "short", "ack", "nack"},
         Answer(d, body)
  PROVE  /\ Head(inbox[d]) \in Action
         /\ inbox' \in [Devices -> Seq(Action)]
         /\ wire' \in Seq(Frame)
<1>1. inbox[d] \in Seq(Action) /\ inbox[d] # <<>>
  BY DEF TypeOK, Answer
<1>2. Head(inbox[d]) \in Action /\ Tail(inbox[d]) \in Seq(Action)
  BY <1>1, TailRange
<1>3. inbox' \in [Devices -> Seq(Action)]
  BY <1>2 DEF TypeOK, Answer
<1>4. PICK a \in Action : a = Head(inbox[d])
  BY <1>2
<1>5. [src |-> d, toSAM |-> TRUE, body |-> body, table |-> a.table,
       ver |-> version[d][a.table], id |-> a.id] \in Frame
  BY DEF TypeOK, Frame, Action
<1>6. wire' \in Seq(Frame)
  BY <1>4, <1>5 DEF TypeOK, Answer
<1>7. QED BY <1>2, <1>3, <1>6

\* Returning a result to the client whose action is in hand.
LEMMA ReturnType ==
  ASSUME TypeOK, NEW r \in Result, cur # NoClient, Return(r)
  PROVE  /\ pc' \in [Clients -> PC]
         /\ result' \in [Clients -> Result]
         /\ cur' \in Clients \cup {NoClient}
         /\ tries' \in 0 .. responseRetries - 1
         /\ clean' \in BOOLEAN
<1>1. cur \in Clients
  BY DEF TypeOK
<1>2. pc' \in [Clients -> PC]
  BY <1>1 DEF TypeOK, Return, PC
<1>3. result' \in [Clients -> Result]
  BY <1>1 DEF TypeOK, Return
<1>4. tries' \in 0 .. responseRetries - 1
  BY ProtocolAssumption DEF Return
<1>5. QED BY <1>2, <1>3, <1>4 DEF Return

LEMMA TypeInit == Init => TypeOK
<1> SUFFICES ASSUME Init PROVE TypeOK
  OBVIOUS
<1> USE NoActionType, ProtocolAssumption DEF Init
<1>1. /\ pc \in [Clients -> PC]
      /\ tries \in 0 .. responseRetries - 1
  BY DEF PC
<1>2. /\ act \in [Clients -> Action]
      /\ result \in [Clients -> Result]
  OBVIOUS
<1>3. /\ actionCh \in Seq(Clients)
      /\ responseCh \in Seq(Frame) /\ Len(responseCh) <= RespCap
      /\ wire \in Seq(Frame)
      /\ inbox \in [Devices -> Seq(Action)]
  OBVIOUS
<1>4. /\ version \in [Devices -> [Tables -> Nat]]
      /\ writer \in [Devices -> [Tables -> Nat]]
  OBVIOUS
<1>5. QED BY <1>1, <1>2, <1>3, <1>4 DEF TypeOK

LEMMA TypeStep ==
  ASSUME TypeOK, [Next]_vars
  PROVE  TypeOK'
<1> USE ProtocolAssumption
<1>1. ASSUME NEW c \in Clients, NEW op \in {"READ", "WRITE"}, NEW d \in Devices,
             NEW t \in Tables, Send(c, op, d, t)
      PROVE  TypeOK'
  <2>1. calls' \in Nat /\ act' \in [Clients -> Action]
    BY <1>1 DEF TypeOK, Send, Action
  <2>2. pc' \in [Clients -> PC] /\ actionCh' \in Seq(Clients)
    BY <1>1 DEF TypeOK, Send, PC
  <2>3. QED
    BY <1>1, <2>1, <2>2 DEF TypeOK, Send, brokerVars, deviceVars
<1>2. CASE BrokerAccept
  <2>1. /\ Head(actionCh) \in Clients
        /\ Tail(actionCh) \in Seq(Clients)
    BY <1>2, TailRange DEF TypeOK, BrokerAccept
  <2>2. inbox' \in [Devices -> Seq(Action)]
    BY <1>2, <2>1, TransmitType DEF TypeOK, BrokerAccept
  <2>3. pc' \in [Clients -> PC] /\ clean' \in BOOLEAN
    BY <1>2, <2>1 DEF TypeOK, BrokerAccept, PC, Quiet
  <2>4. QED
    BY <1>2, <2>1, <2>2, <2>3 DEF TypeOK, BrokerAccept, deviceVars
<1>3. CASE BrokerDrop \/ BrokerOther
  <2>1. responseCh # <<>> /\ responseCh' = Tail(responseCh)
    BY <1>3 DEF BrokerDrop, BrokerOther
  <2>2. responseCh' \in Seq(Frame) /\ Len(responseCh') <= RespCap
    BY <2>1 DEF TypeOK
  <2>3. QED
    BY <1>3, <2>2 DEF TypeOK, BrokerDrop, BrokerOther, clientVars, brokerVars, deviceVars
<1>4. CASE BrokerOk
  <2>1. cur \in Clients /\ Head(responseCh) \in Frame
    BY <1>4 DEF TypeOK, BrokerOk
  <2>2. responseCh' \in Seq(Frame) /\ Len(responseCh') <= RespCap
    BY <1>4 DEF TypeOK, BrokerOk
  <2>3. ResultOf(act[cur], Head(responseCh)) \in Result
    BY <2>1 DEF TypeOK, ResultOf, Result, Frame, Action
  <2>4. Return(ResultOf(act[cur], Head(responseCh))) /\ cur # NoClient
    BY <1>4 DEF BrokerOk
  <2>5. QED
    BY <1>4, <2>2, <2>3, <2>4, ReturnType DEF TypeOK, BrokerOk, deviceVars
<1>5. CASE BrokerTick
  <2>1. cur \in Clients /\ act[cur] \in Action
    BY <1>5 DEF TypeOK, BrokerTick
  <2>2. inbox' \in [Devices -> Seq(Action)]
    BY <1>5, <2>1, TransmitType DEF BrokerTick
  <2>3. CASE tries + 1 < responseRetries /\ tries' = tries + 1
               /\ UNCHANGED <<pc, result, cur, clean>>
    <3>1. tries' \in 0 .. responseRetries - 1
      BY <2>3 DEF TypeOK
    <3>2. QED BY <1>5, <2>2, <2>3, <3>1 DEF TypeOK, BrokerTick, deviceVars
  <2>4. CASE Return(NoResult)
    <3>1. cur # NoClient /\ NoResult \in Result
      BY <1>5, NoActionType DEF BrokerTick
    <3>2. QED
      BY <1>5, <2>2, <2>4, <3>1, ReturnType DEF TypeOK, BrokerTick, deviceVars
  <2>5. QED BY <1>5, <2>3, <2>4 DEF BrokerTick
<1>6. CASE HandleFrame \/ LoseFrame
  <2>1. wire # <<>> /\ wire' = Tail(wire)
    BY <1>6 DEF HandleFrame, LoseFrame
  <2>2. Head(wire) \in Frame /\ wire' \in Seq(Frame)
    BY <2>1 DEF TypeOK
  <2>3. responseCh' \in Seq(Frame) /\ Len(responseCh') <= RespCap
    <3>1. CASE responseCh' = responseCh
      BY <3>1 DEF TypeOK
    <3>2. CASE responseCh' = Append(responseCh, Head(wire)) /\ Len(responseCh) < RespCap
      BY <2>2, <3>2 DEF TypeOK
    <3>3. QED BY <1>6, <3>1, <3>2 DEF HandleFrame, LoseFrame
  <2>4. QED
    BY <1>6, <2>2, <2>3 DEF TypeOK, HandleFrame, LoseFrame, clientVars, brokerVars, deviceVars
<1>7. ASSUME NEW d \in Devices, ServeRead(d) PROVE TypeOK'
  <2>1. inbox' \in [Devices -> Seq(Action)] /\ wire' \in Seq(Frame)
    BY <1>7, AnswerType DEF ServeRead
  <2>2. QED
    BY <1>7, <2>1 DEF TypeOK, ServeRead, clientVars, brokerVars, deviceVars
<1>8. ASSUME NEW d \in Devices, ApplyWrite(d) PROVE TypeOK'
  <2>1. /\ Head(inbox[d]) \in Action
        /\ inbox' \in [Devices -> Seq(Action)] /\ wire' \in Seq(Frame)
    BY <1>8, AnswerType DEF ApplyWrite
  <2>2. PICK a \in Action : a = Head(inbox[d])
    BY <2>1
  <2>3. a.table \in Tables /\ a.id \in Nat
    BY DEF Action
  <2>4. /\ version' = [version EXCEPT ![d][a.table] = @ + 1]
        /\ writer' = [writer EXCEPT ![d][a.table] = a.id]
        /\ applied' = applied \cup {a.id}
    BY <1>8, <2>2 DEF ApplyWrite
  <2>5. version' \in [Devices -> [Tables -> Nat]]
    BY <2>3, <2>4 DEF TypeOK
  <2>6. writer' \in [Devices -> [Tables -> Nat]] /\ applied' \in SUBSET Nat
    BY <2>3, <2>4 DEF TypeOK
  <2>7. QED
    BY <1>8, <2>1, <2>5, <2>6 DEF TypeOK, ApplyWrite, clientVars, brokerVars
<1>9. ASSUME NEW d \in Devices, RefuseWrite(d) PROVE TypeOK'
  <2>1. inbox' \in [Devices -> Seq(Action)] /\ wire' \in Seq(Frame)
    BY <1>9, AnswerType DEF RefuseWrite
  <2>2. QED
    BY <1>9, <2>1 DEF TypeOK, RefuseWrite, clientVars, brokerVars, deviceVars
<1>10. ASSUME NEW d \in Devices, LoseRequest(d) PROVE TypeOK'
  <2>1. inbox' \in [Devices -> Seq(Action)]
    BY <1>10, TailRange DEF TypeOK, LoseRequest
  <2>2. QED
    BY <1>10, <2>1 DEF TypeOK, LoseRequest, clientVars, brokerVars, deviceVars
<1>11. ASSUME NEW d \in Devices, NEW t \in Tables, DeviceChange(d, t) PROVE TypeOK'
  <2>1. version' \in [Devices -> [Tables -> Nat]]
    BY <1>11 DEF TypeOK, DeviceChange
  <2>2. QED
    BY <1>11, <2>1 DEF TypeOK, DeviceChange, clientVars, brokerVars
<1>12. ASSUME NEW d \in Devices, NEW t \in Tables, ForeignResponse(d, t) PROVE TypeOK'
  <2>1. wire' \in Seq(Frame)
    BY <1>12 DEF TypeOK, ForeignResponse, Frame
  <2>2. QED
    BY <1>12, <2>1 DEF TypeOK, ForeignResponse, clientVars, brokerVars, deviceVars
<1>13. CASE UNCHANGED vars
  BY <1>13 DEF TypeOK, vars, clientVars, brokerVars, deviceVars
<1>14. QED
  BY <1>1, <1>2, <1>3, <1>4, <1>5, <1>6, <1>7, <1>8, <1>9, <1>10, <1>11, <1>12, <1>13
     DEF Next, ClientNext, BrokerNext, DeviceNext

\* Every variable keeps its type: in particular responseCh never outgrows its
\* capacity and the broker never counts beyond its retransmissions.
THEOREM TypeCorrect == Spec => []TypeOK
BY TypeInit, TypeStep, PTL DEF Spec

-----------------------------------------------------------------------------
(* The hand-over between clients and broker.                               *)

\* What the proofs below use of TypeOK, element by element.
LEMMA Elements ==
  ASSUME TypeOK
  PROVE  /\ calls \in Nat
         /\ \A c \in Clients :
              /\ act[c] \in Action /\ act[c].id \in Nat /\ act[c].since \in Nat
              /\ act[c].dst \in Devices /\ act[c].table \in Tables
         /\ cur # NoClient => cur \in Clients
         /\ \A i \in DOMAIN actionCh : actionCh[i] \in Clients
         /\ \A d \in Devices, t \in Tables : version[d][t] \in Nat /\ writer[d][t] \in Nat
<1>1. \A c \in Clients : act[c] \in Action
  BY DEF TypeOK
<1>2. \A a \in Action : /\ a.id \in Nat /\ a.since \in Nat
                        /\ a.dst \in Devices /\ a.table \in Tables
  BY DEF Action
<1>3. \A i \in DOMAIN actionCh : actionCh[i] \in Clients
  BY DEF TypeOK
<1>4. \A d \in Devices, t \in Tables : version[d][t] \in Nat /\ writer[d][t] \in Nat
  BY DEF TypeOK
<1>5. QED BY <1>1, <1>2, <1>3, <1>4 DEF TypeOK

\* A write of a device advances one table's version and records the writer.
LEMMA ApplyEffect ==
  ASSUME TypeOK, NEW e \in Devices, ApplyWrite(e)
  PROVE  /\ Head(inbox[e]) \in Action
         /\ Head(inbox[e]).id \in Nat /\ Head(inbox[e]).table \in Tables
         /\ \A d \in Devices, t \in Tables :
              IF d = e /\ t = Head(inbox[e]).table
              THEN version'[d][t] = version[d][t] + 1 /\ writer'[d][t] = Head(inbox[e]).id
              ELSE version'[d][t] = version[d][t] /\ writer'[d][t] = writer[d][t]
         /\ applied' = applied \cup {Head(inbox[e]).id}
<1>1. PICK a \in Action : a = Head(inbox[e])
  BY AnswerType DEF ApplyWrite
<1>2. a.table \in Tables /\ a.id \in Nat
  BY DEF Action
<1>3. /\ version' = [version EXCEPT ![e][a.table] = @ + 1]
      /\ writer' = [writer EXCEPT ![e][a.table] = a.id]
      /\ applied' = applied \cup {a.id}
  BY <1>1 DEF ApplyWrite
<1>4. ASSUME NEW d \in Devices, NEW t \in Tables
      PROVE  IF d = e /\ t = a.table
             THEN version'[d][t] = version[d][t] + 1 /\ writer'[d][t] = a.id
             ELSE version'[d][t] = version[d][t] /\ writer'[d][t] = writer[d][t]
  BY <1>2, <1>3 DEF TypeOK
<1>5. QED BY <1>1, <1>2, <1>3, <1>4

\* Versions never go back: what a call saw when it started is still a lower
\* bound later.
LEMMA VersionsGrow ==
  ASSUME TypeOK, [Next]_vars
  PROVE  \A d \in Devices, t \in Tables : version[d][t] <= version'[d][t]
<1> SUFFICES ASSUME NEW d \in Devices, NEW t \in Tables
             PROVE  version[d][t] <= version'[d][t]
  OBVIOUS
<1>1. version[d][t] \in Nat
  BY Elements
<1>2. CASE version' = version
  BY <1>1, <1>2
<1>3. ASSUME NEW e \in Devices, ApplyWrite(e) PROVE version[d][t] <= version'[d][t]
  BY <1>1, <1>3, ApplyEffect
<1>4. ASSUME NEW e \in Devices, NEW u \in Tables, DeviceChange(e, u)
      PROVE  version[d][t] <= version'[d][t]
  BY <1>4 DEF TypeOK, DeviceChange
<1>5. QED
  BY <1>2, <1>3, <1>4
     DEF Next, ClientNext, BrokerNext, DeviceNext, Send, BrokerAccept, BrokerDrop, BrokerOk,
         BrokerOther, BrokerTick, HandleFrame, LoseFrame, ServeRead, RefuseWrite,
         LoseRequest, ForeignResponse, vars, deviceVars

HandoverInv == Handover /\ CallsInv

\* CallsInv survives every step that leaves the calls alone.
LEMMA CallsFrame ==
  ASSUME TypeOK, HandoverInv, [Next]_vars, UNCHANGED <<act, calls>>,
         \A c \in Clients : pc'[c] # "idle" => pc[c] # "idle"
  PROVE  CallsInv'
<1>1. \A c \in Clients : act[c].since <= version'[act[c].dst][act[c].table]
  <2> SUFFICES ASSUME NEW c \in Clients
               PROVE  act[c].since <= version'[act[c].dst][act[c].table]
    OBVIOUS
  <2> DEFINE v == version[act[c].dst][act[c].table]
             w == version'[act[c].dst][act[c].table]
  <2>1. act[c].since <= v
    BY DEF HandoverInv, CallsInv
  <2>2. v <= w /\ v \in Nat /\ act[c].since \in Nat
    BY Elements, VersionsGrow
  <2>3. w \in Int
    <3>1. TypeOK'
      BY TypeStep
    <3>2. version' \in [Devices -> [Tables -> Nat]]
      BY <3>1 DEF TypeOK
    <3>3. QED BY <3>2, Elements
  <2>4. QED BY <2>1, <2>2, <2>3
<1>2. QED BY <1>1 DEF HandoverInv, CallsInv

\* The steps that concern neither the clients nor the broker's queue.
LEMMA HandoverFrame ==
  ASSUME TypeOK, HandoverInv, [Next]_vars, UNCHANGED <<pc, act, calls, actionCh, cur>>
  PROVE  HandoverInv'
<1>1. CallsInv'
  BY CallsFrame
<1>2. Handover'
  BY DEF HandoverInv, Handover
<1>3. QED BY <1>1, <1>2 DEF HandoverInv

LEMMA HandoverSend ==
  ASSUME TypeOK, HandoverInv, NEW c \in Clients, NEW op \in {"READ", "WRITE"},
         NEW d \in Devices, NEW t \in Tables, Send(c, op, d, t)
  PROVE  HandoverInv'
<1>1. /\ pc[c] \in {"idle", "returned"} /\ pc'[c] = "sending"
      /\ \A e \in Clients : e # c => pc'[e] = pc[e] /\ act'[e] = act[e]
      /\ calls' = calls + 1 /\ cur' = cur /\ version' = version
  BY DEF Send, TypeOK, brokerVars, deviceVars
<1>2. /\ act'[c].id = calls + 1
      /\ act'[c].since = version[d][t] /\ act'[c].dst = d /\ act'[c].table = t
  BY DEF Send, TypeOK
<1>3. \A i \in DOMAIN actionCh : actionCh[i] \in Clients /\ actionCh[i] # c
  BY <1>1, Elements DEF HandoverInv, Handover
<1>4. /\ \A i \in DOMAIN actionCh : actionCh'[i] = actionCh[i]
      /\ actionCh'[Len(actionCh) + 1] = c
      /\ DOMAIN actionCh' = 1 .. Len(actionCh) + 1
      /\ DOMAIN actionCh = 1 .. Len(actionCh) /\ Len(actionCh) \in Nat
  BY AppendRange DEF Send, TypeOK
<1>5. cur # c
  BY <1>1 DEF HandoverInv, Handover
<1>6. CallsInv'
  <2>1. \A e \in Clients : act[e].id \in Nat /\ act[e].id <= calls
    BY Elements DEF HandoverInv, CallsInv
  <2>2. \A e \in Clients : act'[e].id <= calls' /\ (pc'[e] # "idle" => act'[e].id >= 1)
    BY <1>1, <1>2, <2>1, Elements DEF HandoverInv, CallsInv
  <2>3. \A e, f \in Clients : act'[e].id = act'[f].id /\ act'[e].id >= 1 => e = f
    BY <1>1, <1>2, <2>1, Elements DEF HandoverInv, CallsInv
  <2>4. \A e \in Clients : act'[e].since <= version'[act'[e].dst][act'[e].table]
    BY <1>1, <1>2, Elements DEF HandoverInv, CallsInv
  <2>5. QED BY <2>2, <2>3, <2>4 DEF CallsInv
<1>7. \A e \in Clients : pc'[e] = "waiting" <=> cur' = e
  BY <1>1, <1>5 DEF HandoverInv, Handover
<1>8. \A e \in Clients : pc'[e] = "sending" <=> \E i \in DOMAIN actionCh' : actionCh'[i] = e
  <2> SUFFICES ASSUME NEW e \in Clients
               PROVE  pc'[e] = "sending" <=> \E i \in DOMAIN actionCh' : actionCh'[i] = e
    OBVIOUS
  <2>1. CASE e = c
    BY <2>1, <1>1, <1>4
  <2>2. CASE e # c
    <3>1. pc[e] = "sending" <=> \E i \in DOMAIN actionCh : actionCh[i] = e
      BY DEF HandoverInv, Handover
    <3>2. (\E i \in DOMAIN actionCh' : actionCh'[i] = e)
            <=> (\E i \in DOMAIN actionCh : actionCh[i] = e)
      BY <2>2, <1>4
    <3>3. QED BY <2>2, <3>1, <3>2, <1>1
  <2>3. QED BY <2>1, <2>2
<1>9. \A i \in DOMAIN actionCh : /\ act'[actionCh'[i]] = act[actionCh[i]]
                                 /\ act[actionCh[i]].id \in Nat
                                 /\ act[actionCh[i]].id < calls + 1
  BY <1>1, <1>3, <1>4, Elements DEF HandoverInv, CallsInv
<1>10. act'[actionCh'[Len(actionCh) + 1]].id = calls + 1
  BY <1>2, <1>4
<1>11. \A i, j \in DOMAIN actionCh' : i < j => act'[actionCh'[i]].id < act'[actionCh'[j]].id
  BY <1>4, <1>9, <1>10 DEF HandoverInv, Handover
<1>12. cur' # NoClient => \A i \in DOMAIN actionCh' : act'[cur'].id < act'[actionCh'[i]].id
  <2> SUFFICES ASSUME cur # NoClient, NEW i \in DOMAIN actionCh'
               PROVE  act[cur].id < act'[actionCh'[i]].id
    BY <1>1, <1>5, Elements
  <2>1. act[cur].id < calls + 1
    BY Elements DEF HandoverInv, CallsInv
  <2>2. CASE i \in DOMAIN actionCh
    BY <2>2, <1>9 DEF HandoverInv, Handover
  <2>3. CASE i = Len(actionCh) + 1
    BY <2>1, <2>3, <1>10
  <2>4. QED BY <2>2, <2>3, <1>4
<1>13. QED BY <1>6, <1>7, <1>8, <1>11, <1>12 DEF HandoverInv, Handover

LEMMA HandoverAccept ==
  ASSUME TypeOK, HandoverInv, BrokerAccept
  PROVE  HandoverInv'
<1> DEFINE h == Head(actionCh)
<1>1. /\ h \in Clients /\ h = actionCh[1] /\ actionCh' = Tail(actionCh) /\ cur' = h
      /\ cur = NoClient /\ pc' = [pc EXCEPT ![h] = "waiting"]
      /\ act' = act /\ calls' = calls /\ version' = version
      /\ 1 \in DOMAIN actionCh
  BY TailRange DEF BrokerAccept, TypeOK, deviceVars
<1>2. /\ \A i \in DOMAIN actionCh' : i + 1 \in DOMAIN actionCh /\ actionCh'[i] = actionCh[i + 1]
      /\ DOMAIN actionCh' = 1 .. Len(actionCh) - 1
      /\ DOMAIN actionCh = 1 .. Len(actionCh) /\ Len(actionCh) \in Nat
  BY <1>1, TailRange DEF BrokerAccept, TypeOK
<1>3. \A i \in DOMAIN actionCh : actionCh[i] \in Clients /\ act[actionCh[i]].id \in Nat
  BY DEF TypeOK, Action
<1>4. pc[h] = "sending" /\ h # NoClient
  BY <1>1, ProtocolAssumption DEF HandoverInv, Handover
<1>5. \A i \in DOMAIN actionCh : i > 1 => act[h].id < act[actionCh[i]].id /\ actionCh[i] # h
  BY <1>1, <1>2, <1>3 DEF HandoverInv, Handover
<1>6. CallsInv'
  BY <1>1, <1>4 DEF TypeOK, HandoverInv, CallsInv
<1>7. \A e \in Clients : pc'[e] = "waiting" <=> cur' = e
  BY <1>1, ProtocolAssumption DEF TypeOK, HandoverInv, Handover
<1>8. \A e \in Clients : pc'[e] = "sending" <=> \E i \in DOMAIN actionCh' : actionCh'[i] = e
  <2> SUFFICES ASSUME NEW e \in Clients
               PROVE  pc'[e] = "sending" <=> \E i \in DOMAIN actionCh' : actionCh'[i] = e
    OBVIOUS
  <2>1. CASE e = h
    <3>1. pc'[e] # "sending"
      BY <2>1, <1>1 DEF TypeOK
    <3>2. \A i \in DOMAIN actionCh' : actionCh'[i] # e
      BY <2>1, <1>2, <1>5
    <3>3. QED BY <3>1, <3>2
  <2>2. CASE e # h
    <3>1. pc'[e] = pc[e]
      BY <2>2, <1>1 DEF TypeOK
    <3>2. ASSUME NEW i \in DOMAIN actionCh, actionCh[i] = e
          PROVE  i - 1 \in DOMAIN actionCh' /\ actionCh'[i - 1] = e
      BY <2>2, <3>2, <1>1, <1>2
    <3>3. QED BY <3>1, <3>2, <1>2 DEF HandoverInv, Handover
  <2>3. QED BY <2>1, <2>2
<1>9. \A i, j \in DOMAIN actionCh' : i < j => act'[actionCh'[i]].id < act'[actionCh'[j]].id
  BY <1>1, <1>2 DEF HandoverInv, Handover
<1>10. \A i \in DOMAIN actionCh' : act'[cur'].id < act'[actionCh'[i]].id
  BY <1>1, <1>2, <1>5
<1>11. QED BY <1>6, <1>7, <1>8, <1>9, <1>10 DEF HandoverInv, Handover

LEMMA HandoverReturn ==
  ASSUME TypeOK, HandoverInv, cur # NoClient, NEW r, Return(r),
         UNCHANGED <<act, calls, actionCh, version>>
  PROVE  HandoverInv'
<1>1. cur \in Clients /\ cur' = NoClient /\ pc' = [pc EXCEPT ![cur] = "returned"]
  BY DEF TypeOK, Return
<1>2. pc[cur] = "waiting"
  BY <1>1 DEF HandoverInv, Handover
<1>3. CallsInv'
  BY <1>1, <1>2 DEF TypeOK, HandoverInv, CallsInv
<1>4. Handover'
  BY <1>1, <1>2, ProtocolAssumption DEF TypeOK, HandoverInv, Handover
<1>5. QED BY <1>3, <1>4 DEF HandoverInv

LEMMA HandoverStep ==
  ASSUME TypeOK, HandoverInv, [Next]_vars
  PROVE  HandoverInv'
<1>1. ASSUME NEW c \in Clients, NEW op \in {"READ", "WRITE"}, NEW d \in Devices,
             NEW t \in Tables, Send(c, op, d, t)
      PROVE  HandoverInv'
  BY <1>1, HandoverSend
<1>2. CASE BrokerAccept
  BY <1>2, HandoverAccept
<1>3. CASE BrokerOk
  BY <1>3, HandoverReturn DEF BrokerOk, deviceVars
<1>4. CASE BrokerTick
  <2>1. CASE UNCHANGED <<pc, result, cur, clean>>
    BY <2>1, <1>4, HandoverFrame DEF BrokerTick
  <2>2. CASE Return(NoResult)
    BY <2>2, <1>4, HandoverReturn DEF BrokerTick, deviceVars
  <2>3. QED BY <2>1, <2>2, <1>4 DEF BrokerTick
<1>5. CASE UNCHANGED <<pc, act, calls, actionCh, cur>>
  BY <1>5, HandoverFrame
<1>6. QED
  BY <1>1, <1>2, <1>3, <1>4, <1>5
     DEF Next, ClientNext, BrokerNext, DeviceNext, BrokerDrop, BrokerOther, HandleFrame,
         LoseFrame, ServeRead, ApplyWrite, RefuseWrite, LoseRequest, DeviceChange,
         ForeignResponse, vars, clientVars, brokerVars

\* Client goroutines and broker agree on who waits for what, always.
THEOREM HandoverCorrect == Spec => [](Handover /\ CallsInv)
<1>1. Init => HandoverInv
  BY ProtocolAssumption DEF Init, HandoverInv, Handover, CallsInv, NoAction
<1>2. TypeOK /\ HandoverInv /\ [Next]_vars => HandoverInv'
  BY HandoverStep
<1>3. Spec => []HandoverInv
  BY <1>1, <1>2, TypeCorrect, PTL DEF Spec
<1>4. QED BY <1>3 DEF HandoverInv

-----------------------------------------------------------------------------
(* SECOND PART: what an answer is worth.  The invariants say to which      *)
(* calls the requests and responses under way belong.                      *)

-----------------------------------------------------------------------------
(* What one step may add to the queues.                                    *)

\* A request in a device's queue was there before, or was transmitted just now.
LEMMA InboxStep ==
  ASSUME TypeOK, [Next]_vars, NEW d \in Devices, NEW a \in Range(inbox'[d])
  PROVE  \/ a \in Range(inbox[d])
         \/ BrokerAccept /\ a = act[Head(actionCh)] /\ d = a.dst
         \/ BrokerTick /\ a = act[cur] /\ d = a.dst
<1>1. inbox \in [Devices -> Seq(Action)] /\ inbox[d] \in Seq(Action)
  BY DEF TypeOK
<1>2. ASSUME NEW b \in Action, Transmit(b)
      PROVE  a \in Range(inbox[d]) \/ (a = b /\ d = b.dst)
  <2>1. b.dst \in Devices
    BY DEF Action
  <2>2. inbox'[d] = inbox[d] \/ (d = b.dst /\ inbox'[d] = Append(inbox[d], b))
    BY <1>1, <1>2, <2>1 DEF Transmit
  <2>3. Range(Append(inbox[d], b)) = Range(inbox[d]) \cup {b}
    BY <1>1, AppendRange
  <2>4. QED BY <2>2, <2>3
<1>3. ASSUME NEW e \in Devices, inbox[e] # <<>>, inbox' = [inbox EXCEPT ![e] = Tail(@)]
      PROVE  a \in Range(inbox[d])
  <2>1. inbox'[d] = inbox[d] \/ (inbox[d] # <<>> /\ inbox'[d] = Tail(inbox[d]))
    BY <1>1, <1>3
  <2>2. QED BY <1>1, <2>1, TailRange
<1>4. CASE BrokerAccept
  <2>1. act[Head(actionCh)] \in Action /\ Transmit(act[Head(actionCh)])
    BY <1>4, TailRange DEF BrokerAccept, TypeOK
  <2>2. QED BY <1>2, <1>4, <2>1
<1>5. CASE BrokerTick
  <2>1. act[cur] \in Action /\ Transmit(act[cur])
    BY <1>5 DEF BrokerTick, TypeOK
  <2>2. QED BY <1>2, <1>5, <2>1
<1>6. ASSUME NEW e \in Devices, ServeRead(e) \/ ApplyWrite(e) \/ RefuseWrite(e) \/ LoseRequest(e)
      PROVE  a \in Range(inbox[d])
  <2>1. inbox[e] # <<>> /\ inbox' = [inbox EXCEPT ![e] = Tail(@)]
    BY <1>6 DEF ServeRead, ApplyWrite, RefuseWrite, LoseRequest, Answer
  <2>2. QED BY <1>3, <2>1
<1>7. CASE inbox' = inbox
  BY <1>7
<1>8. QED
  BY <1>4, <1>5, <1>6, <1>7
     DEF Next, ClientNext, BrokerNext, DeviceNext, Send, BrokerDrop, BrokerOk, BrokerOther,
         HandleFrame, LoseFrame, DeviceChange, ForeignResponse, vars

\* A response queued for the broker was queued before, or was on the line to us.
LEMMA ResponseStep ==
  ASSUME TypeOK, [Next]_vars, NEW f \in Range(responseCh')
  PROVE  f \in Range(responseCh) \/ (f \in Range(wire) /\ f.toSAM)
<1>1. responseCh \in Seq(Frame) /\ wire \in Seq(Frame)
  BY DEF TypeOK
<1>2. CASE responseCh # <<>> /\ responseCh' = Tail(responseCh)
  BY <1>1, <1>2, TailRange
<1>3. CASE HandleFrame
  <2>1. wire # <<>> /\ Head(wire) \in Frame /\ Head(wire) \in Range(wire)
    BY <1>1, <1>3, TailRange DEF HandleFrame
  <2>2. responseCh' = responseCh
          \/ (Head(wire).toSAM /\ responseCh' = Append(responseCh, Head(wire)))
    BY <1>3 DEF HandleFrame
  <2>3. Range(Append(responseCh, Head(wire))) = Range(responseCh) \cup {Head(wire)}
    BY <1>1, <2>1, AppendRange
  <2>4. QED BY <2>1, <2>2, <2>3
<1>4. CASE responseCh' = responseCh
  BY <1>4
<1>5. QED
  BY <1>2, <1>3, <1>4
     DEF Next, ClientNext, BrokerNext, DeviceNext, Send, BrokerAccept, BrokerDrop, BrokerOk,
         BrokerOther, BrokerTick, LoseFrame, ServeRead, ApplyWrite, RefuseWrite,
         LoseRequest, Answer, DeviceChange, ForeignResponse, vars

\* f is what device d answers to request a.
AnswerTo(d, a, f) ==
  /\ f.src = d /\ f.table = a.table /\ f.id = a.id
  /\ f.ver = version[d][a.table]
  /\ f.body = "ack" => a.id \in applied'

\* A response to us on the line was there before, or answers a request just now.
LEMMA WireStep ==
  ASSUME TypeOK, [Next]_vars, NEW f \in Range(wire'), f.toSAM
  PROVE  \/ f \in Range(wire)
         \/ \E d \in Devices : \E a \in Range(inbox[d]) : AnswerTo(d, a, f)
<1>1. wire \in Seq(Frame)
  BY DEF TypeOK
<1>2. ASSUME NEW d \in Devices, NEW body \in {"data", "short", "ack", "nack"},
             Answer(d, body), body = "ack" => Head(inbox[d]).id \in applied'
      PROVE  f \in Range(wire) \/ \E a \in Range(inbox[d]) : AnswerTo(d, a, f)
  <2>1. inbox[d] \in Seq(Action) /\ inbox[d] # <<>>
    BY <1>2 DEF TypeOK, Answer
  <2>2. PICK a \in Action : a = Head(inbox[d]) /\ a \in Range(inbox[d])
    BY <2>1, TailRange
  <2>3. PICK g \in Frame : g = [src |-> d, toSAM |-> TRUE, body |-> body, table |-> a.table,
                                ver |-> version[d][a.table], id |-> a.id]
    <3>1. a.table \in Tables /\ a.id \in Nat
      BY DEF Action
    <3>2. version[d][a.table] \in Nat
      BY <3>1, Elements
    <3>3. QED BY <3>1, <3>2 DEF Frame
  <2>4. wire' = Append(wire, g)
    BY <1>2, <2>2, <2>3 DEF Answer
  <2>5. f \in Range(wire) \/ f = g
    BY <1>1, <2>4, AppendRange
  <2>6. AnswerTo(d, a, g)
    BY <1>2, <2>2, <2>3 DEF AnswerTo
  <2>7. QED BY <2>2, <2>5, <2>6
<1>3. ASSUME NEW d \in Devices, ServeRead(d)
      PROVE  f \in Range(wire) \/ \E a \in Range(inbox[d]) : AnswerTo(d, a, f)
  BY <1>2, <1>3 DEF ServeRead
<1>4. ASSUME NEW d \in Devices, ApplyWrite(d)
      PROVE  f \in Range(wire) \/ \E a \in Range(inbox[d]) : AnswerTo(d, a, f)
  <2>1. Head(inbox[d]).id \in applied' /\ Answer(d, "ack")
    BY <1>4 DEF ApplyWrite
  <2>2. QED BY <1>2, <2>1
<1>5. ASSUME NEW d \in Devices, RefuseWrite(d)
      PROVE  f \in Range(wire) \/ \E a \in Range(inbox[d]) : AnswerTo(d, a, f)
  BY <1>2, <1>5 DEF RefuseWrite
<1>6. ASSUME NEW d \in Devices, NEW t \in Tables, ForeignResponse(d, t)
      PROVE  f \in Range(wire)
  <2>1. PICK g \in Frame : g = [src |-> d, toSAM |-> FALSE, body |-> "data", table |-> t,
                                ver |-> version[d][t], id |-> 0]
    BY DEF TypeOK, Frame
  <2>2. wire' = Append(wire, g) /\ ~g.toSAM
    BY <1>6, <2>1 DEF ForeignResponse
  <2>3. QED BY <1>1, <2>2, AppendRange
<1>7. CASE HandleFrame \/ LoseFrame
  BY <1>1, <1>7, TailRange DEF HandleFrame, LoseFrame
<1>8. CASE wire' = wire
  BY <1>8
<1>9. QED
  BY <1>3, <1>4, <1>5, <1>6, <1>7, <1>8
     DEF Next, ClientNext, BrokerNext, DeviceNext, Send, BrokerAccept, BrokerDrop, BrokerOk,
         BrokerOther, BrokerTick, LoseRequest, DeviceChange, vars

-----------------------------------------------------------------------------
(* The invariants.                                                         *)

\* An unserved request is a copy of the action it was transmitted for.
RequestsInv ==
  \A d \in Devices : \A a \in Range(inbox[d]) :
    /\ a.dst = d
    /\ a.id \in 1 .. calls
    /\ \A c \in Clients : act[c].id = a.id => act[c] = a

\* A response to us tells the truth about the call it carries.
Truthful(f) ==
  /\ f.id \in 1 .. calls
  /\ f.body = "ack" => f.id \in applied
  /\ \A c \in Clients : act[c].id = f.id => act[c].since <= f.ver

FramesInv ==
  /\ \A f \in Range(responseCh) : Truthful(f)
  /\ \A f \in Range(wire) : f.toSAM => Truthful(f)

\* A request of call n is unserved, or a response to it is on its way to us.
IsOut(n) ==
  \/ \E d \in Devices : \E a \in Range(inbox[d]) : a.id = n
  \/ \E f \in Range(responseCh) : f.id = n
  \/ \E f \in Range(wire) : f.toSAM /\ f.id = n

\* What is outstanding belongs to the call being served or to earlier ones; if
\* that call started clean, to it alone.
OrderInv ==
  /\ cur # NoClient => \A n : IsOut(n) => n <= act[cur].id
  /\ \A i \in DOMAIN actionCh : \A n : IsOut(n) => n < act[actionCh[i]].id
  /\ cur # NoClient /\ clean => \A n : IsOut(n) => n = act[cur].id

AnswerInv ==
  /\ TypeOK
  /\ HandoverInv
  /\ RequestsInv
  /\ FramesInv
  /\ OrderInv

\* What a step can make outstanding: the call it transmits.
LEMMA OutStep ==
  ASSUME TypeOK, [Next]_vars, NEW n, IsOut(n)'
  PROVE  \/ IsOut(n)
         \/ BrokerAccept /\ n = act[Head(actionCh)].id
         \/ BrokerTick /\ n = act[cur].id
<1>1. ASSUME NEW d \in Devices, NEW a \in Range(inbox'[d]), a.id = n
      PROVE  \/ IsOut(n)
             \/ BrokerAccept /\ n = act[Head(actionCh)].id
             \/ BrokerTick /\ n = act[cur].id
  BY <1>1, InboxStep DEF IsOut
<1>2. ASSUME NEW f \in Range(responseCh'), f.id = n
      PROVE  IsOut(n)
  BY <1>2, ResponseStep DEF IsOut
<1>3. ASSUME NEW f \in Range(wire'), f.toSAM, f.id = n
      PROVE  IsOut(n)
  <2>1. CASE f \in Range(wire)
    BY <1>3, <2>1 DEF IsOut
  <2>2. CASE \E d \in Devices : \E a \in Range(inbox[d]) : AnswerTo(d, a, f)
    BY <1>3, <2>2 DEF IsOut, AnswerTo
  <2>3. QED BY <1>3, <2>1, <2>2, WireStep
<1>4. QED BY <1>1, <1>2, <1>3 DEF IsOut

\* Outstanding calls have been made.
LEMMA OutIsCall ==
  ASSUME RequestsInv, FramesInv, NEW n, IsOut(n)
  PROVE  n \in 1 .. calls
  BY DEF RequestsInv, FramesInv, Truthful, IsOut

\* Except for the action a new call writes, actions and call numbers stay.
LEMMA ActStep ==
  ASSUME TypeOK, [Next]_vars
  PROVE  /\ calls \in Nat /\ calls' \in Nat /\ calls <= calls'
         /\ \A c \in Clients : act'[c] = act[c] \/ act'[c].id = calls + 1
         /\ applied \subseteq applied'
<1>1. ASSUME NEW c \in Clients, NEW op \in {"READ", "WRITE"}, NEW d \in Devices,
             NEW t \in Tables, Send(c, op, d, t)
      PROVE  /\ calls' = calls + 1
             /\ \A e \in Clients : act'[e] = act[e] \/ act'[e].id = calls + 1
             /\ applied' = applied
  BY <1>1 DEF Send, TypeOK, deviceVars
<1>2. calls \in Nat
  BY DEF TypeOK
<1>3. ASSUME NEW d \in Devices, ApplyWrite(d)
      PROVE  UNCHANGED <<act, calls>> /\ applied \subseteq applied'
  BY <1>3 DEF ApplyWrite, clientVars
<1>4. CASE ClientNext
  BY <1>1, <1>2, <1>4 DEF ClientNext
<1>5. CASE DeviceNext
  <2>1. ASSUME NEW d \in Devices,
               \/ ServeRead(d) \/ RefuseWrite(d) \/ LoseRequest(d)
               \/ \E t \in Tables : DeviceChange(d, t) \/ ForeignResponse(d, t)
        PROVE  UNCHANGED <<act, calls, applied>>
    BY <2>1 DEF ServeRead, RefuseWrite, LoseRequest, DeviceChange, ForeignResponse,
                clientVars, deviceVars
  <2>2. UNCHANGED <<act, calls>> /\ applied \subseteq applied'
    BY <1>3, <1>5, <2>1 DEF DeviceNext
  <2>3. QED BY <1>2, <2>2
<1>6. CASE BrokerNext \/ HandleFrame \/ LoseFrame \/ UNCHANGED vars
  <2>1. UNCHANGED <<act, calls, applied>>
    BY <1>6 DEF BrokerNext, BrokerAccept, BrokerDrop, BrokerOk, BrokerOther, BrokerTick,
                HandleFrame, LoseFrame, vars, clientVars, deviceVars
  <2>2. QED BY <1>2, <2>1
<1>7. QED BY <1>4, <1>5, <1>6 DEF Next

LEMMA RequestsStep ==
  ASSUME TypeOK, HandoverInv, RequestsInv, [Next]_vars
  PROVE  RequestsInv'
<1> SUFFICES ASSUME NEW d \in Devices, NEW a \in Range(inbox'[d])
             PROVE  /\ a.dst = d /\ a.id \in 1 .. calls'
                    /\ \A c \in Clients : act'[c].id = a.id => act'[c] = a
  BY DEF RequestsInv
<1>1. CASE a \in Range(inbox[d])
  <2>1. /\ a.dst = d /\ a.id \in 1 .. calls
        /\ \A c \in Clients : act[c].id = a.id => act[c] = a
    BY <1>1 DEF RequestsInv
  <2>2. QED BY <2>1, ActStep
<1>2. ASSUME NEW e \in Clients, pc[e] # "idle", UNCHANGED <<act, calls>>, a = act[e], d = a.dst
      PROVE  /\ a.dst = d /\ a.id \in 1 .. calls'
             /\ \A c \in Clients : act'[c].id = a.id => act'[c] = a
  <2>1. act[e].id \in Nat /\ act[e].id <= calls /\ act[e].id >= 1 /\ calls \in Nat
    BY <1>2, Elements DEF HandoverInv, CallsInv
  <2>2. \A c \in Clients : act[c].id = act[e].id => c = e
    BY <2>1 DEF HandoverInv, CallsInv
  <2>3. QED BY <1>2, <2>1, <2>2
<1>3. CASE BrokerAccept /\ a = act[Head(actionCh)] /\ d = a.dst
  <2>1. Head(actionCh) \in Clients /\ \E i \in DOMAIN actionCh : actionCh[i] = Head(actionCh)
    BY <1>3, TailRange DEF BrokerAccept, TypeOK
  <2>2. pc[Head(actionCh)] = "sending"
    BY <2>1 DEF HandoverInv, Handover
  <2>3. QED BY <1>2, <1>3, <2>1, <2>2 DEF BrokerAccept
<1>4. CASE BrokerTick /\ a = act[cur] /\ d = a.dst
  <2>1. cur \in Clients /\ pc[cur] = "waiting" /\ UNCHANGED <<act, calls>>
    BY <1>4, Elements DEF BrokerTick, HandoverInv, Handover
  <2>2. QED BY <1>2, <1>4, <2>1
<1>5. QED BY <1>1, <1>3, <1>4, InboxStep

LEMMA FramesStep ==
  ASSUME TypeOK, HandoverInv, RequestsInv, FramesInv, [Next]_vars
  PROVE  FramesInv'
<1>1. ASSUME NEW f, Truthful(f)
      PROVE  Truthful(f)'
  <2>1. f.id \in 1 .. calls' /\ (f.body = "ack" => f.id \in applied')
    BY <1>1, ActStep DEF Truthful
  <2>2. ASSUME NEW c \in Clients, act'[c].id = f.id
        PROVE  act'[c].since <= f.ver
    BY <1>1, <2>2, ActStep DEF Truthful
  <2>3. QED BY <2>1, <2>2 DEF Truthful
<1>2. ASSUME NEW d \in Devices, NEW a \in Range(inbox[d]), NEW f, AnswerTo(d, a, f)
      PROVE  Truthful(f)'
  <2>1. /\ f.id = a.id /\ f.ver = version[d][a.table] /\ a.dst = d
        /\ a.id \in 1 .. calls
        /\ \A c \in Clients : act[c].id = a.id => act[c] = a
        /\ f.body = "ack" => f.id \in applied'
    BY <1>2 DEF RequestsInv, AnswerTo
  <2>2. f.id \in 1 .. calls'
    BY <2>1, ActStep
  <2>3. ASSUME NEW c \in Clients, act'[c].id = f.id
        PROVE  act'[c].since <= f.ver
    <3>1. act'[c] = act[c] /\ act[c] = a
      BY <2>1, <2>3, ActStep
    <3>2. act[c].since <= version[act[c].dst][act[c].table]
      BY DEF HandoverInv, CallsInv
    <3>3. QED BY <2>1, <3>1, <3>2
  <2>4. QED BY <2>1, <2>2, <2>3 DEF Truthful
<1>3. ASSUME NEW f \in Range(responseCh')
      PROVE  Truthful(f)'
  BY <1>1, ResponseStep DEF FramesInv
<1>4. ASSUME NEW f \in Range(wire'), f.toSAM
      PROVE  Truthful(f)'
  <2>1. CASE f \in Range(wire)
    BY <1>1, <1>4, <2>1 DEF FramesInv
  <2>2. CASE \E d \in Devices : \E a \in Range(inbox[d]) : AnswerTo(d, a, f)
    BY <1>2, <2>2
  <2>3. QED BY <1>4, <2>1, <2>2, WireStep
<1>5. QED BY <1>3, <1>4 DEF FramesInv

LEMMA OrderSend ==
  ASSUME TypeOK, HandoverInv, RequestsInv, FramesInv, OrderInv, NEW c \in Clients,
         NEW op \in {"READ", "WRITE"}, NEW d \in Devices, NEW t \in Tables,
         Send(c, op, d, t), \A n : IsOut(n)' => IsOut(n)
  PROVE  OrderInv'
<1>1. /\ pc[c] \in {"idle", "returned"} /\ cur' = cur /\ clean' = clean
      /\ \A e \in Clients : e # c => act'[e] = act[e]
      /\ act'[c].id = calls + 1 /\ calls \in Nat
  BY DEF Send, TypeOK, brokerVars
<1>2. /\ \A i \in DOMAIN actionCh : actionCh'[i] = actionCh[i]
      /\ actionCh'[Len(actionCh) + 1] = c
      /\ DOMAIN actionCh' = 1 .. Len(actionCh) + 1
      /\ DOMAIN actionCh = 1 .. Len(actionCh) /\ Len(actionCh) \in Nat
  BY AppendRange DEF Send, TypeOK
<1>3. \A i \in DOMAIN actionCh : act'[actionCh'[i]] = act[actionCh[i]]
  BY <1>1, <1>2, Elements DEF HandoverInv, Handover
<1>4. cur # NoClient => act'[cur] = act[cur]
  BY <1>1, Elements DEF HandoverInv, Handover
<1>5. cur' # NoClient => \A n : IsOut(n)' => n <= act'[cur'].id
  BY <1>1, <1>4 DEF OrderInv
<1>6. cur' # NoClient /\ clean' => \A n : IsOut(n)' => n = act'[cur'].id
  BY <1>1, <1>4 DEF OrderInv
<1>7. ASSUME NEW i \in DOMAIN actionCh', NEW n, IsOut(n)'
      PROVE  n < act'[actionCh'[i]].id
  <2>1. IsOut(n)
    BY <1>7
  <2>2. CASE i \in DOMAIN actionCh
    BY <2>1, <2>2, <1>3 DEF OrderInv
  <2>3. CASE i = Len(actionCh) + 1
    <3>1. n \in 1 .. calls
      BY <2>1, OutIsCall
    <3>2. QED BY <2>3, <3>1, <1>1, <1>2
  <2>4. QED BY <2>2, <2>3, <1>2
<1>8. QED BY <1>5, <1>6, <1>7 DEF OrderInv

LEMMA OrderAccept ==
  ASSUME TypeOK, HandoverInv, RequestsInv, FramesInv, OrderInv, BrokerAccept,
         \A n : IsOut(n)' => IsOut(n) \/ n = act[Head(actionCh)].id
  PROVE  OrderInv'
<1> DEFINE h == Head(actionCh)
<1>1. /\ h = actionCh[1] /\ cur' = h /\ act' = act /\ clean' = Quiet
      /\ 1 \in DOMAIN actionCh /\ act[h].id \in Nat
  BY TailRange, Elements DEF BrokerAccept, TypeOK
<1>2. /\ \A i \in DOMAIN actionCh' : i + 1 \in DOMAIN actionCh /\ actionCh'[i] = actionCh[i + 1]
      /\ DOMAIN actionCh' = 1 .. Len(actionCh) - 1 /\ Len(actionCh) \in Nat
  BY TailRange DEF BrokerAccept, TypeOK
<1>3. \A n : IsOut(n) => n \in Nat /\ n < act[h].id
  BY <1>1, OutIsCall DEF OrderInv
<1>4. \A n : IsOut(n)' => n <= act'[cur'].id
  BY <1>1, <1>3
<1>5. ASSUME NEW i \in DOMAIN actionCh', NEW n, IsOut(n)'
      PROVE  n < act'[actionCh'[i]].id
  <2>1. i + 1 \in DOMAIN actionCh /\ actionCh'[i] = actionCh[i + 1] /\ 1 < i + 1
    BY <1>2
  <2>2. CASE IsOut(n)
    BY <2>1, <2>2, <1>1 DEF OrderInv
  <2>3. CASE n = act[h].id
    BY <2>1, <2>3, <1>1 DEF HandoverInv, Handover
  <2>4. QED BY <2>2, <2>3, <1>5
<1>6. Quiet => \A n : ~IsOut(n)
  BY DEF Quiet, IsOut, Range
<1>7. clean' => \A n : IsOut(n)' => n = act'[cur'].id
  BY <1>1, <1>6
<1>8. QED BY <1>4, <1>5, <1>7 DEF OrderInv

LEMMA OrderStep ==
  ASSUME TypeOK, HandoverInv, RequestsInv, FramesInv, OrderInv, [Next]_vars
  PROVE  OrderInv'
<1>1. ASSUME NEW c \in Clients, NEW op \in {"READ", "WRITE"}, NEW d \in Devices,
             NEW t \in Tables, Send(c, op, d, t)
      PROVE  OrderInv'
  <2>1. calls' # calls
    BY <1>1 DEF Send, TypeOK
  <2>2. \A n : IsOut(n)' => IsOut(n)
    BY <2>1, OutStep DEF BrokerAccept, BrokerTick
  <2>3. QED BY <1>1, <2>2, OrderSend
<1>2. CASE BrokerAccept
  <2>1. ~BrokerTick
    BY <1>2 DEF BrokerAccept, BrokerTick
  <2>2. \A n : IsOut(n)' => IsOut(n) \/ n = act[Head(actionCh)].id
    BY <2>1, OutStep
  <2>3. QED BY <1>2, <2>2, OrderAccept
<1>3. ASSUME UNCHANGED <<act, actionCh>>, ~BrokerAccept,
             cur' = NoClient \/ UNCHANGED <<cur, clean>>
      PROVE  OrderInv'
  <2>1. \A n : IsOut(n)' => IsOut(n) \/ (cur # NoClient /\ n = act[cur].id)
    BY <1>3, OutStep DEF BrokerTick
  <2>2. cur # NoClient => act[cur].id \in Nat
    BY Elements
  <2>3. cur' # NoClient => \A n : IsOut(n)' => n <= act'[cur'].id
    BY <1>3, <2>1, <2>2 DEF OrderInv
  <2>4. cur' # NoClient /\ clean' => \A n : IsOut(n)' => n = act'[cur'].id
    BY <1>3, <2>1 DEF OrderInv
  <2>5. \A i \in DOMAIN actionCh' : \A n : IsOut(n)' => n < act'[actionCh'[i]].id
    BY <1>3, <2>1 DEF OrderInv, HandoverInv, Handover
  <2>6. QED BY <2>3, <2>4, <2>5 DEF OrderInv
<1>4. ASSUME ~ClientNext, ~BrokerAccept
      PROVE  /\ UNCHANGED <<act, actionCh>>
             /\ cur' = NoClient \/ UNCHANGED <<cur, clean>>
  <2>1. CASE DeviceNext
    BY <2>1 DEF DeviceNext, ServeRead, ApplyWrite, RefuseWrite, LoseRequest, DeviceChange,
                ForeignResponse, clientVars, brokerVars
  <2>2. CASE BrokerOk \/ BrokerTick
    BY <2>2 DEF BrokerOk, BrokerTick, Return
  <2>3. CASE BrokerDrop \/ BrokerOther \/ HandleFrame \/ LoseFrame \/ UNCHANGED vars
    BY <2>3 DEF BrokerDrop, BrokerOther, HandleFrame, LoseFrame, clientVars, brokerVars, vars
  <2>4. QED BY <2>1, <2>2, <2>3, <1>4 DEF Next, BrokerNext
<1>5. QED BY <1>1, <1>2, <1>3, <1>4 DEF ClientNext

-----------------------------------------------------------------------------
(* The results of calls.                                                   *)

\* A call that has succeeded had before, or was answered by the broker just now.
LEMMA AnsweredStep ==
  ASSUME TypeOK, HandoverInv, [Next]_vars, NEW c \in Clients, Answered(c)'
  PROVE  \/ Answered(c) /\ act'[c] = act[c] /\ result'[c] = result[c]
         \/ BrokerOk /\ c = cur
<1>1. ASSUME NEW e \in Clients, NEW op \in {"READ", "WRITE"}, NEW d \in Devices,
             NEW t \in Tables, Send(e, op, d, t)
      PROVE  Answered(c) /\ act'[c] = act[c] /\ result'[c] = result[c]
  BY <1>1 DEF Send, Answered, TypeOK
<1>2. CASE BrokerAccept
  BY <1>2, TailRange DEF BrokerAccept, Answered, TypeOK
<1>3. CASE BrokerOk
  BY <1>3 DEF BrokerOk, Return, Answered, TypeOK
<1>4. CASE BrokerTick
  BY <1>4 DEF BrokerTick, Return, NoResult, Answered, TypeOK
<1>5. CASE UNCHANGED <<pc, act, result>>
  BY <1>5 DEF Answered
<1>6. QED
  BY <1>1, <1>2, <1>3, <1>4, <1>5
     DEF Next, ClientNext, BrokerNext, DeviceNext, BrokerDrop, BrokerOther, HandleFrame,
         LoseFrame, ServeRead, ApplyWrite, RefuseWrite, LoseRequest, DeviceChange,
         ForeignResponse, Answer, vars, clientVars

\* f is a response the broker accepts for client c, and c's result comes from it.
Accepted(c, f) ==
  /\ Matches(act[c], f)
  /\ Truthful(f)
  /\ f.id <= act[c].id
  /\ clean => f.id = act[c].id
  /\ result'[c] = ResultOf(act[c], f)

\* What the broker returns when it accepts a response.
LEMMA OkResult ==
  ASSUME AnswerInv, BrokerOk
  PROVE  /\ cur \in Clients /\ act' = act
         /\ \E f : Accepted(cur, f)
<1>1. cur \in Clients /\ act' = act
  BY Elements DEF BrokerOk, AnswerInv
<1>2. PICK f : f = Head(responseCh) /\ f \in Range(responseCh)
  BY TailRange DEF BrokerOk, AnswerInv, TypeOK
<1>3. Truthful(f) /\ Matches(act[cur], f)
  BY <1>2 DEF BrokerOk, AnswerInv, FramesInv
<1>4. IsOut(f.id)
  BY <1>2 DEF IsOut
<1>5. f.id <= act[cur].id /\ (clean => f.id = act[cur].id)
  BY <1>4 DEF BrokerOk, AnswerInv, OrderInv
<1>6. result'[cur] = ResultOf(act[cur], f)
  BY <1>1, <1>2 DEF BrokerOk, Return, AnswerInv, TypeOK
<1>7. QED BY <1>1, <1>3, <1>5, <1>6 DEF Accepted

LEMMA OursStep ==
  ASSUME AnswerInv, AnswerIsOurs, [Next]_vars
  PROVE  AnswerIsOurs'
<1> SUFFICES ASSUME NEW c \in Clients, Answered(c)'
             PROVE  /\ result'[c].id \in 1 .. act'[c].id
                    /\ result'[c].src = act'[c].dst
                    /\ act'[c].op = "READ" => result'[c].table = act'[c].table
  BY DEF AnswerIsOurs
<1>1. CASE Answered(c) /\ act'[c] = act[c] /\ result'[c] = result[c]
  BY <1>1 DEF AnswerIsOurs
<1>2. CASE BrokerOk /\ c = cur
  <2>1. PICK f : Accepted(c, f)
    BY <1>2, OkResult
  <2>2. /\ act'[c] = act[c] /\ act[c].id \in Nat
        /\ f.id \in 1 .. calls /\ calls \in Nat
    BY <1>2, <2>1, OkResult, Elements DEF AnswerInv, Accepted, Truthful
  <2>3. f.src = act[c].dst /\ (act[c].op = "READ" => f.table = act[c].table)
    BY <2>1 DEF Accepted, Matches
  <2>4. QED BY <2>1, <2>2, <2>3 DEF Accepted, ResultOf
<1>3. QED BY <1>1, <1>2, AnsweredStep DEF AnswerInv

LEMMA ExactStep ==
  ASSUME AnswerInv, CleanCallsAreExact, [Next]_vars
  PROVE  CleanCallsAreExact'
<1> SUFFICES ASSUME NEW c \in Clients, Answered(c)', result'[c].clean
             PROVE  /\ result'[c].id = act'[c].id
                    /\ act'[c].op = "WRITE" => act'[c].id \in applied'
                    /\ result'[c].decoded => result'[c].ver >= act'[c].since
  BY DEF CleanCallsAreExact
<1>1. applied \subseteq applied'
  BY ActStep DEF AnswerInv
<1>2. CASE Answered(c) /\ act'[c] = act[c] /\ result'[c] = result[c]
  BY <1>1, <1>2 DEF CleanCallsAreExact
<1>3. CASE BrokerOk /\ c = cur
  <2>1. PICK f : Accepted(c, f)
    BY <1>3, OkResult
  <2>2. act'[c] = act[c]
    BY <1>3, OkResult
  <2>3. f.id = act[c].id
    BY <2>1 DEF Accepted, ResultOf
  <2>4. act[c].op = "WRITE" => f.id \in applied
    BY <2>1 DEF Accepted, Matches, Truthful
  <2>5. act[c].since <= f.ver
    BY <2>1, <2>3 DEF Accepted, Truthful
  <2>6. QED BY <1>1, <2>1, <2>2, <2>3, <2>4, <2>5 DEF Accepted, ResultOf
<1>4. QED BY <1>2, <1>3, AnsweredStep DEF AnswerInv

LEMMA AnswerInvCorrect == Spec => []AnswerInv
<1>1. Init => AnswerInv
  <2>1. ASSUME Init PROVE RequestsInv /\ FramesInv /\ OrderInv
    BY <2>1 DEF Init, RequestsInv, FramesInv, OrderInv, Range
  <2>2. ASSUME Init PROVE HandoverInv
    BY <2>2, ProtocolAssumption DEF Init, HandoverInv, Handover, CallsInv, NoAction
  <2>3. QED BY <2>1, <2>2, TypeInit DEF AnswerInv
<1>2. AnswerInv /\ [Next]_vars => AnswerInv'
  BY TypeStep, HandoverStep, RequestsStep, FramesStep, OrderStep DEF AnswerInv
<1>3. QED BY <1>1, <1>2, PTL DEF Spec

\* A successful call's answer answers that call or an earlier one of ours, and
\* comes from the device and, for a read, the table asked.
THEOREM AnswersAreOurs == Spec => []AnswerIsOurs
<1>1. Init => AnswerIsOurs
  BY DEF Init, AnswerIsOurs, Answered
<1>2. AnswerInv /\ AnswerIsOurs /\ [Next]_vars => AnswerIsOurs'
  BY OursStep
<1>3. QED BY <1>1, <1>2, AnswerInvCorrect, PTL DEF Spec

\* A call taken up while nothing was outstanding is answered exactly.
THEOREM CleanAnswersAreExact == Spec => []CleanCallsAreExact
<1>1. Init => CleanCallsAreExact
  BY DEF Init, CleanCallsAreExact, Answered
<1>2. AnswerInv /\ CleanCallsAreExact /\ [Next]_vars => CleanCallsAreExact'
  BY ExactStep
<1>3. QED BY <1>1, <1>2, AnswerInvCorrect, PTL DEF Spec

-----------------------------------------------------------------------------
(* THIRD PART: order.  The argument follows a call's number from the queue *)
(* to the devices: what waits in a device's inbox is sorted, no older than *)
(* what the device has applied and no younger than the call being served.  *)

-----------------------------------------------------------------------------
(* The invariant.                                                          *)

\* The number of the call taken up last.
Taken == calls - Len(actionCh)

\* The queued calls are the ones taken up next.
NumbersInv ==
  /\ \A i \in DOMAIN actionCh : act[actionCh[i]].id = Taken + i
  /\ cur # NoClient => act[cur].id = Taken

DeviceInv(d) ==
  /\ \A i, j \in DOMAIN inbox[d] : i <= j => inbox[d][i].id <= inbox[d][j].id
  /\ \A i \in DOMAIN inbox[d] :
       inbox[d][i].id <= Taken /\ \A t \in Tables : writer[d][t] <= inbox[d][i].id
  /\ \A t \in Tables : writer[d][t] <= Taken

DevicesInv == \A d \in Devices : DeviceInv(d)

WriterInv ==
  /\ AnswerInv
  /\ NumbersInv
  /\ DevicesInv

-----------------------------------------------------------------------------
(* What a step does to the queue, to an inbox and to a table's writer.     *)

LEMMA TakenType ==
  ASSUME TypeOK
  PROVE  Taken \in Int /\ Len(actionCh) \in Nat /\ DOMAIN actionCh = 1 .. Len(actionCh)
BY DEF TypeOK, Taken

\* The elements of an inbox.
LEMMA InboxElements ==
  ASSUME TypeOK, NEW d \in Devices
  PROVE  /\ inbox[d] \in Seq(Action)
         /\ \A i \in DOMAIN inbox[d] : inbox[d][i].id \in Nat
<1>1. inbox[d] \in Seq(Action)
  BY DEF TypeOK
<1>2. \A i \in DOMAIN inbox[d] : inbox[d][i] \in Action
  BY <1>1
<1>3. \A a \in Action : a.id \in Nat
  BY DEF Action
<1>4. QED BY <1>1, <1>2, <1>3

LEMMA TakenStep ==
  ASSUME TypeOK, [Next]_vars
  PROVE  \/ UNCHANGED <<Taken>>
         \/ BrokerAccept /\ Taken' = Taken + 1
<1>1. ASSUME NEW c \in Clients, NEW op \in {"READ", "WRITE"}, NEW d \in Devices,
             NEW t \in Tables, Send(c, op, d, t)
      PROVE  UNCHANGED <<Taken>>
  <2>1. calls' = calls + 1 /\ Len(actionCh') = Len(actionCh) + 1
    BY <1>1, AppendRange DEF Send, TypeOK
  <2>2. QED BY <2>1, TakenType DEF Taken, TypeOK
<1>2. CASE BrokerAccept
  <2>1. calls' = calls /\ Len(actionCh') = Len(actionCh) - 1
    BY <1>2, TailRange DEF BrokerAccept, TypeOK
  <2>2. QED BY <1>2, <2>1, TakenType DEF Taken, TypeOK
<1>3. CASE UNCHANGED <<calls, actionCh>>
  BY <1>3 DEF Taken
<1>4. QED
  BY <1>1, <1>2, <1>3
     DEF Next, ClientNext, BrokerNext, DeviceNext, BrokerDrop, BrokerOk, BrokerOther, BrokerTick,
         HandleFrame, LoseFrame, ServeRead, ApplyWrite, RefuseWrite, LoseRequest, DeviceChange,
         ForeignResponse, vars, clientVars

\* The action whose request is transmitted in a step.
Transmitted(a) ==
  \/ BrokerAccept /\ a = act[Head(actionCh)]
  \/ BrokerTick /\ a = act[cur]

LEMMA InboxShape ==
  ASSUME TypeOK, [Next]_vars, NEW d \in Devices
  PROVE  \/ inbox'[d] = inbox[d]
         \/ inbox[d] # <<>> /\ inbox'[d] = Tail(inbox[d])
         \/ \E a \in Action : Transmitted(a) /\ inbox'[d] = Append(inbox[d], a)
<1>1. ASSUME NEW b \in Action, Transmit(b), Transmitted(b)
      PROVE  \/ inbox'[d] = inbox[d]
             \/ \E a \in Action : Transmitted(a) /\ inbox'[d] = Append(inbox[d], a)
  <2>1. inbox'[d] = inbox[d] \/ inbox'[d] = Append(inbox[d], b)
    BY <1>1 DEF Transmit, TypeOK, Action
  <2>2. QED BY <1>1, <2>1
<1>2. CASE BrokerAccept
  <2>1. act[Head(actionCh)] \in Action /\ Transmit(act[Head(actionCh)])
    BY <1>2, TailRange DEF BrokerAccept, TypeOK
  <2>2. QED BY <1>1, <1>2, <2>1 DEF Transmitted
<1>3. CASE BrokerTick
  <2>1. act[cur] \in Action /\ Transmit(act[cur])
    BY <1>3 DEF BrokerTick, TypeOK
  <2>2. QED BY <1>1, <1>3, <2>1 DEF Transmitted
<1>4. ASSUME NEW e \in Devices, ServeRead(e) \/ ApplyWrite(e) \/ RefuseWrite(e) \/ LoseRequest(e)
      PROVE  inbox'[d] = inbox[d] \/ (inbox[d] # <<>> /\ inbox'[d] = Tail(inbox[d]))
  <2>1. inbox[e] # <<>> /\ inbox' = [inbox EXCEPT ![e] = Tail(@)]
    BY <1>4 DEF ServeRead, ApplyWrite, RefuseWrite, LoseRequest, Answer
  <2>2. QED BY <2>1 DEF TypeOK
<1>5. CASE inbox' = inbox
  BY <1>5
<1>6. QED
  BY <1>2, <1>3, <1>4, <1>5
     DEF Next, ClientNext, BrokerNext, DeviceNext, Send, BrokerDrop, BrokerOk, BrokerOther,
         HandleFrame, LoseFrame, DeviceChange, ForeignResponse, vars

\* Only a device that applies the write at the head of its inbox records a writer.
LEMMA WriterShape ==
  ASSUME TypeOK, [Next]_vars, NEW d \in Devices
  PROVE  \/ \A t \in Tables : writer'[d][t] = writer[d][t]
         \/ /\ ApplyWrite(d)
            /\ inbox[d] # <<>> /\ inbox'[d] = Tail(inbox[d])
            /\ \A t \in Tables : writer'[d][t] = writer[d][t] \/ writer'[d][t] = Head(inbox[d]).id
<1>1. ASSUME NEW e \in Devices, ApplyWrite(e)
      PROVE  \/ \A t \in Tables : writer'[d][t] = writer[d][t]
             \/ /\ ApplyWrite(d)
                /\ inbox[d] # <<>> /\ inbox'[d] = Tail(inbox[d])
                /\ \A t \in Tables :
                     writer'[d][t] = writer[d][t] \/ writer'[d][t] = Head(inbox[d]).id
  <2>1. CASE e # d
    BY <1>1, <2>1, ApplyEffect
  <2>2. CASE e = d
    <3>1. inbox[d] # <<>> /\ inbox'[d] = Tail(inbox[d])
      BY <1>1, <2>2 DEF ApplyWrite, Answer, TypeOK
    <3>2. \A t \in Tables : writer'[d][t] = writer[d][t] \/ writer'[d][t] = Head(inbox[d]).id
      BY <1>1, <2>2, ApplyEffect
    <3>3. QED BY <1>1, <2>2, <3>1, <3>2
  <2>3. QED BY <2>1, <2>2
<1>2. CASE writer' = writer
  BY <1>2
<1>3. QED
  BY <1>1, <1>2
     DEF Next, ClientNext, BrokerNext, DeviceNext, Send, BrokerAccept, BrokerDrop, BrokerOk,
         BrokerOther, BrokerTick, HandleFrame, LoseFrame, ServeRead, RefuseWrite, LoseRequest,
         DeviceChange, ForeignResponse, vars, deviceVars

-----------------------------------------------------------------------------
(* The invariant is kept.                                                  *)

LEMMA NumbersStep ==
  ASSUME TypeOK, HandoverInv, NumbersInv, [Next]_vars
  PROVE  NumbersInv'
<1> USE TakenType
<1>1. ASSUME NEW c \in Clients, NEW op \in {"READ", "WRITE"}, NEW d \in Devices,
             NEW t \in Tables, Send(c, op, d, t)
      PROVE  NumbersInv'
  <2>1. /\ pc[c] \in {"idle", "returned"} /\ cur' = cur
        /\ \A e \in Clients : e # c => act'[e] = act[e]
        /\ act'[c].id = calls + 1 /\ calls \in Nat /\ calls' = calls + 1
    BY <1>1 DEF Send, TypeOK, brokerVars
  <2>2. /\ \A i \in DOMAIN actionCh : actionCh'[i] = actionCh[i]
        /\ actionCh'[Len(actionCh) + 1] = c
        /\ DOMAIN actionCh' = 1 .. Len(actionCh) + 1
        /\ Len(actionCh') = Len(actionCh) + 1
    BY <1>1, AppendRange DEF Send, TypeOK
  <2>3. Taken' = Taken
    BY <2>1, <2>2 DEF Taken
  <2>4. \A i \in DOMAIN actionCh : actionCh[i] \in Clients /\ actionCh[i] # c
    BY <2>1, Elements DEF HandoverInv, Handover
  <2>5. cur # c /\ (cur # NoClient => cur \in Clients)
    BY <2>1, Elements DEF HandoverInv, Handover
  <2>6. ASSUME NEW i \in DOMAIN actionCh'
        PROVE  act'[actionCh'[i]].id = Taken' + i
    <3>1. CASE i \in DOMAIN actionCh
      BY <3>1, <2>1, <2>2, <2>3, <2>4 DEF NumbersInv
    <3>2. CASE i = Len(actionCh) + 1
      BY <3>2, <2>1, <2>2, <2>3 DEF Taken
    <3>3. QED BY <2>2, <3>1, <3>2
  <2>7. cur' # NoClient => act'[cur'].id = Taken'
    BY <2>1, <2>3, <2>5 DEF NumbersInv
  <2>8. QED BY <2>6, <2>7 DEF NumbersInv
<1>2. CASE BrokerAccept
  <2>1. /\ cur' = Head(actionCh) /\ Head(actionCh) = actionCh[1] /\ act' = act
        /\ calls' = calls /\ calls \in Nat /\ Len(actionCh') = Len(actionCh) - 1
        /\ 1 \in DOMAIN actionCh
    BY <1>2, TailRange DEF BrokerAccept, TypeOK
  <2>2. \A i \in DOMAIN actionCh' : i + 1 \in DOMAIN actionCh /\ actionCh'[i] = actionCh[i + 1]
                                    /\ i \in Nat
    BY <1>2, TailRange DEF BrokerAccept, TypeOK
  <2>3. Taken' = Taken + 1
    BY <2>1 DEF Taken
  <2>4. cur' # NoClient => act'[cur'].id = Taken'
    BY <2>1, <2>3 DEF NumbersInv
  <2>5. \A i \in DOMAIN actionCh' : act'[actionCh'[i]].id = Taken' + i
    BY <2>1, <2>2, <2>3 DEF NumbersInv
  <2>6. QED BY <2>4, <2>5 DEF NumbersInv
<1>3. CASE UNCHANGED <<act, calls, actionCh>> /\ cur' \in {cur, NoClient}
  BY <1>3 DEF NumbersInv, Taken
<1>4. QED
  BY <1>1, <1>2, <1>3
     DEF Next, ClientNext, BrokerNext, DeviceNext, BrokerDrop, BrokerOk, BrokerOther, BrokerTick,
         Return, HandleFrame, LoseFrame, ServeRead, ApplyWrite, RefuseWrite, LoseRequest,
         DeviceChange, ForeignResponse, vars, clientVars, brokerVars

\* A request is transmitted with the number of the call taken up last.
LEMMA TransmittedNumber ==
  ASSUME TypeOK, NumbersInv, NEW a \in Action, Transmitted(a)
  PROVE  a.id = Taken'
<1> USE TakenType
<1>1. CASE BrokerAccept /\ a = act[Head(actionCh)]
  <2>1. /\ Head(actionCh) = actionCh[1] /\ 1 \in DOMAIN actionCh
        /\ calls' = calls /\ calls \in Nat /\ Len(actionCh') = Len(actionCh) - 1
    BY <1>1, TailRange DEF BrokerAccept, TypeOK
  <2>2. QED BY <1>1, <2>1 DEF NumbersInv, Taken
<1>2. CASE BrokerTick /\ a = act[cur]
  BY <1>2 DEF BrokerTick, NumbersInv, Taken
<1>3. QED BY <1>1, <1>2 DEF Transmitted

LEMMA DeviceStep ==
  ASSUME TypeOK, NumbersInv, NEW d \in Devices, DeviceInv(d), [Next]_vars
  PROVE  DeviceInv(d)'
<1> DEFINE in == inbox[d]
           out == inbox'[d]
<1>1. /\ in \in Seq(Action) /\ \A i \in DOMAIN in : in[i].id \in Nat
      /\ Taken \in Int /\ \A t \in Tables : writer[d][t] \in Nat
  BY TakenType, Elements, InboxElements
<1>2. Taken' \in Int /\ Taken <= Taken'
  BY <1>1, TakenStep
<1>3. CASE in # <<>> /\ out = Tail(in)
           /\ \A t \in Tables : writer'[d][t] = writer[d][t] \/ writer'[d][t] = in[1].id
  <2>1. \A i \in DOMAIN out : i \in Nat /\ i + 1 \in DOMAIN in /\ out[i] = in[i + 1]
    BY <1>1, <1>3, TailRange
  <2>2. 1 \in DOMAIN in /\ \A i \in DOMAIN in : i \in Nat /\ 1 <= i
    BY <1>1, <1>3, TailRange
  <2>3. \A i, j \in DOMAIN out : i <= j => out[i].id <= out[j].id
    BY <2>1 DEF DeviceInv
  <2>4. \A i \in DOMAIN out : out[i].id <= Taken'
    BY <1>1, <1>2, <2>1 DEF DeviceInv
  <2>5. \A i \in DOMAIN out, t \in Tables : writer'[d][t] <= out[i].id
    BY <1>1, <1>3, <2>1, <2>2 DEF DeviceInv
  <2>6. \A t \in Tables : writer'[d][t] <= Taken'
    BY <1>1, <1>2, <1>3, <2>2 DEF DeviceInv
  <2>7. QED BY <2>3, <2>4, <2>5, <2>6 DEF DeviceInv
<1>4. ASSUME \A t \in Tables : writer'[d][t] = writer[d][t]
      PROVE  DeviceInv(d)'
  <2>1. CASE out = in
    BY <1>1, <1>2, <1>4, <2>1 DEF DeviceInv
  <2>2. CASE in # <<>> /\ out = Tail(in)
    BY <1>3, <1>4, <2>2
  <2>3. ASSUME NEW a \in Action, Transmitted(a), out = Append(in, a)
        PROVE  DeviceInv(d)'
    <3>1. /\ \A i \in DOMAIN in : out[i] = in[i]
          /\ out[Len(in) + 1] = a
          /\ DOMAIN out = 1 .. Len(in) + 1 /\ DOMAIN in = 1 .. Len(in) /\ Len(in) \in Nat
      BY <1>1, <2>3, AppendRange
    <3>2. a.id = Taken'
      BY <2>3, TransmittedNumber
    <3>3. \A i \in DOMAIN in : in[i].id <= Taken'
      BY <1>1, <1>2 DEF DeviceInv
    <3>4. \A i, j \in DOMAIN out : i <= j => out[i].id <= out[j].id
      BY <1>2, <3>1, <3>2, <3>3 DEF DeviceInv
    <3>5. \A t \in Tables : writer'[d][t] <= Taken'
      BY <1>1, <1>2, <1>4 DEF DeviceInv
    <3>6. \A i \in DOMAIN out : out[i].id <= Taken'
      BY <1>2, <3>1, <3>2, <3>3
    <3>7. \A i \in DOMAIN out, t \in Tables : writer'[d][t] <= out[i].id
      BY <1>4, <3>1, <3>2, <3>5 DEF DeviceInv
    <3>8. QED BY <3>4, <3>5, <3>6, <3>7 DEF DeviceInv
  <2>4. QED BY <2>1, <2>2, <2>3, InboxShape
<1>5. Head(in) = in[1]
  BY <1>1
<1>6. QED BY <1>3, <1>4, <1>5, WriterShape

LEMMA WriterInvCorrect == Spec => []WriterInv
<1>1. Init => NumbersInv /\ DevicesInv
  BY DEF Init, NumbersInv, DevicesInv, DeviceInv, Taken
<1>2. AnswerInv /\ NumbersInv /\ DevicesInv /\ [Next]_vars => NumbersInv' /\ DevicesInv'
  BY NumbersStep, DeviceStep DEF AnswerInv, DevicesInv
<1>3. QED BY <1>1, <1>2, AnswerInvCorrect, PTL DEF Spec, WriterInv

-----------------------------------------------------------------------------
(* The theorems.                                                           *)

\* What a device applies is no older than what it applied before.
LEMMA ApplyInOrder ==
  ASSUME WriterInv, [Next]_vars, NEW d \in Devices, NEW t \in Tables
  PROVE  writer'[d][t] >= writer[d][t]
<1>1. TypeOK /\ DeviceInv(d)
  BY DEF WriterInv, AnswerInv, DevicesInv
<1>2. writer[d][t] \in Nat
  BY <1>1, Elements
<1>3. CASE writer'[d][t] = writer[d][t]
  BY <1>2, <1>3
<1>4. CASE inbox[d] # <<>> /\ writer'[d][t] = Head(inbox[d]).id
  <2>1. Head(inbox[d]) = inbox[d][1] /\ 1 \in DOMAIN inbox[d] /\ inbox[d][1].id \in Nat
    BY <1>1, <1>4, TailRange, InboxElements
  <2>2. QED BY <1>1, <1>2, <1>4, <2>1 DEF DeviceInv
<1>5. QED BY <1>1, <1>3, <1>4, WriterShape

\* No device ever lets an earlier call's write replace a later call's.
THEOREM WritesInOrder == Spec => WritesApplyInOrder
<1>1. WriterInv /\ [Next]_vars
        => [\A d \in Devices, t \in Tables : writer'[d][t] >= writer[d][t]]_vars
  BY ApplyInOrder
<1>2. QED BY <1>1, WriterInvCorrect, PTL DEF Spec, WritesApplyInOrder

-----------------------------------------------------------------------------
(* Protocol implements Calls.                                              *)

\* A waiting client is neither in the queue nor being served.
LEMMA SendEnters ==
  ASSUME TypeOK, HandoverInv, NEW c \in Clients, NEW op \in {"READ", "WRITE"},
         NEW d \in Devices, NEW t \in Tables, Send(c, op, d, t)
  PROVE  InOrder!Enter(c)
<1>1. pc[c] \in {"idle", "returned"} /\ pc' = [pc EXCEPT ![c] = "sending"]
      /\ UNCHANGED <<result, cur, writer>>
      /\ calls' = calls + 1 /\ actionCh' = Append(actionCh, c)
  BY DEF Send, brokerVars, deviceVars
<1>2. c \notin Range(actionCh) /\ c # cur
  BY <1>1 DEF HandoverInv, Handover, Range
<1>3. \A e \in Clients : Outcome'[e] = IF e = c THEN "none" ELSE Outcome[e]
  BY <1>1 DEF Outcome, TypeOK
<1>4. Outcome' = [Outcome EXCEPT ![c] = "none"]
  BY <1>3 DEF Outcome
<1>5. QED BY <1>1, <1>2, <1>4 DEF InOrder!Enter, Range, InOrder!Range

LEMMA AcceptServes ==
  ASSUME TypeOK, HandoverInv, BrokerAccept
  PROVE  InOrder!Serve
<1>1. Head(actionCh) \in Clients /\ 1 \in DOMAIN actionCh /\ Head(actionCh) = actionCh[1]
  BY TailRange DEF BrokerAccept, TypeOK
<1>2. pc[Head(actionCh)] = "sending"
  BY <1>1 DEF HandoverInv, Handover
<1>3. pc' = [pc EXCEPT ![Head(actionCh)] = "waiting"] /\ result' = result
  BY DEF BrokerAccept
<1>4. Outcome' = Outcome
  BY <1>1, <1>2, <1>3 DEF Outcome, TypeOK
<1>5. QED BY <1>4 DEF InOrder!Serve, BrokerAccept, deviceVars

LEMMA ReturnFinishes ==
  ASSUME TypeOK, NEW r, Return(r), r.ok \in BOOLEAN, cur # NoClient,
         UNCHANGED <<calls, actionCh, writer>>
  PROVE  InOrder!Finish(IF r.ok THEN "ok" ELSE "failed")
<1>1. cur \in Clients
  BY DEF TypeOK
<1>2. Outcome' = [Outcome EXCEPT ![cur] = IF r.ok THEN "ok" ELSE "failed"]
  BY <1>1 DEF Outcome, TypeOK, Return
<1>3. QED BY <1>2 DEF InOrder!Finish, Return

LEMMA ApplyApplies ==
  ASSUME WriterInv, NEW d \in Devices, ApplyWrite(d)
  PROVE  \E t \in Tables, call \in InOrder!Begun : InOrder!Apply(d, t, call)
<1>1. TypeOK /\ DeviceInv(d) /\ RequestsInv
  BY DEF WriterInv, AnswerInv, DevicesInv
<1>2. PICK a \in Action : a = Head(inbox[d]) /\ a \in Range(inbox[d]) /\ a = inbox[d][1]
                         /\ 1 \in DOMAIN inbox[d]
  BY <1>1, TailRange DEF ApplyWrite, Answer, TypeOK
<1>3. a.id \in Nat /\ a.id >= 1 /\ a.table \in Tables
  BY <1>1, <1>2 DEF RequestsInv, Action
<1>4. a.id <= Taken /\ writer[d][a.table] <= a.id
  BY <1>1, <1>2, <1>3 DEF DeviceInv
<1>5. a.id \in InOrder!Begun /\ a.id >= writer[d][a.table]
  BY <1>1, <1>3, <1>4, TakenType, Elements DEF InOrder!Begun, Taken
<1>6. /\ writer' = [writer EXCEPT ![d][a.table] = a.id]
      /\ UNCHANGED <<pc, result, calls, actionCh, cur>>
  BY <1>2 DEF ApplyWrite, clientVars, brokerVars
<1>7. Outcome' = Outcome
  BY <1>6 DEF Outcome
<1>8. QED BY <1>3, <1>5, <1>6, <1>7 DEF InOrder!Apply

LEMMA CallsStep ==
  ASSUME WriterInv, [Next]_vars
  PROVE  [InOrder!Next]_(InOrder!vars)
<1>1. TypeOK /\ HandoverInv
  BY DEF WriterInv, AnswerInv
<1>2. ASSUME NEW c \in Clients, NEW op \in {"READ", "WRITE"}, NEW d \in Devices,
             NEW t \in Tables, Send(c, op, d, t)
      PROVE  InOrder!Next
  BY <1>1, <1>2, SendEnters DEF InOrder!Next
<1>3. CASE BrokerAccept
  BY <1>1, <1>3, AcceptServes DEF InOrder!Next
<1>4. ASSUME NEW r, Return(r), r.ok \in BOOLEAN, cur # NoClient,
             UNCHANGED <<calls, actionCh, writer>>
      PROVE  InOrder!Next
  <2>1. InOrder!Finish(IF r.ok THEN "ok" ELSE "failed")
    BY <1>1, <1>4, ReturnFinishes
  <2>2. QED BY <2>1 DEF InOrder!Next
<1>5. CASE BrokerOk
  BY <1>4, <1>5 DEF BrokerOk, ResultOf, deviceVars
<1>6. CASE BrokerTick /\ Return(NoResult)
  BY <1>4, <1>6 DEF BrokerTick, NoResult, deviceVars
<1>7. ASSUME NEW d \in Devices, ApplyWrite(d)
      PROVE  InOrder!Next
  BY <1>7, ApplyApplies DEF InOrder!Next
<1>8. ASSUME UNCHANGED <<pc, result, calls, actionCh, cur, writer>>
      PROVE  UNCHANGED InOrder!vars
  BY <1>8 DEF InOrder!vars, Outcome
<1>9. QED
  BY <1>2, <1>3, <1>5, <1>6, <1>7, <1>8
     DEF Next, ClientNext, BrokerNext, DeviceNext, BrokerDrop, BrokerOther, BrokerTick,
         HandleFrame, LoseFrame, ServeRead, RefuseWrite, LoseRequest, DeviceChange,
         ForeignResponse, vars, clientVars, brokerVars, deviceVars

\* The broker with its channels, retransmissions and late answers implements the
\* service of module Calls.
THEOREM ImplementsCalls == Spec => ServedInOrder
<1>1. Init => InOrder!Init
  BY DEF Init, InOrder!Init, Outcome
<1>2. WriterInv /\ [Next]_vars => [InOrder!Next]_(InOrder!vars)
  BY CallsStep
<1>3. Spec => [][InOrder!Next]_(InOrder!vars)
  BY <1>2, WriterInvCorrect, PTL DEF Spec
<1>4. QED BY <1>1, <1>3, PTL DEF ServedInOrder, InOrder!Spec, Spec

-----------------------------------------------------------------------------
(* Before the first retransmission.                                        *)

\* A response to us is on the line.
OnLine == \E i \in DOMAIN wire : wire[i].toSAM

\* At most one request or response of ours is under way.
Single ==
  /\ \A d \in Devices : Len(inbox[d]) <= 1
  /\ \A d, e \in Devices : inbox[d] # <<>> /\ inbox[e] # <<>> => d = e
  /\ Len(responseCh) <= 1
  /\ \A i, j \in DOMAIN wire : wire[i].toSAM /\ wire[j].toSAM => i = j
  /\ \A d \in Devices : inbox[d] # <<>> => responseCh = <<>> /\ ~OnLine
  /\ responseCh # <<>> => ~OnLine

SingleInv ==
  ~ticked => /\ cur = NoClient => Quiet
             /\ cur # NoClient => clean /\ Single

QuietMeans ==
  /\ Quiet <=> (\A d \in Devices : inbox[d] = <<>>) /\ responseCh = <<>> /\ ~OnLine
  /\ Quiet => Single

LEMMA QuietIsSingle == QuietMeans
<1>1. Quiet <=> (\A d \in Devices : inbox[d] = <<>>) /\ responseCh = <<>> /\ ~OnLine
  BY DEF Quiet, OnLine, Range
<1>2. ASSUME Quiet PROVE Single
  <2>1. (\A d \in Devices : inbox[d] = <<>>) /\ responseCh = <<>> /\ ~OnLine
    BY <1>1, <1>2
  <2>2. \A i \in DOMAIN wire : ~wire[i].toSAM
    BY <2>1 DEF OnLine
  <2>3. QED BY <2>1, <2>2 DEF Single
<1>3. QED BY <1>1, <1>2 DEF QuietMeans

\* The same of the state after a step.
LEMMA QuietIsSingleNext == QuietMeans'
BY QuietIsSingle, PTL

\* A device serves or loses the one request.
LEMMA SingleServed ==
  ASSUME TypeOK, Single, NEW d \in Devices, inbox[d] # <<>>,
         inbox' = [inbox EXCEPT ![d] = Tail(@)], responseCh' = responseCh
  PROVE  /\ wire' = wire => Single'
         /\ \A f \in Frame : wire' = Append(wire, f) => Single'
<1>1. inbox \in [Devices -> Seq(Action)] /\ wire \in Seq(Frame) /\ inbox[d] \in Seq(Action)
  BY DEF TypeOK
<1>2. Tail(inbox[d]) = <<>>
  BY <1>1 DEF Single
<1>3. \A e \in Devices : inbox'[e] = <<>>
  BY <1>1, <1>2 DEF Single
<1>4. responseCh' = <<>> /\ ~OnLine /\ \A i \in DOMAIN wire : ~wire[i].toSAM
  BY DEF Single, OnLine
<1>5. ASSUME wire' = wire PROVE Single'
  BY <1>3, <1>4, <1>5 DEF Single, OnLine
<1>6. ASSUME NEW f \in Frame, wire' = Append(wire, f) PROVE Single'
  <2>1. /\ DOMAIN wire' = 1 .. Len(wire) + 1 /\ DOMAIN wire = 1 .. Len(wire) /\ Len(wire) \in Nat
        /\ \A i \in DOMAIN wire : wire'[i] = wire[i]
    BY <1>1, <1>6, AppendRange
  <2>2. \A i, j \in DOMAIN wire' : wire'[i].toSAM /\ wire'[j].toSAM => i = j
    BY <1>4, <2>1
  <2>3. QED BY <1>3, <1>4, <2>2 DEF Single
<1>7. QED BY <1>5, <1>6

\* The reader takes a frame off the line, and may queue it if it is for us.
LEMMA SingleRead ==
  ASSUME TypeOK, Single, wire # <<>>, wire' = Tail(wire), inbox' = inbox,
         \/ responseCh' = responseCh
         \/ Head(wire).toSAM /\ responseCh' = Append(responseCh, Head(wire))
  PROVE  Single'
<1>1. /\ Head(wire) = wire[1] /\ 1 \in DOMAIN wire /\ responseCh \in Seq(Frame)
      /\ \A i \in DOMAIN wire' : /\ i \in Nat /\ i >= 1
                                 /\ i + 1 \in DOMAIN wire /\ wire'[i] = wire[i + 1]
  BY TailRange DEF TypeOK
<1>2. \A i, j \in DOMAIN wire' : wire'[i].toSAM /\ wire'[j].toSAM => i = j
  BY <1>1 DEF Single
<1>3. OnLine' => OnLine
  BY <1>1 DEF OnLine
<1>4. CASE responseCh' = responseCh
  BY <1>2, <1>3, <1>4 DEF Single
<1>5. CASE Head(wire).toSAM /\ responseCh' = Append(responseCh, Head(wire))
  <2>1. OnLine
    BY <1>1, <1>5 DEF OnLine
  <2>2. responseCh = <<>> /\ \A d \in Devices : inbox[d] = <<>>
    BY <2>1 DEF Single
  <2>3. ~OnLine'
    BY <1>1, <1>5 DEF Single, OnLine
  <2>4. Len(responseCh') = 1
    BY <1>1, <1>5, <2>2
  <2>5. QED BY <1>2, <2>2, <2>3, <2>4 DEF Single
<1>6. QED BY <1>4, <1>5

\* The broker takes the one response.
LEMMA SingleTaken ==
  ASSUME TypeOK, Single, responseCh # <<>>, responseCh' = Tail(responseCh),
         UNCHANGED <<inbox, wire>>
  PROVE  (\A d \in Devices : inbox'[d] = <<>>) /\ responseCh' = <<>> /\ ~OnLine'
<1>1. responseCh \in Seq(Frame) /\ Len(responseCh) <= 1
  BY DEF TypeOK, Single
<1>2. responseCh' = <<>>
  BY <1>1
<1>3. QED BY <1>2 DEF Single, OnLine

\* What a device sends to another device.
LEMMA ForeignFrame ==
  ASSUME TypeOK, NEW d \in Devices, NEW t \in Tables, ForeignResponse(d, t)
  PROVE  \E f \in Frame : wire' = Append(wire, f) /\ ~f.toSAM
<1> DEFINE f == [src |-> d, toSAM |-> FALSE, body |-> "data", table |-> t,
                 ver |-> version[d][t], id |-> 0]
<1>1. f \in Frame /\ ~f.toSAM
  BY DEF TypeOK, Frame
<1>2. wire' = Append(wire, f)
  BY DEF ForeignResponse
<1> HIDE DEF f
<1>3. QED BY <1>1, <1>2

LEMMA SingleStep ==
  ASSUME TypeOK, SingleInv, [Next]_vars
  PROVE  SingleInv'
<1>1. TypeOK'
  BY TypeStep
<1>2. SUFFICES ASSUME ~ticked'
               PROVE  /\ cur' = NoClient => Quiet'
                      /\ cur' # NoClient => clean' /\ Single'
  BY DEF SingleInv
<1>3. ~BrokerTick
  BY <1>2 DEF BrokerTick
<1>4. ~ticked
  BY <1>2, <1>3
     DEF Next, ClientNext, BrokerNext, DeviceNext, Send, BrokerAccept, BrokerDrop, BrokerOk,
         BrokerOther, HandleFrame, LoseFrame, ServeRead, ApplyWrite, RefuseWrite, LoseRequest,
         DeviceChange, ForeignResponse, vars, brokerVars
<1>5. /\ cur = NoClient => Quiet
      /\ cur # NoClient => clean /\ Single
      /\ Single
  BY <1>4, QuietIsSingle DEF SingleInv, QuietMeans
<1>6. CASE BrokerAccept
  <2>1. Quiet /\ clean' /\ UNCHANGED <<responseCh, wire>> /\ cur' # NoClient
    <3>1. Head(actionCh) \in Clients
      BY <1>6, TailRange DEF BrokerAccept, TypeOK
    <3>2. QED BY <1>5, <1>6, <3>1, ProtocolAssumption DEF BrokerAccept
  <2>2. (\A d \in Devices : inbox[d] = <<>>) /\ responseCh = <<>> /\ ~OnLine
    BY <2>1, QuietIsSingle DEF QuietMeans
  <2>3. PICK a \in Action : Transmit(a)
    BY <1>6, TailRange DEF BrokerAccept, TypeOK
  <2>4. ASSUME NEW d \in Devices
        PROVE  Len(inbox'[d]) <= 1 /\ (inbox'[d] # <<>> => d = a.dst)
    <3>1. inbox[d] = <<>> /\ Len(inbox[d]) = 0
      BY <2>2
    <3>2. inbox'[d] = inbox[d] \/ (d = a.dst /\ inbox'[d] = Append(inbox[d], a))
      BY <2>3 DEF Transmit, TypeOK, Action
    <3>3. Len(Append(inbox[d], a)) = 1
      BY <3>1, AppendRange, InboxElements
    <3>4. Len(inbox'[d]) <= 1
      <4>1. CASE inbox'[d] = inbox[d]
        BY <3>1, <4>1
      <4>2. CASE inbox'[d] = Append(inbox[d], a)
        BY <3>3, <4>2
      <4>3. QED BY <3>2, <4>1, <4>2
    <3>5. inbox'[d] # <<>> => d = a.dst
      BY <3>1, <3>2
    <3>6. QED BY <3>4, <3>5
  <2>5. Single'
    <3>1. responseCh' = <<>> /\ ~OnLine' /\ \A i \in DOMAIN wire' : ~wire'[i].toSAM
      BY <2>1, <2>2 DEF OnLine
    <3>2. QED BY <2>4, <3>1 DEF Single
  <2>6. QED BY <2>1, <2>5
<1>7. CASE BrokerDrop
  BY <1>5, <1>7, QuietIsSingle DEF BrokerDrop, QuietMeans
<1>8. CASE BrokerOk \/ BrokerOther
  <2>1. Quiet'
    BY <1>5, <1>8, SingleTaken, QuietIsSingleNext DEF BrokerOk, BrokerOther, QuietMeans
  <2>2. Single'
    BY <2>1, QuietIsSingleNext DEF QuietMeans
  <2>3. cur' # NoClient => clean'
    BY <1>5, <1>8 DEF BrokerOk, BrokerOther, Return, brokerVars
  <2>4. QED BY <2>1, <2>2, <2>3
<1>9. CASE DeviceNext \/ HandleFrame \/ LoseFrame
  <2>1. UNCHANGED <<cur, clean>>
    BY <1>9 DEF DeviceNext, ServeRead, ApplyWrite, RefuseWrite, LoseRequest, DeviceChange,
                ForeignResponse, HandleFrame, LoseFrame, brokerVars
  <2>2. Single'
    <3>1. CASE HandleFrame \/ LoseFrame
      BY <1>5, <3>1, SingleRead DEF HandleFrame, LoseFrame
    <3>2. ASSUME NEW d \in Devices, NEW body \in {"data", "short", "ack", "nack"},
                 Answer(d, body), responseCh' = responseCh
          PROVE  Single'
      <4>1. wire' \in Seq(Frame) /\ wire \in Seq(Frame)
        BY <1>1 DEF TypeOK
      <4>2. PICK f : wire' = Append(wire, f)
        BY <3>2 DEF Answer
      <4>3. f \in Frame
        <5>1. f = wire'[Len(wire) + 1] /\ Len(wire) + 1 \in DOMAIN wire'
          BY <4>1, <4>2
        <5>2. QED BY <4>1, <5>1
      <4>4. QED BY <1>5, <3>2, <4>2, <4>3, SingleServed DEF Answer
    <3>3. ASSUME NEW d \in Devices, ServeRead(d) \/ ApplyWrite(d) \/ RefuseWrite(d)
          PROVE  Single'
      BY <3>2, <3>3 DEF ServeRead, ApplyWrite, RefuseWrite
    <3>4. ASSUME NEW d \in Devices, LoseRequest(d) PROVE Single'
      BY <1>5, <3>4, SingleServed DEF LoseRequest
    <3>5. ASSUME NEW d \in Devices, NEW t \in Tables, ForeignResponse(d, t) PROVE Single'
      <4>1. PICK f \in Frame : wire' = Append(wire, f) /\ ~f.toSAM
        BY <3>5, ForeignFrame
      <4>2. /\ DOMAIN wire' = 1 .. Len(wire) + 1 /\ DOMAIN wire = 1 .. Len(wire)
            /\ Len(wire) \in Nat /\ \A i \in DOMAIN wire : wire'[i] = wire[i]
            /\ wire'[Len(wire) + 1] = f
        BY <4>1, AppendRange DEF TypeOK
      <4>3. /\ OnLine' => OnLine
            /\ \A i, j \in DOMAIN wire' : wire'[i].toSAM /\ wire'[j].toSAM => i = j
        BY <1>5, <4>1, <4>2 DEF OnLine, Single
      <4>4. QED BY <1>5, <3>5, <4>3 DEF ForeignResponse, Single
    <3>6. ASSUME NEW d \in Devices, NEW t \in Tables, DeviceChange(d, t) PROVE Single'
      BY <1>5, <3>6 DEF DeviceChange, Single, OnLine
    <3>7. QED BY <1>9, <3>1, <3>3, <3>4, <3>5, <3>6 DEF DeviceNext
  <2>3. Quiet => Quiet'
    <3>1. CASE HandleFrame \/ LoseFrame
      <4>1. ASSUME Quiet PROVE responseCh' = <<>> /\ ~OnLine' /\ inbox' = inbox
        <5>1. \A i \in DOMAIN wire : ~wire[i].toSAM
          BY <4>1, QuietIsSingle DEF OnLine, QuietMeans
        <5>2. wire # <<>> /\ wire' = Tail(wire) /\ inbox' = inbox
          BY <3>1 DEF HandleFrame, LoseFrame
        <5>3. /\ \A i \in DOMAIN wire' : i + 1 \in DOMAIN wire /\ wire'[i] = wire[i + 1]
              /\ Head(wire) = wire[1] /\ 1 \in DOMAIN wire
          BY <5>2, TailRange DEF TypeOK
        <5>4. ~OnLine' /\ ~Head(wire).toSAM
          BY <5>1, <5>3 DEF OnLine
        <5>5. responseCh' = responseCh
          BY <3>1, <5>4 DEF HandleFrame, LoseFrame
        <5>6. QED BY <4>1, <5>2, <5>4, <5>5 DEF Quiet
      <4>2. ASSUME Quiet PROVE \A d \in Devices : inbox'[d] = <<>>
        BY <4>1, <4>2 DEF Quiet
      <4>3. QED BY <4>1, <4>2, QuietIsSingleNext DEF QuietMeans
    <3>2. ASSUME NEW d \in Devices, NEW t \in Tables, ForeignResponse(d, t), Quiet PROVE Quiet'
      <4>1. PICK f \in Frame : wire' = Append(wire, f) /\ ~f.toSAM
        BY <3>2, ForeignFrame
      <4>2. Range(wire') = Range(wire) \cup {f}
        BY <4>1, AppendRange DEF TypeOK
      <4>3. QED BY <3>2, <4>1, <4>2 DEF ForeignResponse, Quiet
    <3>3. ASSUME NEW d \in Devices, NEW t \in Tables, DeviceChange(d, t), Quiet PROVE Quiet'
      BY <3>3 DEF DeviceChange, Quiet
    <3>4. ASSUME NEW d \in Devices, Quiet
          PROVE  ~(ServeRead(d) \/ ApplyWrite(d) \/ RefuseWrite(d) \/ LoseRequest(d))
      BY <3>4 DEF ServeRead, ApplyWrite, RefuseWrite, LoseRequest, Answer, Quiet
    <3>5. QED BY <1>9, <3>1, <3>2, <3>3, <3>4 DEF DeviceNext
  <2>4. QED BY <1>5, <2>1, <2>2, <2>3
<1>10. CASE UNCHANGED <<cur, clean, inbox, responseCh, wire>>
  BY <1>5, <1>10 DEF Quiet, Single, OnLine
<1>11. QED
  BY <1>3, <1>6, <1>7, <1>8, <1>9, <1>10
     DEF Next, ClientNext, BrokerNext, Send, vars, brokerVars

LEMMA SingleInvCorrect == Spec => []SingleInv
<1>1. Init => SingleInv
  BY DEF Init, SingleInv, Quiet, Range
<1>2. TypeOK /\ SingleInv /\ [Next]_vars => SingleInv'
  BY SingleStep
<1>3. QED BY <1>1, <1>2, TypeCorrect, PTL DEF Spec

\* Until a request is retransmitted the broker finds the line quiet whenever it
\* returns to its select, and no answer is left behind for a later call.
THEOREM QuietBeforeRetransmission == Spec => []QuietUntilRetransmission
<1> DEFINE AnswersClean == \A c \in Clients : ~ticked /\ Answered(c) => result[c].clean
<1>1. Init => AnswersClean
  BY DEF Init, Answered
<1>2. ASSUME AnswerInv, SingleInv, AnswersClean, [Next]_vars
      PROVE  AnswersClean'
  <2>1. SUFFICES ASSUME NEW c \in Clients, ~ticked', Answered(c)'
                 PROVE  result'[c].clean
    OBVIOUS
  <2>2. ~ticked
    BY <1>2, <2>1
       DEF Next, ClientNext, BrokerNext, DeviceNext, Send, BrokerAccept, BrokerDrop, BrokerOk,
           BrokerOther, BrokerTick, HandleFrame, LoseFrame, ServeRead, ApplyWrite, RefuseWrite,
           LoseRequest, DeviceChange, ForeignResponse, vars, brokerVars
  <2>3. CASE Answered(c) /\ result'[c] = result[c]
    BY <1>2, <2>2, <2>3
  <2>4. CASE BrokerOk /\ c = cur
    <3>1. clean
      BY <1>2, <2>2, <2>4 DEF SingleInv, BrokerOk
    <3>2. PICK f : result'[c] = ResultOf(act[c], f)
      BY <1>2, <2>4, OkResult DEF Accepted
    <3>3. QED BY <3>1, <3>2 DEF ResultOf
  <2>5. QED BY <1>2, <2>1, <2>3, <2>4, AnsweredStep DEF AnswerInv
<1>3. SingleInv /\ AnswersClean => QuietUntilRetransmission
  BY DEF SingleInv, QuietUntilRetransmission
<1> HIDE DEF AnswersClean
<1>4. QED BY <1>1, <1>2, <1>3, AnswerInvCorrect, SingleInvCorrect, PTL DEF Spec
=============================================================================
