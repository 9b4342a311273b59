------------------------------ MODULE Protocol ------------------------------
(***************************************************************************)
(* The request/response layer of infinitive (src/protocol.go).             *)
(*                                                                         *)
(* Client goroutines (the state poller, HTTP handlers, the MQTT handler)   *)
(* call send(), which hands an Action to the one broker goroutine over the *)
(* unbuffered channel actionCh and waits on the action's own channel.  The *)
(* broker transmits the request, waits for a matching response on the      *)
(* buffered channel responseCh and retransmits on a ticker; the reader     *)
(* goroutine fills responseCh from the serial line.  The devices on the    *)
(* bus are not part of the program: they serve requests in the order they  *)
(* hear them, late or never, and frames may be lost either way.            *)
(*                                                                         *)
(* A payload is reduced to what send() and performAction() distinguish,    *)
(* the table's version standing for its content.  Calls are numbered in    *)
(* the order in which they enter the actionCh queue; a number travels with *)
(* the requests, the responses and the registers so that properties can    *)
(* say which call an answer belongs to.  No guard of the program reads it. *)
(***************************************************************************)
EXTENDS Naturals, Sequences, Functions

CONSTANTS
  Clients,          \* goroutines that call send()
  Devices,          \* bus addresses a request can be sent to
  Tables,           \* register tables of a device
  NoClient,         \* "the broker has no action in hand"
  responseRetries,  \* retransmissions before an action fails (5 in the code)
  RespCap,          \* capacity of responseCh (32 in the code)
  InboxCap,         \* bound: requests queued at a device
  WireCap,          \* bound: frames on the line to the reader
  MaxCalls,         \* bound: calls of send() in a behaviour
  MaxVersion        \* bound: a device changes a table by itself below it

ASSUME ProtocolAssumption ==
  /\ NoClient \notin Clients
  /\ Devices # {} /\ Tables # {}
  /\ responseRetries \in Nat \ {0}
  /\ RespCap \in Nat \ {0}
  /\ InboxCap \in Nat \ {0}
  /\ WireCap \in Nat \ {0}
  /\ MaxCalls \in Nat
  /\ MaxVersion \in Nat

VARIABLES
  pc,          \* where each client is: see PC
  act,         \* the Action each client submitted last
  result,      \* what its last send() returned
  calls,       \* calls of send() so far
  actionCh,    \* clients blocked in "p.actionCh <- act", in FIFO order
  cur,         \* the client whose action performAction() holds, or NoClient
  tries,       \* performAction()'s retransmission count
  responseCh,  \* responses the reader queued for the broker
  wire,        \* frames on their way to the reader
  inbox,       \* requests each device has heard and not served yet
  version,     \* version of every table of every device
  writer,      \* the call whose write a device applied last to a table
  applied,     \* calls whose write a device has applied
  clean,       \* history: nothing was outstanding when cur was accepted
  ticked       \* history: some request has been retransmitted

clientVars == <<pc, act, result, calls>>
brokerVars == <<cur, tries, clean, ticked>>
deviceVars == <<version, writer, applied>>
vars == <<clientVars, actionCh, brokerVars, responseCh, wire, inbox, deviceVars>>

-----------------------------------------------------------------------------
(* Data.  PC: "sending" is blocked on actionCh, "waiting" on the action's  *)
(* channel, "returned" has its result.  A response's body: "data" is a     *)
(* table echo with a payload, "short" echoes the table but carries at most *)
(* the six bytes send() skips, "ack" is the single byte 00, "nack" any     *)
(* other one-byte status.                                                  *)

PC == {"idle", "sending", "waiting", "returned"}

Action ==
  [id : Nat, op : {"READ", "WRITE"}, dst : Devices, table : Tables, since : Nat]

Frame ==
  [src : Devices, toSAM : BOOLEAN, body : {"data", "short", "ack", "nack"},
   table : Tables, ver : Nat, id : Nat]

Result ==
  [ok : BOOLEAN, decoded : BOOLEAN, src : Devices, table : Tables, ver : Nat, id : Nat,
   clean : BOOLEAN]

NoAction ==
  [id |-> 0, op |-> "READ", dst |-> CHOOSE d \in Devices : TRUE,
   table |-> CHOOSE t \in Tables : TRUE, since |-> 0]

NoResult ==
  [ok |-> FALSE, decoded |-> FALSE, src |-> NoAction.dst, table |-> NoAction.table,
   ver |-> 0, id |-> 0, clean |-> FALSE]

TypeOK ==
  /\ pc \in [Clients -> PC]
  /\ act \in [Clients -> Action]
  /\ result \in [Clients -> Result]
  /\ calls \in Nat
  /\ actionCh \in Seq(Clients)
  /\ cur \in Clients \cup {NoClient}
  /\ tries \in 0 .. responseRetries - 1
  /\ responseCh \in Seq(Frame) /\ Len(responseCh) <= RespCap
  /\ wire \in Seq(Frame)
  /\ inbox \in [Devices -> Seq(Action)]
  /\ version \in [Devices -> [Tables -> Nat]]
  /\ writer \in [Devices -> [Tables -> Nat]]
  /\ applied \in SUBSET Nat
  /\ clean \in BOOLEAN
  /\ ticked \in BOOLEAN

Init ==
  /\ pc = [c \in Clients |-> "idle"]
  /\ act = [c \in Clients |-> NoAction]
  /\ result = [c \in Clients |-> NoResult]
  /\ calls = 0
  /\ actionCh = <<>>
  /\ cur = NoClient
  /\ tries = 0
  /\ responseCh = <<>>
  /\ wire = <<>>
  /\ inbox = [d \in Devices |-> <<>>]
  /\ version = [d \in Devices |-> [t \in Tables |-> 0]]
  /\ writer = [d \in Devices |-> [t \in Tables |-> 0]]
  /\ applied = {}
  /\ clean = FALSE
  /\ ticked = FALSE

-----------------------------------------------------------------------------
(* Clients.                                                                *)

\* send(), up to its first blocking point: the client queues on actionCh.
\* Read, ReadTable, Write and WriteTable(Z) only build the arguments.
Send(c, op, d, t) ==
  /\ pc[c] \in {"idle", "returned"}
  /\ calls < MaxCalls
  /\ calls' = calls + 1
  /\ act' = [act EXCEPT ![c] = [id |-> calls', op |-> op, dst |-> d, table |-> t,
                                since |-> version[d][t]]]
  /\ pc' = [pc EXCEPT ![c] = "sending"]
  /\ actionCh' = Append(actionCh, c)
  /\ UNCHANGED <<result, brokerVars, responseCh, wire, inbox, deviceVars>>

-----------------------------------------------------------------------------
(* The broker.                                                             *)

\* No request of ours is unserved and no response to us is on its way: what
\* the history variable clean records when an action is taken up.
Quiet ==
  /\ \A d \in Devices : inbox[d] = <<>>
  /\ responseCh = <<>>
  /\ \A f \in Range(wire) : ~f.toSAM

\* sendFrame(): the frame reaches the device's queue.  A frame that is never
\* sent (the port is closed) or never heard is lost by LoseRequest.
Transmit(a) ==
  inbox' = IF Len(inbox[a.dst]) < InboxCap
           THEN [inbox EXCEPT ![a.dst] = Append(@, a)]
           ELSE inbox

\* Mutants of Matches: the table is not compared; any answer to a write will do.
MatchesAnyTable(a, f) ==
  /\ f.src = a.dst
  /\ a.op = "READ" => f.body \in {"data", "short"}
  /\ a.op = "WRITE" => f.body = "ack"

MatchesAnyStatus(a, f) ==
  /\ f.src = a.dst
  /\ a.op = "READ" => f.body \in {"data", "short"} /\ f.table = a.table
  /\ a.op = "WRITE" => f.body \in {"ack", "nack"}

\* The broker's tests on a response while an action waits for one.
Matches(a, f) ==
  /\ f.src = a.dst
  /\ a.op = "READ" => f.body \in {"data", "short"} /\ f.table = a.table
  /\ a.op = "WRITE" => f.body = "ack"

\* What send() makes of the response frame once the broker says ok.
ResultOf(a, f) ==
  [ok |-> TRUE, decoded |-> a.op = "READ" /\ f.body = "data", src |-> f.src,
   table |-> f.table, ver |-> f.ver, id |-> f.id, clean |-> clean]

\* performAction() answers on the action's channel; its client is waiting there.
Return(r) ==
  /\ result' = [result EXCEPT ![cur] = r]
  /\ pc' = [pc EXCEPT ![cur] = "returned"]
  /\ cur' = NoClient
  /\ tries' = 0
  /\ clean' = FALSE

\* Mutant of BrokerAccept: "go performAction", an action is not waited for.
BrokerAcceptBusy ==
  /\ actionCh # <<>>
  /\ cur' = Head(actionCh)
  /\ actionCh' = Tail(actionCh)
  /\ pc' = [pc EXCEPT ![Head(actionCh)] = "waiting"]
  /\ Transmit(act[Head(actionCh)])
  /\ clean' = Quiet
  /\ UNCHANGED <<act, result, calls, tries, ticked, responseCh, wire, deviceVars>>

\* broker(): an action is received and its request transmitted.
BrokerAccept ==
  /\ cur = NoClient
  /\ actionCh # <<>>
  /\ cur' = Head(actionCh)
  /\ actionCh' = Tail(actionCh)
  /\ pc' = [pc EXCEPT ![Head(actionCh)] = "waiting"]
  /\ Transmit(act[Head(actionCh)])
  /\ clean' = Quiet
  /\ UNCHANGED <<act, result, calls, tries, ticked, responseCh, wire, deviceVars>>

\* broker(): "dropping unexpected response".
BrokerDrop ==
  /\ cur = NoClient
  /\ responseCh # <<>>
  /\ responseCh' = Tail(responseCh)
  /\ UNCHANGED <<clientVars, actionCh, brokerVars, wire, inbox, deviceVars>>

\* performAction(): the response is the awaited one.
BrokerOk ==
  /\ cur # NoClient
  /\ responseCh # <<>>
  /\ Matches(act[cur], Head(responseCh))
  /\ responseCh' = Tail(responseCh)
  /\ Return(ResultOf(act[cur], Head(responseCh)))
  /\ UNCHANGED <<act, calls, actionCh, ticked, wire, inbox, deviceVars>>

\* performAction(): "something other than expected response".
BrokerOther ==
  /\ cur # NoClient
  /\ responseCh # <<>>
  /\ ~Matches(act[cur], Head(responseCh))
  /\ responseCh' = Tail(responseCh)
  /\ UNCHANGED <<clientVars, actionCh, brokerVars, wire, inbox, deviceVars>>

\* Mutants of BrokerTick: one retransmission more; putting the action back at the
\* end of the queue to be tried again after the others.
BrokerTickOneMore ==
  /\ cur # NoClient
  /\ Transmit(act[cur])
  /\ ticked' = TRUE
  /\ \/ /\ tries < responseRetries
        /\ tries' = tries + 1
        /\ UNCHANGED <<pc, result, cur, clean>>
     \/ /\ tries = responseRetries
        /\ Return(NoResult)
  /\ UNCHANGED <<act, calls, actionCh, responseCh, wire, deviceVars>>

BrokerTickRequeue ==
  /\ cur # NoClient
  /\ actionCh' = Append(actionCh, cur)
  /\ pc' = [pc EXCEPT ![cur] = "sending"]
  /\ cur' = NoClient
  /\ ticked' = TRUE
  /\ UNCHANGED <<act, result, calls, tries, clean, responseCh, wire, inbox, deviceVars>>

\* performAction(): the ticker fires, the request is sent again and counted.
\* The retransmission that uses up the retries is not waited for.
BrokerTick ==
  /\ cur # NoClient
  /\ Transmit(act[cur])
  /\ ticked' = TRUE
  /\ \/ /\ tries + 1 < responseRetries
        /\ tries' = tries + 1
        /\ UNCHANGED <<pc, result, cur, clean>>
     \/ /\ tries + 1 = responseRetries
        /\ Return(NoResult)
  /\ UNCHANGED <<act, calls, actionCh, responseCh, wire, deviceVars>>

-----------------------------------------------------------------------------
(* The reader.                                                             *)

\* Mutant of HandleFrame: responses to other devices are queued for the broker.
HandleFrameAnyone ==
  /\ wire # <<>>
  /\ Len(responseCh) < RespCap
  /\ responseCh' = Append(responseCh, Head(wire))
  /\ wire' = Tail(wire)
  /\ UNCHANGED <<clientVars, actionCh, brokerVars, inbox, deviceVars>>

\* decode() succeeds and handleFrame() queues an opRESPONSE addressed to us,
\* waiting for room in responseCh; any other response is only counted.
HandleFrame ==
  /\ wire # <<>>
  /\ IF Head(wire).toSAM
     THEN /\ Len(responseCh) < RespCap
          /\ responseCh' = Append(responseCh, Head(wire))
     ELSE responseCh' = responseCh
  /\ wire' = Tail(wire)
  /\ UNCHANGED <<clientVars, actionCh, brokerVars, inbox, deviceVars>>

\* decode() fails on a corrupted frame: the reader resynchronises past it.
LoseFrame ==
  /\ wire # <<>>
  /\ wire' = Tail(wire)
  /\ UNCHANGED <<clientVars, actionCh, brokerVars, responseCh, inbox, deviceVars>>

-----------------------------------------------------------------------------
(* The devices and the line, outside the program.                          *)

Answer(d, body) ==
  LET a == Head(inbox[d]) IN
  /\ inbox[d] # <<>>
  /\ Len(wire) < WireCap
  /\ inbox' = [inbox EXCEPT ![d] = Tail(@)]
  /\ wire' = Append(wire, [src |-> d, toSAM |-> TRUE, body |-> body,
                           table |-> a.table, ver |-> version[d][a.table],
                           id |-> a.id])

ServeRead(d) ==
  /\ \E body \in {"data", "short"} : Answer(d, body)
  /\ Head(inbox[d]).op = "READ"
  /\ UNCHANGED <<clientVars, actionCh, brokerVars, responseCh, deviceVars>>

ApplyWrite(d) ==
  LET a == Head(inbox[d]) IN
  /\ Answer(d, "ack")
  /\ a.op = "WRITE"
  /\ version' = [version EXCEPT ![d][a.table] = @ + 1]
  /\ writer' = [writer EXCEPT ![d][a.table] = a.id]
  /\ applied' = applied \cup {a.id}
  /\ UNCHANGED <<clientVars, actionCh, brokerVars, responseCh>>

RefuseWrite(d) ==
  /\ Answer(d, "nack")
  /\ Head(inbox[d]).op = "WRITE"
  /\ UNCHANGED <<clientVars, actionCh, brokerVars, responseCh, deviceVars>>

\* The request never reaches the device: port closed, collision, bad checksum,
\* or it is answered with an opERROR, which handleFrame() ignores.
LoseRequest(d) ==
  /\ inbox[d] # <<>>
  /\ inbox' = [inbox EXCEPT ![d] = Tail(@)]
  /\ UNCHANGED <<clientVars, actionCh, brokerVars, responseCh, wire, deviceVars>>

\* The user at the wall unit, or the HVAC itself, changes a table.
DeviceChange(d, t) ==
  /\ version[d][t] < MaxVersion
  /\ version' = [version EXCEPT ![d][t] = @ + 1]
  /\ UNCHANGED <<clientVars, actionCh, brokerVars, responseCh, wire, inbox, writer,
                 applied>>

\* A response a device sends to some other device on the shared line.
ForeignResponse(d, t) ==
  /\ Len(wire) < WireCap
  /\ wire' = Append(wire, [src |-> d, toSAM |-> FALSE, body |-> "data", table |-> t,
                           ver |-> version[d][t], id |-> 0])
  /\ UNCHANGED <<clientVars, actionCh, brokerVars, responseCh, inbox, deviceVars>>

-----------------------------------------------------------------------------

ClientNext ==
  \E c \in Clients, op \in {"READ", "WRITE"}, d \in Devices, t \in Tables :
    Send(c, op, d, t)

BrokerNext == BrokerAccept \/ BrokerDrop \/ BrokerOk \/ BrokerOther \/ BrokerTick

DeviceNext ==
  \E d \in Devices :
    \/ ServeRead(d)
    \/ ApplyWrite(d)
    \/ RefuseWrite(d)
    \/ LoseRequest(d)
    \/ \E t \in Tables : DeviceChange(d, t) \/ ForeignResponse(d, t)

Next == ClientNext \/ BrokerNext \/ HandleFrame \/ LoseFrame \/ DeviceNext

Spec == Init /\ [][Next]_vars

-----------------------------------------------------------------------------
(* Properties.                                                             *)

Answered(c) == pc[c] = "returned" /\ result[c].ok

\* The goroutines agree on who waits for what: the broker holds an action iff
\* its client waits on it, and the clients blocked on actionCh are exactly
\* those in the queue, once each, in the order of their calls, after the one
\* being served (no result can reach a goroutine that did not ask for it).
Handover ==
  /\ \A c \in Clients : pc[c] = "waiting" <=> cur = c
  /\ \A c \in Clients : pc[c] = "sending" <=> \E i \in DOMAIN actionCh : actionCh[i] = c
  /\ \A i, j \in DOMAIN actionCh : i < j => act[actionCh[i]].id < act[actionCh[j]].id
  /\ cur # NoClient => \A i \in DOMAIN actionCh : act[cur].id < act[actionCh[i]].id

\* A successful call was answered by a frame that answers this call or an
\* earlier one of ours, never by a response some other device was sent, and it
\* comes from the device asked and, for a read, from the table asked for, even
\* when answers to abandoned calls are still arriving (protocol.go:114, 224-252).
AnswerIsOurs ==
  \A c \in Clients : Answered(c) =>
    /\ result[c].id \in 1 .. act[c].id
    /\ result[c].src = act[c].dst
    /\ act[c].op = "READ" => result[c].table = act[c].table

\* A call whose action was taken up while nothing was outstanding is answered
\* exactly: by a response to itself; a read then returns a version of the
\* table no older than the call, and a write reported ok was applied.
CleanCallsAreExact ==
  \A c \in Clients : Answered(c) /\ result[c].clean =>
    /\ result[c].id = act[c].id
    /\ act[c].op = "WRITE" => act[c].id \in applied
    /\ result[c].decoded => result[c].ver >= act[c].since

\* As long as no request was ever retransmitted the broker finds the line
\* quiet whenever it returns to its select: only a retransmission can leave an
\* answer behind for a later call.
QuietUntilRetransmission ==
  /\ ~ticked /\ cur = NoClient => Quiet
  /\ \A c \in Clients : ~ticked /\ Answered(c) => result[c].clean

\* Retransmissions and failed calls notwithstanding, a device never lets an
\* earlier call's write replace a later call's: the broker serves one action
\* at a time and abandons it before taking the next.
WritesApplyInOrder ==
  [][\A d \in Devices, t \in Tables : writer'[d][t] >= writer[d][t]]_vars

\* How a client's last call has ended.
Outcome ==
  [c \in Clients |-> IF pc[c] # "returned" THEN "none"
                     ELSE IF result[c].ok THEN "ok" ELSE "failed"]

InOrder ==
  INSTANCE Calls WITH queue <- actionCh, serving <- cur, outcome <- Outcome

\* Channels, retransmissions and late answers implement the service of module
\* Calls: one call after the other, and no write that takes effect before its turn
\* or after a later one.
ServedInOrder == InOrder!Spec

\* What the statistics call "actions processed OK" (protocol.go:49-50): a
\* write reported ok was processed by the device.
OkMeansProcessed ==
  \A c \in Clients : Answered(c) /\ act[c].op = "WRITE" => act[c].id \in applied
=============================================================================
