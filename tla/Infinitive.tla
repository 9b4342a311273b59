----------------------------- MODULE Infinitive -----------------------------
(***************************************************************************)
(* The whole program as goroutines that wait for one another: the reader   *)
(* waits for room in responseCh and, in a snoop's callback, for the caches;*)
(* callers of send() wait for the broker; updates of a cache wait for its  *)
(* mutex and, with the mutex held, for the dispatcher or for the MQTT      *)
(* client; websocket handlers wait for the dispatcher.                     *)
(*                                                                         *)
(* Modules Protocol, Events and MqttCache each take the progress of the    *)
(* others' goroutines for granted.  Here nothing is known of a frame, an   *)
(* event or a value but who waits until it is dealt with.                  *)
(*                                                                         *)
(* What a goroutine does is the sequence of the things it may have to wait *)
(* for:  "call" is send(); "get", "ws" and "mqtt" are get() and update()   *)
(* of wsCache and update() of mqttCache; "clear" is mqttCache.clear();     *)
(* "queue" sends to responseCh; "subscribe" waits for the MQTT broker.     *)
(* Several of a kind in a row are one: they wait for nothing else.         *)
(***************************************************************************)
EXTENDS Naturals, SequencesExt

CONSTANTS
  Requests,           \* goroutines of HTTP requests
  Sockets,            \* goroutines of websockets: attachListener()
  None,
  responseRetries,
  ResponseCapacity,   \* of responseCh (32)
  BroadcastCapacity,  \* of the dispatcher's broadcast channel (64)
  ListenerCapacity    \* of a listener's channel (32)

Poller == "statePoller"
Reader == "reader"
MqttHandler == "mqttMessageHandler"
OnConnect == "mqttOnConnect"

\* The goroutines that wait, beside those of websockets, the broker and the dispatcher.
Workers == {Poller, Reader, MqttHandler, OnConnect} \cup Requests

ASSUME InfinitiveAssumption ==
  /\ {Poller, Reader, MqttHandler, OnConnect} \cap Requests = {}
  /\ None \notin Workers
  /\ {responseRetries, ResponseCapacity, BroadcastCapacity, ListenerCapacity} \subseteq Nat \ {0}

VARIABLES
  todo,       \* what each worker has still to do
  holder,     \* of each cache's mutex
  actionCh,   \* workers blocked on that channel, the first first
  cur,        \* the worker whose action the broker performs
  tries,      \* its retransmissions
  responses,  \* the number of frames in responseCh
  broadcast,  \* the number of events in the broadcast channel
  listeners,  \* the sockets the dispatcher knows
  ch          \* the number of events in each listener's channel

brokerVars == <<actionCh, cur, tries>>
socketVars == <<listeners, ch>>
vars == <<todo, holder, brokerVars, responses, broadcast, socketVars>>

Caches == {"wsCache", "mqttCache"}

\* The cache whose mutex an operation takes.
CacheOf == [get |-> "wsCache", ws |-> "wsCache", mqtt |-> "mqttCache", clear |-> "mqttCache"]

Next1(g) == Head(todo[g])
Does(g, op) == todo[g] # <<>> /\ Next1(g) = op
Done(g) == todo' = [todo EXCEPT ![g] = Tail(@)]

TypeOK ==
  /\ todo \in [Workers -> Seq(DOMAIN CacheOf \cup {"call", "queue", "subscribe"})]
  /\ holder \in [Caches -> Workers \cup {None}]
  /\ actionCh \in Seq(Workers) /\ IsInjective(actionCh)
  /\ cur \in (Workers \cup {None}) \ Range(actionCh)
  /\ \A g \in Workers : Does(g, "call") <=> g = cur \/ g \in Range(actionCh)
  /\ tries \in 0 .. responseRetries - 1
  /\ responses \in 0 .. ResponseCapacity
  /\ broadcast \in 0 .. BroadcastCapacity
  /\ listeners \subseteq Sockets
  /\ ch \in [Sockets -> 0 .. ListenerCapacity]

Init ==
  /\ todo = [g \in Workers |-> <<>>]
  /\ holder = [c \in Caches |-> None]
  /\ actionCh = <<>> /\ cur = None /\ tries = 0
  /\ responses = 0 /\ broadcast = 0
  /\ listeners = {}
  /\ ch = [s \in Sockets |-> 0]

-----------------------------------------------------------------------------
(* What goroutines set out to do.                                          *)

Tell == <<"ws", "mqtt">>

\* statePoller() calls for the tables of the zones and of the vacation and tells the
\* caches of those it could read.  The probe that may end a poll is the next one's call.
Polls == {<<"call">> \o told : told \in {<<>>, Tell, Tell \o Tell}}

\* handleFrame(): a response to us is queued, and one that is snooped, to us or not,
\* goes to its callback, which updates the caches in either order or, for another
\* table, not at all.
Frames ==
  {queued \o snooped :
     queued \in {<<>>, <<"queue">>},
     snooped \in {<<>>, <<"get">>, <<"get", "ws", "mqtt">>, <<"get", "mqtt", "ws">>}} \ {<<>>}

\* The handlers of HTTP requests: tables, or a cached record.
Handlers == {<<"call">>, <<"get">>}

\* Whoever calls does so first of all, and is queued on actionCh.
Sets(g, tasks) ==
  /\ todo[g] = <<>>
  /\ \E task \in tasks :
       /\ todo' = [todo EXCEPT ![g] = task]
       /\ actionCh' = IF Head(task) = "call" THEN Append(actionCh, g) ELSE actionCh
  /\ UNCHANGED <<holder, cur, tries, responses, broadcast, socketVars>>

Poll == Sets(Poller, Polls)
HandleFrame == Sets(Reader, Frames)
MqttMessage == Sets(MqttHandler, {<<"call">>})
Connected == Sets(OnConnect, {<<"subscribe", "clear">>})
Request(g) == Sets(g, Handlers)

-----------------------------------------------------------------------------
(* send() and the broker.                                                  *)

BrokerAccept ==
  /\ cur = None /\ actionCh # <<>>
  /\ cur' = Head(actionCh) /\ actionCh' = Tail(actionCh)
  /\ tries' = 0
  /\ UNCHANGED <<todo, holder, responses, broadcast, socketVars>>

BrokerDrop ==
  /\ cur = None /\ responses > 0
  /\ responses' = responses - 1
  /\ UNCHANGED <<todo, holder, brokerVars, broadcast, socketVars>>

\* The result goes to the caller, which waits for it.
Return ==
  /\ Done(cur)
  /\ cur' = None /\ tries' = 0

\* A response that does not match leaves the broker waiting.
BrokerOther ==
  /\ cur # None /\ responses > 0
  /\ responses' = responses - 1
  /\ UNCHANGED <<todo, holder, brokerVars, broadcast, socketVars>>

BrokerOk ==
  /\ cur # None /\ responses > 0
  /\ responses' = responses - 1
  /\ Return
  /\ UNCHANGED <<holder, actionCh, broadcast, socketVars>>

BrokerTick ==
  /\ cur # None
  /\ IF tries + 1 < responseRetries THEN tries' = tries + 1 /\ UNCHANGED <<todo, cur>> ELSE Return
  /\ UNCHANGED <<holder, actionCh, responses, broadcast, socketVars>>

\* The reader, in handleFrame().
QueueResponse ==
  /\ Does(Reader, "queue") /\ responses < ResponseCapacity
  /\ responses' = responses + 1
  /\ Done(Reader)
  /\ UNCHANGED <<holder, brokerVars, broadcast, socketVars>>

-----------------------------------------------------------------------------
(* Caches.                                                                 *)

Wants(g, ops) == todo[g] # <<>> /\ Next1(g) \in ops

\* get(), clear(), and update() of a value that is the same.
Look(g) ==
  /\ Wants(g, DOMAIN CacheOf) /\ holder[CacheOf[Next1(g)]] = None
  /\ Done(g)
  /\ UNCHANGED <<holder, brokerVars, responses, broadcast, socketVars>>

\* update() of another value, up to broadcastEvent(): the mutex is taken.
Lock(g) ==
  /\ Wants(g, {"ws", "mqtt"}) /\ holder[CacheOf[Next1(g)]] = None
  /\ holder' = [holder EXCEPT ![CacheOf[Next1(g)]] = g]
  /\ UNCHANGED <<todo, brokerVars, responses, broadcast, socketVars>>

Holds(g, op) == Does(g, op) /\ holder[CacheOf[op]] = g

\* Mutant of Unlock: mutexes are kept until the goroutine has nothing else to do.
UnlockLast(g) ==
  /\ holder' = [c \in Caches |-> IF Len(todo[g]) = 1 /\ holder[c] = g THEN None ELSE holder[c]]
  /\ Done(g)

Unlock(g) ==
  /\ holder' = [holder EXCEPT ![CacheOf[Next1(g)]] = None]
  /\ Done(g)

\* Publish() of the MQTT client returns by itself.
Publish(g) ==
  /\ Holds(g, "mqtt")
  /\ Unlock(g)
  /\ UNCHANGED <<brokerVars, responses, broadcast, socketVars>>

\* wsCache.update() waits for room in the dispatcher's channel.
Broadcast(g) ==
  /\ Holds(g, "ws") /\ broadcast < BroadcastCapacity
  /\ broadcast' = broadcast + 1
  /\ Unlock(g)
  /\ UNCHANGED <<brokerVars, responses, socketVars>>

\* The client library hands out messages one at a time, so that the answer to a
\* subscription may wait until mqttMessageHandler() has returned.
Subscribed ==
  /\ Does(OnConnect, "subscribe") /\ todo[MqttHandler] = <<>>
  /\ Done(OnConnect)
  /\ UNCHANGED <<holder, brokerVars, responses, broadcast, socketVars>>

-----------------------------------------------------------------------------
(* The dispatcher and websockets.                                          *)

\* Mutant of FanOut: the dispatcher waits for a listener that does not keep up.
FanOutWait ==
  /\ broadcast > 0 /\ \A s \in listeners : ch[s] < ListenerCapacity
  /\ broadcast' = broadcast - 1
  /\ ch' = [s \in Sockets |-> IF s \in listeners THEN ch[s] + 1 ELSE 0]
  /\ UNCHANGED <<todo, holder, brokerVars, responses, listeners>>

\* A listener that is dropped counts as closed: nobody waits for it any more.
FanOut ==
  LET keep == {s \in listeners : ch[s] < ListenerCapacity} IN
  /\ broadcast > 0
  /\ broadcast' = broadcast - 1
  /\ ch' = [s \in Sockets |-> IF s \in keep THEN ch[s] + 1 ELSE 0]
  /\ listeners' = keep
  /\ UNCHANGED <<todo, holder, brokerVars, responses>>

\* attachListener(): the dispatcher, which is never held up for long, takes it up.
Open(s) ==
  /\ s \notin listeners
  /\ listeners' = listeners \cup {s}
  /\ UNCHANGED <<todo, holder, brokerVars, responses, broadcast, ch>>

\* An event is written to the client, which takes its time.
Write(s) ==
  /\ ch[s] > 0
  /\ ch' = [ch EXCEPT ![s] = @ - 1]
  /\ UNCHANGED <<todo, holder, brokerVars, responses, broadcast, listeners>>

\* The write of an event fails.
Leave(s) ==
  /\ ch[s] > 0
  /\ ch' = [ch EXCEPT ![s] = 0]
  /\ listeners' = listeners \ {s}
  /\ UNCHANGED <<todo, holder, brokerVars, responses, broadcast>>

-----------------------------------------------------------------------------

Work(g) == Look(g) \/ Lock(g) \/ Publish(g) \/ Broadcast(g)

BrokerStep == BrokerAccept \/ BrokerDrop \/ BrokerOther \/ BrokerOk \/ BrokerTick

Next ==
  \/ Poll \/ HandleFrame \/ MqttMessage \/ Connected \/ \E g \in Requests : Request(g)
  \/ \E g \in Workers : Work(g)
  \/ QueueResponse \/ Subscribed
  \/ BrokerStep
  \/ FanOut
  \/ \E s \in Sockets : Open(s) \/ Write(s) \/ Leave(s)

\* Goroutines run.  A mutex is not withheld for ever from one who waits (Go's hands
\* it to the one that waits longest), a select does not always prefer the same case,
\* and the poller goes round.  Nothing is assumed of what comes from outside:
\* frames, messages, requests, connections, and clients that read their websocket.
Fairness ==
  /\ WF_vars(BrokerAccept)
  /\ \A g \in {Poller, Reader} \cup Requests : SF_vars(Look(g) \/ Lock(g))
  /\ \A g \in {Poller, Reader} : WF_vars(Publish(g) \/ Broadcast(g))
  /\ WF_vars(BrokerDrop \/ BrokerOther \/ BrokerOk) /\ WF_vars(BrokerTick)
  /\ WF_vars(QueueResponse) /\ WF_vars(FanOut)
  /\ SF_vars(Subscribed \/ Look(OnConnect))

Spec == Init /\ [][Next]_vars /\ Fairness

-----------------------------------------------------------------------------
(* Properties.                                                             *)

\* g can do nothing before h has.  The broker and the dispatcher wait for none of the
\* workers: the one has its ticker, and the callers it answers are waiting for it; the
\* other drops the listeners that do not keep up.
WaitsFor(g, h) ==
  \/ Wants(g, DOMAIN CacheOf) /\ h = holder[CacheOf[Next1(g)]] /\ h # g
  \/ Does(g, "subscribe") /\ todo[MqttHandler] # <<>> /\ h = MqttHandler

\* Nobody waits for itself by way of others: among goroutines that wait there is one
\* that waits for none of them, although the reader updates the two caches in one
\* order and in the other, beside the poller and the HTTP handlers (cache.go:17-38,
\* infinitive.go:403-559).
NoCircularWait ==
  LET waiting == {g \in Workers : \E h \in Workers : WaitsFor(g, h)}
  IN \A G \in (SUBSET waiting) \ {{}} : \E g \in G : \A h \in G : ~WaitsFor(g, h)

\* Whoever calls, whatever answers come and however slow the clients of websockets
\* are: every frame, message, request and poll is dealt with in the end.  In
\* particular the reader comes back to the port, without which the broker would
\* hear no answer.
EveryTaskEnds == \A g \in Workers : []<>(todo[g] = <<>>)
=============================================================================
