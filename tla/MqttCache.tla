----------------------------- MODULE MqttCache -----------------------------
(***************************************************************************)
(* How the values retained by the MQTT broker follow the thermostat:       *)
(* mqttCache (cache.go) with the MQTT half of broadcastEvent() and the     *)
(* connection handler mqttOnConnect() (dispatcher.go).                     *)
(*                                                                         *)
(* An update publishes a value that differs from the cached one and stores *)
(* it, holding the cache's mutex all the while.  A message published while *)
(* there is no connection is dropped, and messages on their way are lost   *)
(* with the connection.  Every new connection starts a handler that        *)
(* subscribes and in the end clears the cache, under the mutex, so that    *)
(* everything is published anew.                                           *)
(*                                                                         *)
(* Device, MQTT client library and broker are outside the program.  Each   *)
(* topic is updated by one goroutine; an updater is named by its topic.    *)
(***************************************************************************)
EXTENDS Naturals, Sequences

CONSTANTS
  Topics,       \* "infinitive/mode", ...
  Values,       \* what the device can report
  Absent,       \* "not cached", "not retained"
  NoTopic,      \* "the mutex is free"
  OutboxCap,    \* bound: messages on their way to the broker
  MaxHandlers,  \* bound: connection handlers running at the same time
  MaxChanges    \* bound: changes of the device in a behaviour

ASSUME MqttAssumption ==
  /\ Absent \notin Values
  /\ NoTopic \notin Topics
  /\ OutboxCap \in Nat \ {0}
  /\ MaxHandlers \in Nat \ {0}
  /\ MaxChanges \in Nat

VARIABLES
  device,     \* what the device reports
  changes,    \* changes of the device so far
  cacheMap,   \* the cached values
  lock,       \* the updater that holds cacheMutex, or NoTopic
  upc,        \* where each updater is in update()
  data,       \* the value each updater was given last
  connected,  \* the client has a connection
  handlers,   \* calls of mqttOnConnect() that have not cleared the cache yet
  outbox,     \* messages on their way to the broker
  retained    \* what the broker retains

deviceVars == <<device, changes>>
updaterVars == <<cacheMap, lock, upc, data>>
mqttVars == <<connected, handlers, outbox, retained>>
vars == <<deviceVars, updaterVars, mqttVars>>

-----------------------------------------------------------------------------

Message == [topic : Topics, val : Values]

TypeOK ==
  /\ device \in [Topics -> Values]
  /\ changes \in 0 .. MaxChanges
  /\ cacheMap \in [Topics -> Values \cup {Absent}]
  /\ lock \in Topics \cup {NoTopic}
  /\ upc \in [Topics -> {"idle", "publish", "store"}]
  /\ \A t \in Topics : upc[t] # "idle" <=> lock = t
  /\ data \in [Topics -> Values]
  /\ connected \in BOOLEAN
  /\ handlers \in 0 .. MaxHandlers
  /\ outbox \in Seq(Message)
  /\ retained \in [Topics -> Values \cup {Absent}]

\* Nothing is cached and no connection made; the broker may retain anything
\* from an earlier run.
Init ==
  /\ device \in [Topics -> Values]
  /\ changes = 0
  /\ cacheMap = [t \in Topics |-> Absent]
  /\ lock = NoTopic
  /\ upc = [t \in Topics |-> "idle"]
  /\ data = device
  /\ connected = FALSE
  /\ handlers = 0
  /\ outbox = <<>>
  /\ retained \in [Topics -> Values \cup {Absent}]

-----------------------------------------------------------------------------
(* Updaters: Cache.update() with the value just polled or snooped.         *)

\* The mutex is taken; the value differs from the cached one.
UpdateChanged(t) ==
  /\ lock = NoTopic
  /\ device[t] # cacheMap[t]
  /\ lock' = t
  /\ data' = [data EXCEPT ![t] = device[t]]
  /\ upc' = [upc EXCEPT ![t] = "publish"]
  /\ UNCHANGED <<deviceVars, cacheMap, mqttVars>>

\* The mutex is taken and released: the value is the cached one.
UpdateSame(t) ==
  /\ lock = NoTopic
  /\ device[t] = cacheMap[t]
  /\ UNCHANGED vars

\* broadcastEvent(): the client takes the message if it is connected, and drops
\* it, which the code does not look at, if not.
Publish(t) ==
  /\ upc[t] = "publish"
  /\ \/ /\ connected
        /\ Len(outbox) < OutboxCap
        /\ outbox' = Append(outbox, [topic |-> t, val |-> data[t]])
     \/ /\ ~connected
        /\ UNCHANGED outbox
  /\ upc' = [upc EXCEPT ![t] = "store"]
  /\ UNCHANGED <<deviceVars, cacheMap, lock, data, connected, handlers, retained>>

\* Mutant of Store: the mutex is not released.
StoreLocked(t) ==
  /\ upc[t] = "store"
  /\ cacheMap' = [cacheMap EXCEPT ![t] = data[t]]
  /\ upc' = [upc EXCEPT ![t] = "idle"]
  /\ UNCHANGED <<deviceVars, lock, data, mqttVars>>

\* The value is stored, published or not, and the mutex released.
Store(t) ==
  /\ upc[t] = "store"
  /\ cacheMap' = [cacheMap EXCEPT ![t] = data[t]]
  /\ lock' = NoTopic
  /\ upc' = [upc EXCEPT ![t] = "idle"]
  /\ UNCHANGED <<deviceVars, data, mqttVars>>

-----------------------------------------------------------------------------
(* The connection.                                                         *)

\* The client connects, or reconnects, and starts mqttOnConnect().
Connect ==
  /\ ~connected
  /\ handlers < MaxHandlers
  /\ connected' = TRUE
  /\ handlers' = handlers + 1
  /\ UNCHANGED <<deviceVars, updaterVars, outbox, retained>>

\* Mutants of ClearCache: without the mutex; with the first connection only.
ClearCacheUnlocked ==
  /\ handlers > 0
  /\ handlers' = handlers - 1
  /\ cacheMap' = [t \in Topics |-> Absent]
  /\ UNCHANGED <<deviceVars, lock, upc, data, connected, outbox, retained>>

ClearCacheNever ==
  /\ handlers > 0
  /\ handlers' = handlers - 1
  /\ UNCHANGED <<deviceVars, updaterVars, connected, outbox, retained>>

\* mqttOnConnect() ends with mqttCache.clear(), whether or not its connection
\* has been lost meanwhile; what it did before has no part here.
ClearCache ==
  /\ handlers > 0
  /\ lock = NoTopic
  /\ handlers' = handlers - 1
  /\ cacheMap' = [t \in Topics |-> Absent]
  /\ UNCHANGED <<deviceVars, lock, upc, data, connected, outbox, retained>>

\* The connection is lost, and every message on its way; a broker that
\* restarts may have lost what it retained.
ConnectionLost ==
  /\ connected
  /\ connected' = FALSE
  /\ outbox' = <<>>
  /\ \/ UNCHANGED retained
     \/ retained' = [t \in Topics |-> Absent]
  /\ UNCHANGED <<deviceVars, updaterVars, handlers>>

Arrive ==
  /\ outbox # <<>>
  /\ outbox' = Tail(outbox)
  /\ retained' = [retained EXCEPT ![Head(outbox).topic] = Head(outbox).val]
  /\ UNCHANGED <<deviceVars, updaterVars, connected, handlers>>

DeviceChange(t, v) ==
  /\ changes < MaxChanges
  /\ changes' = changes + 1
  /\ device' = [device EXCEPT ![t] = v]
  /\ UNCHANGED <<updaterVars, mqttVars>>

-----------------------------------------------------------------------------

UpdaterNext ==
  \E t \in Topics : UpdateChanged(t) \/ UpdateSame(t) \/ Publish(t) \/ Store(t)

Next ==
  \/ UpdaterNext
  \/ Connect \/ ClearCache \/ ConnectionLost \/ Arrive
  \/ \E t \in Topics, v \in Values : DeviceChange(t, v)

Spec == Init /\ [][Next]_vars

\* The poller comes round to every topic, goroutines that can go on do, the
\* mutex is handed to each that waits for it, and a connection that stays up
\* carries messages.
Fairness ==
  /\ \A t \in Topics : SF_vars(UpdateChanged(t)) /\ WF_vars(Publish(t)) /\ WF_vars(Store(t))
  /\ SF_vars(ClearCache)
  /\ WF_vars(Arrive)

FairSpec == Spec /\ Fairness

-----------------------------------------------------------------------------
(* Properties.                                                             *)

\* The broker will retain v of t when the messages under way have arrived.
WillRetain(t, v) ==
  \/ /\ retained[t] = v
     /\ \A i \in DOMAIN outbox : outbox[i].topic # t
  \/ \E i \in DOMAIN outbox :
       /\ outbox[i] = [topic |-> t, val |-> v]
       /\ \A j \in DOMAIN outbox : j > i => outbox[j].topic # t

\* Once the handlers of a connection are through, a value is cached only if
\* the broker retains it or will: whatever was dropped, or lost with the
\* connection, has been forgotten by the cache as well and is published again
\* (README.md:310-315, "any new client will get all current values ... we will
\* reconnect").
CachedIsRetained ==
  connected /\ handlers = 0 =>
    \A t \in Topics : cacheMap[t] # Absent =>
      WillRetain(t, IF upc[t] = "store" THEN data[t] ELSE cacheMap[t])

\* When the connection stays up the broker ends up with the values of the
\* device, whatever happened to connection, broker and messages before.
BrokerCatchesUp ==
  <>[]connected => <>[](retained = device)
=============================================================================
