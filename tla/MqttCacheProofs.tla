--------------------------- MODULE MqttCacheProofs ---------------------------
(***************************************************************************)
(* Theorems about the MQTT cache, for any topics and values and any number *)
(* of messages and connection handlers.                                    *)
(***************************************************************************)
EXTENDS MqttCache, TLAPS

LEMMA TypeStep ==
  ASSUME TypeOK, [Next]_vars
  PROVE  TypeOK'
<1> USE MqttAssumption DEF TypeOK, deviceVars, updaterVars, mqttVars
<1>1. ASSUME NEW t \in Topics, UpdateChanged(t)
      PROVE  TypeOK'
  BY <1>1 DEF UpdateChanged
<1>2. ASSUME NEW t \in Topics, Publish(t)
      PROVE  TypeOK'
  <2>1. [topic |-> t, val |-> data[t]] \in Message
    BY DEF Message
  <2>2. outbox' \in Seq(Message)
    BY <1>2, <2>1 DEF Publish
  <2>3. QED BY <1>2, <2>2 DEF Publish
<1>3. ASSUME NEW t \in Topics, Store(t)
      PROVE  TypeOK'
  BY <1>3 DEF Store
<1>4. CASE Connect
  BY <1>4 DEF Connect
<1>5. CASE ClearCache
  BY <1>5 DEF ClearCache
<1>6. CASE ConnectionLost
  <2>1. outbox' \in Seq(Message)
    BY <1>6 DEF ConnectionLost
  <2>2. retained' \in [Topics -> Values \cup {Absent}]
    BY <1>6 DEF ConnectionLost
  <2>3. QED BY <1>6, <2>1, <2>2 DEF ConnectionLost
<1>7. CASE Arrive
  <2>1. Head(outbox) \in Message /\ Tail(outbox) \in Seq(Message)
    BY <1>7 DEF Arrive
  <2>2. retained' \in [Topics -> Values \cup {Absent}]
    BY <1>7, <2>1 DEF Arrive, Message
  <2>3. QED BY <1>7, <2>1, <2>2 DEF Arrive
<1>8. ASSUME NEW t \in Topics, NEW v \in Values, DeviceChange(t, v)
      PROVE  TypeOK'
  BY <1>8 DEF DeviceChange
<1>9. CASE UNCHANGED vars
  BY <1>9 DEF vars
<1>10. QED
  BY <1>1, <1>2, <1>3, <1>4, <1>5, <1>6, <1>7, <1>8, <1>9 DEF Next, UpdaterNext, UpdateSame

\* Every variable keeps its type, and the mutex is held exactly by the updater
\* that is in update().
THEOREM TypeCorrect == Spec => []TypeOK
<1>1. Init => TypeOK
  <2> SUFFICES ASSUME Init PROVE TypeOK
    OBVIOUS
  <2>1. outbox \in Seq(Message)
    BY DEF Init
  <2>2. \A t \in Topics : upc[t] # "idle" <=> lock = t
    BY MqttAssumption DEF Init
  <2>3. changes \in 0 .. MaxChanges /\ handlers \in 0 .. MaxHandlers
    BY MqttAssumption DEF Init
  <2>4. QED BY <2>1, <2>2, <2>3 DEF Init, TypeOK
<1>2. QED BY <1>1, TypeStep, PTL DEF Spec

-----------------------------------------------------------------------------
(* What messages under way do to WillRetain.                               *)

LEMMA PublishRetains ==
  ASSUME TypeOK, NEW t \in Topics, retained' = retained, data' = data,
         outbox' = Append(outbox, [topic |-> t, val |-> data[t]])
  PROVE  /\ WillRetain(t, data[t])'
         /\ \A u \in Topics \ {t} : \A v : WillRetain(u, v) => WillRetain(u, v)'
<1> DEFINE m == [topic |-> t, val |-> data[t]]
<1>1. m.topic = t /\ m \in Message
  BY DEF TypeOK, Message
<1>2. /\ Len(outbox) \in Nat /\ DOMAIN outbox = 1 .. Len(outbox)
      /\ DOMAIN outbox' = 1 .. Len(outbox) + 1
      /\ outbox'[Len(outbox) + 1] = m
      /\ \A i \in DOMAIN outbox : outbox'[i] = outbox[i]
  BY <1>1 DEF TypeOK
<1>4. /\ outbox'[Len(outbox) + 1] = [topic |-> t, val |-> data[t]]
      /\ \A j \in DOMAIN outbox' : ~(j > Len(outbox) + 1)
      /\ Len(outbox) + 1 \in DOMAIN outbox'
  BY <1>2
<1>5. ASSUME NEW u \in Topics \ {t}, NEW v, WillRetain(u, v)
      PROVE  WillRetain(u, v)'
  <2>1. CASE retained[u] = v /\ \A i \in DOMAIN outbox : outbox[i].topic # u
    BY <1>1, <1>2, <2>1 DEF WillRetain
  <2>2. CASE \E i \in DOMAIN outbox :
               /\ outbox[i] = [topic |-> u, val |-> v]
               /\ \A j \in DOMAIN outbox : j > i => outbox[j].topic # u
    <3>1. PICK i \in DOMAIN outbox :
                 /\ outbox[i] = [topic |-> u, val |-> v]
                 /\ \A j \in DOMAIN outbox : j > i => outbox[j].topic # u
      BY <2>2
    <3>2. \A j \in DOMAIN outbox' : j > i => outbox'[j].topic # u
      BY <1>1, <1>2, <3>1
    <3>3. i \in DOMAIN outbox' /\ outbox'[i] = [topic |-> u, val |-> v]
      BY <1>2, <3>1
    <3>4. QED BY <3>2, <3>3 DEF WillRetain
  <2>3. QED BY <1>5, <2>1, <2>2 DEF WillRetain
<1>6. QED BY <1>4, <1>5 DEF WillRetain

LEMMA ArriveRetains ==
  ASSUME TypeOK, Arrive, NEW u \in Topics, NEW v, WillRetain(u, v)
  PROVE  WillRetain(u, v)'
<1> DEFINE m == Head(outbox)
<1>1. /\ outbox' = Tail(outbox) /\ outbox # <<>>
      /\ retained' = [retained EXCEPT ![m.topic] = m.val]
  BY DEF Arrive
<1>2. /\ Len(outbox) \in Nat /\ DOMAIN outbox = 1 .. Len(outbox) /\ m = outbox[1]
      /\ DOMAIN outbox' = 1 .. Len(outbox) - 1 /\ 1 \in DOMAIN outbox
      /\ \A i \in DOMAIN outbox' : i + 1 \in DOMAIN outbox /\ outbox'[i] = outbox[i + 1]
  BY <1>1 DEF TypeOK
<1>3. CASE retained[u] = v /\ \A i \in DOMAIN outbox : outbox[i].topic # u
  <2>1. retained'[u] = v
    BY <1>1, <1>2, <1>3 DEF TypeOK
  <2>2. QED BY <1>2, <1>3, <2>1 DEF WillRetain
<1>4. CASE \E i \in DOMAIN outbox :
             /\ outbox[i] = [topic |-> u, val |-> v]
             /\ \A j \in DOMAIN outbox : j > i => outbox[j].topic # u
  <2>1. PICK i \in DOMAIN outbox :
               /\ outbox[i] = [topic |-> u, val |-> v]
               /\ \A j \in DOMAIN outbox : j > i => outbox[j].topic # u
    BY <1>4
  <2>2. CASE i = 1
    <3>1. m.topic = u /\ m.val = v
      BY <1>2, <2>1, <2>2
    <3>2. retained'[u] = v
      BY <1>1, <3>1 DEF TypeOK
    <3>3. \A j \in DOMAIN outbox' : outbox'[j].topic # u
      BY <1>2, <2>1, <2>2
    <3>4. QED BY <3>2, <3>3 DEF WillRetain
  <2>3. CASE i # 1
    <3>1. i - 1 \in DOMAIN outbox' /\ outbox'[i - 1] = [topic |-> u, val |-> v]
      BY <1>2, <2>1, <2>3
    <3>2. \A j \in DOMAIN outbox' : j > i - 1 => outbox'[j].topic # u
      BY <1>2, <2>1
    <3>3. QED BY <3>1, <3>2 DEF WillRetain
  <2>4. QED BY <2>2, <2>3
<1>5. QED BY <1>3, <1>4 DEF WillRetain

-----------------------------------------------------------------------------
(* What is cached is retained, or about to be.  An update that has         *)
(* published and not stored yet counts with the value it will store: no    *)
(* handler ends in between, because it needs the mutex to clear the cache. *)

CacheInv ==
  connected /\ handlers = 0 =>
    \A t \in Topics :
      /\ upc[t] = "store" => WillRetain(t, data[t])
      /\ upc[t] # "store" /\ cacheMap[t] # Absent => WillRetain(t, cacheMap[t])

LEMMA CacheStep ==
  ASSUME TypeOK, CacheInv, [Next]_vars
  PROVE  CacheInv'
<1> SUFFICES ASSUME connected', handlers' = 0, NEW u \in Topics
             PROVE  /\ upc'[u] = "store" => WillRetain(u, data[u])'
                    /\ upc'[u] # "store" /\ cacheMap'[u] # Absent => WillRetain(u, cacheMap[u])'
  BY DEF CacheInv
<1> USE DEF updaterVars, deviceVars, mqttVars
<1>1. UNCHANGED <<outbox, retained>> => \A v : WillRetain(u, v) => WillRetain(u, v)'
  BY DEF WillRetain
<1>2. ASSUME NEW t \in Topics, UpdateChanged(t)
      PROVE  /\ upc'[u] = "store" => WillRetain(u, data[u])'
             /\ upc'[u] # "store" /\ cacheMap'[u] # Absent => WillRetain(u, cacheMap[u])'
  <2>1. /\ UNCHANGED <<outbox, retained, cacheMap, connected, handlers>>
        /\ upc'[u] = "store" => upc[u] = "store" /\ data'[u] = data[u]
        /\ upc'[u] # "store" => upc[u] # "store"
    BY <1>2, MqttAssumption DEF UpdateChanged, TypeOK
  <2>2. \A v : WillRetain(u, v) => WillRetain(u, v)'
    BY <1>1, <2>1
  <2>3. QED BY <2>1, <2>2 DEF CacheInv
<1>3. ASSUME NEW t \in Topics, Publish(t)
      PROVE  /\ upc'[u] = "store" => WillRetain(u, data[u])'
             /\ upc'[u] # "store" /\ cacheMap'[u] # Absent => WillRetain(u, cacheMap[u])'
  <2>1. /\ connected /\ handlers = 0 /\ UNCHANGED <<data, cacheMap, retained>>
        /\ outbox' = Append(outbox, [topic |-> t, val |-> data[t]])
    BY <1>3 DEF Publish
  <2>2. CASE u = t
    <3>1. upc'[u] = "store"
      BY <1>3, <2>2 DEF Publish, TypeOK
    <3>2. WillRetain(t, data[t])'
      BY <2>1, PublishRetains
    <3>3. QED BY <2>2, <3>1, <3>2
  <2>3. CASE u # t
    <3>1. upc'[u] = upc[u]
      BY <1>3, <2>3 DEF Publish, TypeOK
    <3>2. \A v : WillRetain(u, v) => WillRetain(u, v)'
      BY <2>1, <2>3, PublishRetains
    <3>3. QED BY <2>1, <3>1, <3>2 DEF CacheInv
  <2>4. QED BY <2>2, <2>3
<1>4. ASSUME NEW t \in Topics, Store(t)
      PROVE  /\ upc'[u] = "store" => WillRetain(u, data[u])'
             /\ upc'[u] # "store" /\ cacheMap'[u] # Absent => WillRetain(u, cacheMap[u])'
  <2>1. /\ UNCHANGED <<outbox, retained, data, connected, handlers>>
        /\ u # t => upc'[u] = upc[u] /\ cacheMap'[u] = cacheMap[u]
        /\ u = t => upc[u] = "store" /\ upc'[u] # "store" /\ cacheMap'[u] = data[u]
    BY <1>4 DEF Store, TypeOK
  <2>2. \A v : WillRetain(u, v) => WillRetain(u, v)'
    BY <1>1, <2>1
  <2>3. QED BY <2>1, <2>2 DEF CacheInv
<1>5. CASE ClearCache
  BY <1>5, MqttAssumption DEF ClearCache, TypeOK
<1>6. CASE Arrive
  <2>1. UNCHANGED <<upc, cacheMap, data, connected, handlers>>
    BY <1>6 DEF Arrive
  <2>2. \A v : WillRetain(u, v) => WillRetain(u, v)'
    BY <1>6, ArriveRetains
  <2>3. QED BY <2>1, <2>2 DEF CacheInv
<1>7. CASE Connect \/ ConnectionLost
  BY <1>7 DEF Connect, ConnectionLost, TypeOK
<1>8. CASE UNCHANGED <<upc, cacheMap, data, connected, handlers, outbox, retained>>
  BY <1>1, <1>8 DEF CacheInv
<1>9. QED
  BY <1>2, <1>3, <1>4, <1>5, <1>6, <1>7, <1>8
     DEF Next, UpdaterNext, UpdateSame, DeviceChange, vars

\* Once a connection's handlers are through nothing is cached that the broker
\* will not retain.
THEOREM Retained == Spec => []CachedIsRetained
<1>1. Init => CacheInv
  BY DEF Init, CacheInv
<1>2. Spec => []CacheInv
  BY <1>1, CacheStep, TypeCorrect, PTL DEF Spec
<1>3. CacheInv => CachedIsRetained
  BY DEF CacheInv, CachedIsRetained
<1>4. QED BY <1>2, <1>3, PTL
=============================================================================
