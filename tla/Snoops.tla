------------------------------- MODULE Snoops -------------------------------
(***************************************************************************)
(* What the reader learns from responses between other devices: the        *)
(* callbacks of attachSnoops() (infinitive.go) that handleFrame()          *)
(* (protocol.go) calls with every response on the bus.                     *)
(*                                                                         *)
(* A callback copies the cached record its table belongs to, replaces the  *)
(* fields the table carries, and updates first one cache and then the      *)
(* other, value by value.  All callbacks run in the reader, one response   *)
(* at a time; only mqttOnConnect(), which clears the MQTT cache, runs      *)
(* beside them.  (Handlers of GET requests read the websocket cache and    *)
(* change nothing.)  An update is one step here, with what the cache holds *)
(* afterwards as its only effect: modules Events and MqttCache model what  *)
(* else it does.                                                           *)
(*                                                                         *)
(* Temperatures are in sixteenths of a degree, the static pressure in ten- *)
(* thousandths, a flow weight is a numerator and a denominator.            *)
(***************************************************************************)
EXTENDS Integers, Sequences, Functions

CONSTANTS
  NZones,       \* length of DamperPos (8 in the code)
  zoneWeight,   \* the zones' shares of the airflow (5, 3, 0, ... in the code)
  Responses,    \* the responses that can be heard
  None          \* "nothing heard", "not cached"

Zones == 1 .. NZones

\* Who sends what: a response's sender and its table.
Origin(f) == <<f.src, f.table>>
Origins == {Origin(f) : f \in Responses}

NoDamper == 255

\* Mutant of Present: the byte that stands for no damper is taken for a position.
PresentAny(f) == Zones \cap DOMAIN f.data

\* The zones a zone controller's response has a position for.
Present(f) == {z \in Zones \cap DOMAIN f.data : f.data[z] # NoDamper}

HasDampers(o) == o[2] = "0319"

\* A response is "short" if its table ends before what the callback reads.  There
\* is one heat pump and one air handler, and a zone is always reported by the same
\* one of the zone controllers.
ASSUME SnoopsAssumption ==
  /\ NZones \in Nat
  /\ zoneWeight \in [Zones -> Nat]
  /\ None \notin Responses /\ None \notin Origins
  /\ \A f \in Responses :
       /\ f.table \in {"3e01", "3e02", "0306", "0316", "0319"}
       /\ f.short \in BOOLEAN
       /\ f.table = "0319" => f.data \in Seq(0 .. 255) /\ (f.short <=> Len(f.data) < NZones)
       /\ f.table = "3e02" => ~f.short
  /\ \A f, g \in Responses : f.table = g.table /\ f.table # "0319" => f.src = g.src
  /\ \A f, g \in Responses :
       f.table = "0319" /\ g.table = "0319" =>
         \A z \in Zones \cap DOMAIN f.data \cap DOMAIN g.data :
           /\ f.src = g.src => (f.data[z] = NoDamper <=> g.data[z] = NoDamper)
           /\ f.src # g.src => f.data[z] = NoDamper \/ g.data[z] = NoDamper

VARIABLES
  wsCache,    \* the records snooped so far
  mqttCache,  \* the values of the topics
  todo,       \* what the callback has still to do
  running,    \* the reader has not panicked
  handling,   \* the origin of the response the callback is about
  heard,      \* history: the last response of each origin
  fresh       \* history: the origins heard since the MQTT cache was cleared

vars == <<wsCache, mqttCache, todo, running, handling, heard, fresh>>

-----------------------------------------------------------------------------
(* Decoding.                                                               *)

Key(o) == CASE o[2] \in {"3e01", "3e02"} -> "heatpump"
            [] o[2] \in {"0306", "0316"} -> "blower"
            [] o[2] = "0319" -> "damperpos"

ActionOf(heat, cool) ==
  CASE cool % 4 # 0 -> "cooling" [] cool % 4 = 0 /\ heat % 4 # 0 -> "heating" [] OTHER -> "idle"

\* The fields of the cached record that a response carries, decoded.
Carried(f) ==
  CASE f.table = "3e01" -> [coilTemp |-> f.data.coil, outsideTemp |-> f.data.outside]
    [] f.table = "3e02" -> [stage |-> f.data \div 2]
    [] f.table = "0306" -> [blowerRPM |-> f.data]
    [] f.table = "0316" ->
         [heatStage |-> f.data.heat, airFlowCFM |-> f.data.cfm,
          staticPressure |-> (f.data.static * 10000 + 32768) \div 65536,
          elecHeat |-> f.data.heat % 4 # 0, action |-> ActionOf(f.data.heat, f.data.cool)]
    [] f.table = "0319" -> [z \in Present(f) |-> f.data[z]]

\* The fields that are published by MQTT, in the order of the code.
PublishedFields(table) ==
  CASE table = "3e01" -> <<"coilTemp", "outsideTemp">>
    [] table = "3e02" -> <<"stage">>
    [] table = "0306" -> <<"blowerRPM">>
    [] table = "0316" -> <<"heatStage", "action", "airFlowCFM", "staticPressure">>

Merge(new, old) == [x \in DOMAIN old |-> IF x \in DOMAIN new THEN new[x] ELSE old[x]]

Percent(pos) == (pos * 100) \div 15

-----------------------------------------------------------------------------
(* What a callback does, as the sequence of its updates.                   *)

Ws(key, record) == [to |-> "ws", name |-> key, value |-> record]
Mqtt(topic, value) == [to |-> "mqtt", name |-> topic, value |-> value]
Skip == [to |-> "nothing", name |-> None, value |-> None]
Panic == [to |-> "panic", name |-> None, value |-> None]

\* A loop over the zones that does something for those a response has.
ForPresent(f, updates) == [z \in Zones |-> IF z \in Present(f) THEN updates[z] ELSE Skip]

Flow(f, pos) == [z \in Present(f) |-> zoneWeight[z] * pos[z]]

Weights(f, pos) ==
  ForPresent(f, [z \in Present(f) |->
                   Mqtt(<<"flowWeight", z>>, <<Flow(f, pos)[z], SumFunction(Flow(f, pos))>>)])

\* Mutant of FlowWeights: the weights are not left alone when all are closed.
FlowWeightsUnguarded(f, pos) == Weights(f, pos)

\* Each zone's share of the flow, if there is any.
FlowWeights(f, pos) == IF SumFunction(Flow(f, pos)) > 0 THEN Weights(f, pos) ELSE <<>>

\* main() stores a zero record under each key before anything is heard.
NewRecords ==
  [heatpump |-> [coilTemp |-> 0, outsideTemp |-> 0, stage |-> 0],
   blower |-> [blowerRPM |-> 0, airFlowCFM |-> 0, staticPressure |-> 0, heatStage |-> 0,
               elecHeat |-> FALSE, action |-> ""],
   damperpos |-> [z \in Zones |-> 0]]

\* Mutant of Record: a callback starts from an empty record, not from a copy.
RecordAnew(f) == Merge(Carried(f), NewRecords[Key(Origin(f))])

\* getHeatPump(), getAirHandler(), getDamperPosition(): a copy of the record,
\* in which the callback replaces what the response carries.
Record(f) == Merge(Carried(f), wsCache[Key(Origin(f))])

\* Zone controllers: MQTT comes first, and a table that is too short is noticed
\* only after its zones have been published.
DamperCallback(f) ==
  ForPresent(f, [z \in Present(f) |-> Mqtt(<<"damperPos", z>>, Percent(Record(f)[z]))])
    \o IF f.short THEN <<Panic>>
       ELSE FlowWeights(f, Record(f)) \o <<Ws("damperpos", Record(f))>>

\* Heat pump and air handler: the record is updated, then the topics; a table
\* that is too short is noticed before anything is.
SensorCallback(f) ==
  LET fields == PublishedFields(f.table) IN
  IF f.short THEN <<Panic>>
  ELSE <<Ws(Key(Origin(f)), Record(f))>>
         \o [i \in DOMAIN fields |-> Mqtt(<<fields[i]>>, Record(f)[fields[i]])]

\* Mutant of Callback: a response that changes nothing is not looked at further.
CallbackIfChanged(f) ==
  IF ~f.short /\ Record(f) = wsCache[Key(Origin(f))] THEN <<>>
  ELSE IF HasDampers(Origin(f)) THEN DamperCallback(f) ELSE SensorCallback(f)

Callback(f) == IF HasDampers(Origin(f)) THEN DamperCallback(f) ELSE SensorCallback(f)

-----------------------------------------------------------------------------

Topics ==
  {<<x>> : x \in {"coilTemp", "outsideTemp", "stage", "blowerRPM", "heatStage", "action",
                  "airFlowCFM", "staticPressure", "elecHeat"}}
    \cup {"damperPos", "flowWeight"} \X Zones

TypeOK ==
  /\ DOMAIN wsCache = DOMAIN NewRecords
  /\ \A k \in DOMAIN NewRecords : DOMAIN wsCache[k] = DOMAIN NewRecords[k]
  /\ wsCache["damperpos"] \in [Zones -> 0 .. NoDamper - 1]
  /\ DOMAIN mqttCache = Topics
  /\ \A i \in DOMAIN todo : todo[i].to \in {"ws", "mqtt", "nothing", "panic"}
  /\ running \in BOOLEAN
  /\ handling \in Origins \cup {None}
  /\ handling = None <=> todo = <<>>
  /\ heard \in [Origins -> Responses \cup {None}]
  /\ fresh \in SUBSET Origins

Init ==
  /\ wsCache = NewRecords
  /\ mqttCache = [t \in Topics |-> None]
  /\ todo = <<>>
  /\ running = TRUE
  /\ handling = None
  /\ heard = [o \in Origins |-> None]
  /\ fresh = {}

\* handleFrame() calls the callback of the response's sender.  (Responses of
\* other senders, other tables and at most three bytes have no effect.)
HandleFrame(f) ==
  /\ running /\ todo = <<>>
  /\ todo' = Callback(f)
  /\ handling' = IF todo' = <<>> THEN None ELSE Origin(f)
  /\ heard' = [heard EXCEPT ![Origin(f)] = f]
  /\ fresh' = fresh \cup {Origin(f)}
  /\ UNCHANGED <<wsCache, mqttCache, running>>

\* The next update of the callback.
Update ==
  LET u == Head(todo) IN
  /\ running /\ todo # <<>>
  /\ wsCache' = IF u.to = "ws" THEN [wsCache EXCEPT ![u.name] = u.value] ELSE wsCache
  /\ mqttCache' = IF u.to = "mqtt" THEN [mqttCache EXCEPT ![u.name] = u.value] ELSE mqttCache
  /\ running' = (u.to # "panic")
  /\ todo' = Tail(todo)
  /\ handling' = IF Tail(todo) = <<>> THEN None ELSE handling
  /\ UNCHANGED <<heard, fresh>>

\* mqttOnConnect() clears the MQTT cache.
ClearCache ==
  /\ running
  /\ mqttCache' = [t \in Topics |-> None]
  /\ fresh' = {}
  /\ UNCHANGED <<wsCache, todo, running, handling, heard>>

Next == Update \/ ClearCache \/ \E f \in Responses : HandleFrame(f)

Spec == Init /\ [][Next]_vars

-----------------------------------------------------------------------------
(* Properties.                                                             *)

\* The callback is through with the last response of o.
Settled(o) == heard[o] # None /\ handling # o /\ running

\* The cached records, put together from tables that arrive separately and from
\* several senders, hold of every table what was heard of it last
\* (infinitive.go:474-558; no callback undoes another's fields).
RecordsAreLatest ==
  \A o \in Origins : Settled(o) =>
    \A x \in DOMAIN Carried(heard[o]) : wsCache[Key(o)][x] = Carried(heard[o])[x]

\* The value a topic shall have when all is well with a record.
Shown(o, x) ==
  IF HasDampers(o) THEN Percent(wsCache[Key(o)][x]) ELSE wsCache[Key(o)][x]

TopicOf(o, x) == IF HasDampers(o) THEN <<"damperPos", x>> ELSE <<x>>

IsPublished(o, x) ==
  HasDampers(o) \/ \E i \in DOMAIN PublishedFields(o[2]) : PublishedFields(o[2])[i] = x

\* Field x of origin o is in the MQTT cache as it is in the other one, or, until
\* o is heard again, not at all since the cache was cleared.
Agrees(o, x) ==
  \/ mqttCache[TopicOf(o, x)] = Shown(o, x)
  \/ mqttCache[TopicOf(o, x)] = None /\ o \notin fresh

\* The two caches, which are updated one after the other and of which one is
\* cleared at any time, agree on every value, and after a clearing every topic
\* comes back with the next response even if nothing has changed.
CachesAgree ==
  \A o \in Origins : Settled(o) =>
    \A x \in DOMAIN Carried(heard[o]) : IsPublished(o, x) => Agrees(o, x)

\* Flow weights are fractions, and those of the zones of one zone controller
\* divide the flow among them as its dampers do: "multiply the total airflowCFM
\* by this number to get the reported airflow for this zone"
\* (README.md:358-359).  When all dampers close the weights are left as they are.
FlowIsShared ==
  /\ \A z \in Zones : LET w == mqttCache[<<"flowWeight", z>>] IN
       w # None => w[2] > 0 /\ w[1] \in 0 .. w[2]
  /\ \A o \in fresh :
       HasDampers(o) /\ Settled(o) =>
         LET zones == Present(heard[o])
             flow == [z \in zones |-> zoneWeight[z] * wsCache["damperpos"][z]]
             total == SumFunction(flow)
         IN total > 0 => \A z \in zones : mqttCache[<<"flowWeight", z>>] = <<flow[z], total>>
=============================================================================
