# Infinitive in TLA+

Infinitive is a Go program that speaks the Carrier Infinity / Bryant Evolution
ABCD bus protocol over a serial line. It pretends to be a System Access Module
(SAM), polls the thermostat and listens to what the devices say to each other,
publishes what it learns to browsers (websockets) and to an MQTT broker, and
takes commands by HTTP and MQTT. This directory holds TLA+ models of it, the
TLC configurations that check them, and proofs that TLAPS checks.

Run a model with `tlc -config MCProtocol.cfg MCProtocol`, check proofs with
`tlapm ProtocolProofs.tla`. Line numbers refer to the files of the repository.

## 1. The system

### Goroutines and shared state

| goroutine | code | runs |
|---|---|---|
| reader | `protocol.go` `reader()` | reads the port, cuts the stream into frames, queues responses to us on `responseCh`, acknowledges writes to us, calls the snoops |
| broker | `protocol.go` `broker()`, `performAction()` | takes one `Action` at a time off `actionCh`, transmits, waits, retransmits |
| state poller | `infinitive.go` `statePoller()` | every second reads three tables through `send()` and updates both caches |
| HTTP handlers | `webserver.go` | one per request; `send()` for reads and writes; a websocket's handler is `attachListener()` |
| MQTT handlers | `dispatcher.go` | `mqttOnConnect()` per connection; `mqttMessageHandler()` one message at a time |
| dispatcher | `dispatcher.go` `run()` | owns the set of listeners and fans events out |
| statistics | `infinitive.go`, `protocol.go` | logs and resets counters |

They share: `p.port` (reader and broker, no lock), `actionCh` (unbuffered),
`responseCh` (32), each action's own channel, the two caches `wsCache` and
`mqttCache` (a mutex each, which `attachListener()` does not take), the
dispatcher's channels, and the tables of the thermostat.

### Components, hazards and the properties that answer them

**Request/response protocol** (`protocol.go` 198-351, `handleFrame()`
108-138). State: the queue of callers, the action in hand and its
retransmission count, the response queue; beyond the program, what the devices
have heard and what is on the line. Operations: `send()`, accepting an action,
transmitting, four ways to treat a response, the ticker, queueing a response.
Hard: responses carry no request number, so an answer to an abandoned or
retransmitted request may meet a later call; frames are lost either way; three
goroutines wait for one another. Correct when each caller gets the result of
its own call (`Handover`) and every call returns (`EveryTaskEnds` of
Infinitive), answers are to what was asked (`AnswerIsOurs`,
`CleanCallsAreExact`, `QuietUntilRetransmission`), writes take effect in call
order (`WritesApplyInOrder`), and the whole is a service that performs one call
after the other (`ServedInOrder`).

**Serial port lifecycle** (`protocol.go` 75-89, 140-160, 338-353). State:
`p.port` and the handles the operating system has open. Hard: two goroutines
test, use, close and clear one field in separate steps. Correct when silence on
the bus does not end the reader, no handle leaks, and the port always comes
back (`ReaderOutlivesTimeouts`, `OneHandle`, `PortComesBack`).

**Frame reader** (`protocol.go` 140-196, `frame.go` 85-114). State: the bytes
not parsed yet. Hard: pieces cut anywhere, noise that looks like the header of
a long frame, frames within frames. Correct when frames are found, in order,
once, in bounded time and however the stream is cut (`FramesAreDisjoint`,
`NoFrameIsOverlooked`, `FramesAreHandledInTime`, `PiecesDoNotMatter`).

**Websocket cache and event dispatcher** (`cache.go`, `dispatcher.go` 45-99,
`webserver.go` 204-239). State: the cached values and the mutex, the broadcast
channel, the listeners and their channels, what each handler still has to
write. Hard: an update is broadcast before it is stored; the map is iterated
without the mutex; slow listeners are dropped; a channel can be closed from two
places. Correct when a client sees an unbroken stream (`StreamSpec`), ends up
with the cached values (`SettledViewsAreCached`), no channel is closed twice or
sent on after closing (`ClosedOnce`), and a stalled client stalls nobody
(`UpdatesEnd`, `DroppedHandlersLeave`).

**MQTT publication** (`cache.go`, `dispatcher.go` 58-79, 132-234). State: the
cached values, the connection, messages under way, what the broker retains.
Hard: messages dropped silently while there is no connection, connections lost
with messages under way, handlers of several connections overlapping. Correct
when nothing stays cached that the broker does not have or get
(`CachedIsRetained`) and the broker catches up (`BrokerCatchesUp`).

**Commands and state poller** (`infinitive.go` 94-339 and 394-460,
`webserver.go` 92-160, `dispatcher.go` 104-130, `tables.go`, `conversions.go`).
State: the thermostat's tables, the writes each handler still has to perform,
what the poller has read and published. Hard: a table is written whole with
flags that say which fields count; two writes of one request may fail
separately; a configuration is put together from two reads, either of which may
fail, be answered too briefly, or take an answer left over from an earlier
read; words, bytes and days are converted; a retransmitted write may be
applied after its handler has returned. Correct when a command sets all that it
mentions, so that it reads back as asked, and nothing else
(`CommandsHaveTheirEffect`), numbers shown are right (`DaysShownCoverHours`),
and everything is shown in the end (`ChangesAreShown`).

**Snoops** (`infinitive.go` 376-401 and 474-559, `protocol.go` 121-127). State:
three cached records, the MQTT cache, what a callback has still to do. Hard: a
record is put together from tables that arrive separately; two caches are
updated one after the other, in either order, while a third party clears one of
them; flow weights divide by a sum that may be zero; responses are indexed into
with their length unchecked. Correct when records hold what was heard last
(`RecordsAreLatest`), the caches agree (`CachesAgree`), and the weights divide
the flow (`FlowIsShared`).

**Response log** (`infinitive.go` 562-612, 649-654). State: the file in use and
its hour, the files open. Hard: the hour is read twice and may come back, a
file may not open, `main` closes the log beside the reader. Correct when one
file is open, each frame has a line, in the file of its hour, and files only
grow (`OneFileIsOpen`, `FramesAreLogged`, `LinesAreInTheirHour`,
`FilesOnlyGrow`).

**Statistics** (`protocol.go` 33-54 and 355-377, the increments in
`performAction()` and `ReadTable()`, `infinitive.go` 464-472). State: the object
counted in, the old one, increments under way. Hard: everything is without a
lock. Correct when a report accounts for the actions (`ReportsBalance`) and
little is lost or counted twice (`FewCountsAreLost`).

**The goroutines together** (all files). State: who waits for what, the mutexes'
holders, how full the channels are. Hard: the components above lean on each
other's progress in a circle: the caller waits for the broker, the broker for
answers the reader brings, the reader for the caches' mutexes and for the
broker, the holder of a mutex for the dispatcher. Correct when there is no
circular wait (`NoCircularWait`) and everything ends (`EveryTaskEnds`).

**REST reads** (`webserver.go` 30-91 and 162-187): the GET handlers change
nothing. Whom they wait for is in Infinitive, what they make of a table is in
Commands (`zoneToAPI`, `toAPI`).

**Not modelled**: the browser's code and its generated packing
(`bindata_assetfs.go`).

### How the components interact

Commands and poller call `send()` (Protocol). `Commands` takes from `Protocol`
what that module establishes of one call: it is applied, or it is lost, and the
caller does not learn which in every case. The broker and the reader transmit
through `sendFrame()` (SerialPort); what SerialPort makes of a frame is in
`Protocol` a request that may be lost (`LoseRequest`). The reader delivers what
FrameReader finds; a corrupted frame is in `Protocol` `LoseFrame`. The poller's
results, and the snoops', go to `Cache.update()` (Events for the websocket
cache, MqttCache for the other, Snoops for both with their values). What each
module takes for granted of the progress of the others' goroutines is what
Infinitive shows of all of them at once.

## 2. Modules

| module | extends | models |
|---|---|---|
| `Protocol` | instantiates `Calls` | the request/response layer, with the devices as environment |
| `SerialPort` | | every load and store of `p.port` |
| `FrameReader` | | the search for frames in the byte stream |
| `EventStream` | | abstract: what a websocket client is promised |
| `Events` | instantiates `EventStream` | cache, dispatcher and websocket handlers |
| `MqttCache` | | cache, connection and what the broker retains |
| `Commands` | | handlers, conversions, thermostat tables, poller |
| `Calls` | | abstract: what `send()` promises the goroutines that share the bus |
| `Snoops` | | the three callbacks, update by update |
| `Statistics` | | increments and report, load by load and store by store |
| `ResponseLog` | | the hourly log files |
| `Infinitive` | | the composition: every goroutine and what it waits for |
| `MCProtocol`, `MCCommands`, `MCSnoops`, `MCStatistics` | the module of that name | symmetry sets; the commands, panel settings, tables and responses TLC enumerates |
| `ProtocolProofs`, `EventsProofs`, `MqttCacheProofs`, `CommandsProofs`, `SnoopsProofs`, `InfinitiveProofs` | the module of that name, `TLAPS` | theorems |
| `ReaderProofs` | `FrameReader`, `SerialPort`, `TLAPS` | theorems about the reader and its port |
| `DiagnosticsProofs` | `Statistics`, `ResponseLog`, `TLAPS` | theorems about statistics and the response log |

Each module's operator names are those of the code where it has a name for the
thing. `PROJECT.json` maps each definition to its lines. Definitions whose
comment begins "Mutant of" are not part of a specification: each is a plausible
bug, and stands for its original when one wants to see that a property notices.

### Protocol

`pc`, `act` and `result` are the callers; `actionCh` is the queue of goroutines
blocked on that channel, in Go's FIFO order; `cur`, `tries` are the broker's
locals (`cur = NoClient` is its select); `responseCh` is the channel; `wire`
and `inbox` are the line and the devices' queues. Accepting an action and
transmitting it is one step, since nothing else can see the broker in between;
what can happen to the frame in between is `LoseRequest`. `BrokerTick` is one
expiry of the ticker: it transmits, counts, and on the last count gives up
*after* having transmitted, as lines 263-275 do. `HandleFrame` waits for room
in `responseCh` as line 116 does. A payload is reduced to what lines 224-252
and 286-299 distinguish: the table, data or a short echo, the one-byte statuses
00 and other; a table's content is its version number. `id`, `since`, `clean`,
`ticked`, `writer` and `applied` are history: no guard reads them.

The devices answer requests in the order heard, or not at all; they change
tables by themselves and answer others on the same line. `opERROR` answers are
ignored by `handleFrame()` and so are a lost request.

`Calls` has the calls in a queue, the one being served, how each ended and who
wrote each table last. `Protocol` implements it under the mapping
`queue = actionCh`, `serving = cur`, `outcome = Outcome`: line, inboxes,
response queue and retransmissions disappear, and a write that arrives late, or
twice, must be one `Calls` allows, of a call already begun and of none earlier
than the last writer.

### SerialPort

The reader's program counter runs through `check` (147), `open` (149), `read`
and `reading` (152), `test`, `close`, `clear` (155-159), and `frame` while it
acknowledges a write in `sendFrame()`; each sender's through `write` (345),
`close` and `clear` (347-349). A method called on nil ends the program
(`crashed`). `Handles` are reused once closed and let go of. Reads end, with an
error when nothing came: the port has a read timeout (75-89).

### FrameReader

A byte stream is the function `length` (what byte 4 of a frame starting there
would claim, plus ten) and the set `decodes` (where `decode()` succeeds), both
arbitrary: noise, collisions and frames inside the data of frames included.
`start .. received - 1` is `msg`. `Receive`, `Reopen`, `Deliver`, `Resync` are
the four things the loop can do.

### Events and EventStream

An updater holds the mutex from `UpdateChanged` through `BroadcastEvent` to
`Store`. `FanOut`, `Register` and `Deregister` are the cases of the
dispatcher's select; a handler goes from `Register` over `SnapshotKey` and
`SnapshotDone` to `WriteEvent` until `WriteFails` or `ChannelClosed`, and ends
with `Deregister`. The iteration over the map without the mutex visits every
key present at its start, may visit others, and reads each when it gets there;
`SnapshotRaces` is the Go runtime's detection of the concurrent write, which
ends the program, at its discretion.

`EventStream` has three variables: events published, how far each client is,
who is attached. `Events` implements it under the mapping
`published = Len(log)`, `seen = last`, `attached` = handlers in `snapshot` or
`waiting`. Channels, capacities and the closing of slow listeners disappear.

### MqttCache

As in Events, with the message in place of the event: dropped when there is no
connection, lost with it, retained when it arrives. `ClearCache` is the last
statement of `mqttOnConnect()`, which takes the mutex; several handlers may be
under way when the connection comes and goes. A broker that restarts may lose
what it retains. `Topics` have one updater each, as in the program.

### Commands

`reg` is the thermostat. A handler computes its writes from the command
(`putConfig`, `putVacationConfig`, `putZoneConfig`, `fromAPI`; operators with
the names of the code) and performs them one by one, each applied or lost. The
thermostat takes the flagged fields of the named zone (`Merge`, `Applied`). No
code ends a vacation but by writing the fields that a command mentions; the
documentation says that zero days or hours, or a hold, end it. What the
thermostat does of its own is outside the repository, so that it may do so or
not with each such write (`MayEndVacation`, `Outcomes`).

The poller reads zones, current values and vacation in three steps and
publishes. A read has the table as it is at that moment, or takes an answer that an
earlier, retransmitted read of the same table has left over (`stray`, `Answers`;
lines 224-252 cannot tell them apart), or is answered too briefly, which
leaves a zeroed table (lines 286-296; `NoZones`, `NoVacation`), or fails. Of
left-over answers one is kept at a time. Texts are members of small sets; a trailing ".0"-like
tail, which `mqttMessageHandler()` removes for zones only, is a flag. Widths
matter in `DaysOf` and `HoursOf` and are kept.

A write may leave a copy behind (`MayLeaveCopy`): the retransmission that
`performAction()` does not wait for. The thermostat serves copies in the order
it heard them and before the next write, which is what `WritesApplyInOrder` of
Protocol establishes, but any time after the handler has returned.

Abstracted: sensor values that no command touches (temperatures, humidity,
times), the stage beside the mode in its byte, the minutes a hold lasts
(`OvrdDurationMins`), wording of topics. A zone `getZonesConfig()` leaves out, because its
temperature byte is 0 or 255, is one outside `Zones`.

### Snoops

`HandleFrame` computes what the callback does with a response as a sequence of
updates, `Update` performs the first one left, `ClearCache` is
`mqttOnConnect()`'s and comes at any time. An update has the value it leaves in
the cache as its effect; the waiting in it is Infinitive's, the broadcasting
that of Events and MqttCache. Decoding is kept (`Carried`, `ActionOf`,
`Percent`, `FlowWeights`), floats as integers of their unit. A response that
ends too early makes the callback end in `Panic` after the updates that come
before the index out of range. `heard` and `fresh` are history.

### Statistics

`Load`, `Read` and `Write` are the three parts of `p.stats.x++`. Lines 255 and
272 name `p.stats` on both sides of the assignment, so that the sums they add
to (`Sums`) may be read from one object and stored to another: for them each
access finds any object in use since the increment began (`Found`). `Swap`,
`Averages` and `LogStats` are the parts of `getStatsString()` and its caller. The broker
counts what `performAction()` counts, in its order, callers count `srdt`.
`happened` and `reported` are history.

### ResponseLog

`Log` and `Close` each go through `CheckRotate`, `OpenFile` or `OpenFails`,
`Install` and `CloseOld`; the reader ends with `WriteString`, `main` with
`CloseFile` and `ClearFile`, and with `main` the program ends. `Clock` moves the
hour to any other. A handle is its position in the sequence of files opened, so
that one closed and one never assigned can be told apart.

### Infinitive

A goroutine is the sequence `todo` of the things it may have to wait for: a call
(`send()`), an update or a reading of either cache, room in `responseCh`, the
MQTT broker's answer to a subscription. `Poll`, `HandleFrame`, `MqttMessage`,
`Connected` and `Request` give an idle goroutine a sequence that its code can
go through; the reader's snoops update the caches in both orders. `Lock`,
`Publish` and `Broadcast` are an update that changes a value, `Look` is one
that does not, a `get()` and the `clear()`. `FanOut` with `Open`, `Write` and
`Leave` is the dispatcher with its websockets, `ch` the fill of their channels.
Values, frames and events are left out: an answer may match or not, a value
may be new or not, at any time.

`Publish()` of the MQTT client is taken to return: with quality of service 0 it
gives up after a time limit of its own. The library hands messages out one at a
time, so that a subscription is answered only when `mqttMessageHandler()` is
idle.

## 3. Runs

| run | instance | states | shows |
|---|---|---|---|
| `protocol` | 2 clients, 1 device with 2 tables, 2 calls, 2 transmissions per call, responseCh 1, line 1, device queue 2, 1 change at the device | 0.76 M | `TypeOK`, `Handover`, `CleanCallsAreExact`, `QuietUntilRetransmission`, `AnswerIsOurs`, `WritesApplyInOrder`, `ServedInOrder` |
| `protocol_stale_ack` | the same with 1 table and 3 calls | | violates `OkMeansProcessed` |
| `events` | 2 keys, 2 values, 1 client, broadcast 1, its channel 2, 4 events, fair | 0.17 M | `TypeOK`, `ClosedOnce`, `SettledViewsAreCached`, `StreamSpec`, `UpdatesEnd`, `DroppedHandlersLeave` |
| `serial_port` | 3 handles, fair | 1353 | `PortTypeOK`, `ReaderOutlivesTimeouts`, `OneHandle`, `PortComesBack` |
| `serial_port_exit` | 3 handles | | violates `NeverExits` |
| `frame_reader` | 6 bytes, frames of 2 to 4 | 3.1 M | the four properties of FrameReader, `TypeOK` |
| `mqtt_cache` | 2 topics, 2 values, 4 changes, 2 messages, 2 handlers, fair | 0.16 M | `TypeOK`, `CachedIsRetained`, `BrokerCatchesUp` |
| `commands` | 15 commands of which 2 are sent, 2 handlers, 2 zones, 1 panel setting, 1 late copy, 1 read that goes wrong, fair | 0.41 M | `DaysShownCoverHours`, `ChangesAreShown`, `CommandsHaveTheirEffect` |
| `snoops` | 11 responses of 5 senders' tables, 3 zones, any number of responses | 1.24 M | `TypeOK`, `RecordsAreLatest`, `CachesAgree`, `FlowIsShared` |
| `statistics` | 2 callers and the broker, 2 actions of up to 2 transmissions, 1 table read, 2 reports | 3.6 M | `ReportsBalance`, `FewCountsAreLost` |
| `response_log` | 2 hours, 4 frames, 4 files | 0.72 M | `OneFileIsOpen`, `FramesAreLogged`, `LinesAreInTheirHour`, `FilesOnlyGrow` |
| `infinitive` | 1 HTTP request, 1 websocket, 2 transmissions per call, channels of 1, fair | 0.16 M | `NoCircularWait`, `EveryTaskEnds` |

The `TypeOK` of Commands, Statistics and Infinitive, which no run checks, is
proved; so is the `LogTypeOK` of ResponseLog, as a part of the invariant `TypeInv`.

### Why the bounds are enough

*Protocol.* The troubles come from an answer that outlives its call: that takes
one retransmission (`responseRetries = 2`, so both the counted and the last one
occur), a call abandoned, and a next call, for the same table or another. A
full `responseCh` and a full line occur at capacity one. The stale
acknowledgement is found within these bounds; a third call adds a queue of two,
and what it could disturb is proved for any number. *Events.* The overflow of
the client's channel needs three events and, for the dispatcher to be held up
by it, a fourth; two keys let an updater wait for the mutex. Clients meet only
in `FanOut`, which treats each alike; the theorems are for any number.
*SerialPort.* The only bound is the handles: two goroutines can hold on
to two, and a third can be opened. *FrameReader.* Six bytes hold three shortest
frames, or a frame that lies in the claimed length of noise in front of it and
one behind it; the ratio of longest to shortest frame, not their size, is what
the loop's conditions distinguish, and the theorems do without the bounds.
*MqttCache.* Two handlers let a late one clear the cache in a later connection;
four changes let a topic change before, between and after two connections.
*Commands.* The 15 commands, eight that change something and seven that are
refused, reach each kind of handler and its refusals; two of them run against each
other, one by MQTT and one by PUT, and against the panel and the poller; which
two is TLC's choice. Two PUT requests meet only at the thermostat, as the MQTT
handler and a request do, and `CommandsHaveTheirEffect` is proved for any number
of either. A read that goes wrong has no after-effect but the answer it
leaves over, and one is enough to be taken for the next round's; `ChangesAreShown`
is about what follows the last. *Snoops.* Every table occurs with different readings in each
field, both zone controllers, and two responses that are cut off; the sequence
of responses is not bounded. *Statistics.* A report beside an action takes one
action on either side of it; two reports let a count miss both. *ResponseLog.*
Two hours let the clock go on and come back; failed openings and one that
succeeds later fit in four frames. *Infinitive.* At capacity one every channel is
full as soon as it is used; two requests or websockets wait for nothing that one
does not. What repeats is merged: updates of one cache in a row, the calls of a
poll, the subscriptions.

### Fairness

`Infinitive`: goroutines that can go on do, and the ticker ticks. Go's select
chooses at random between ready cases, so responses that stay ready are taken in
the end, whatever the ticker does. A mutex goes to the goroutine that waits
longest once it has waited a millisecond, hence strong fairness of taking one;
and an answer to a subscription, which follows the messages before it on one
connection, is not put off for ever. Nothing is assumed of what comes from
outside: frames, messages, requests, answers, or clients that read. `Events`:
the dispatcher and the updaters run, the dispatcher's select serves a handler
that deregisters; of clients nothing is assumed, except in
`DroppedHandlersLeave`, which says so (`HandlerFairness`). `SerialPort`: the
reader runs and a read returns because of its timeout; the broker finishes a
`sendFrame()` it has begun but need not begin one. `MqttCache`: the poller
comes round again and again; the mutex is handed to whoever waits (Go's mutex
prevents starvation), hence strong fairness of `UpdateChanged` and
`ClearCache`; a connection that stays up carries messages. `Commands`: a write
ends (which is `EveryTaskEnds` of Infinitive) and the poller goes round.
Protocol, FrameReader, Snoops, Statistics and ResponseLog have safety
properties only.

Deadlock is checked for Protocol, FrameReader, MqttCache and Infinitive. It is
not for SerialPort, Events, Commands, Snoops and ResponseLog, where the program
may really stop (by a nil port, by the runtime's detection of a racing map, by
the panic on a short value or response, when `main` returns), and not for
Statistics, whose bounded counts run out.

## 4. What the runs found

* **A write acknowledged by its predecessor's acknowledgement**
  (`protocol_stale_ack`). A write is retransmitted, both copies are
  acknowledged, the second acknowledgement arrives during the next write, and
  that is reported as done though no device heard it. Lines 240-252 compare the
  sender and the byte 00 only; `CleanCallsAreExact` says when calls are safe.
* **A nil port** (`serial_port_exit`). `ReaderOutlivesTimeouts` says that a
  failed open or a failed write is needed to bring the reader down.

Met while modelling, with no run of their own:

* `toAPI()` (`tables.go:88`) cuts days to a byte: 6121 hours, which `hours`
  accepts, are shown as 0 days against `README.md:331` "rounded up to next
  whole day". `DaysShownCoverHours` is therefore stated up to 6120 hours.
* `rawModeToString()` yields `electric` and `heatpump`, which `README.md:324`
  does not list among the values of `infinitive/mode`.
* `update()` broadcasts before it stores (`cache.go:23-24`) and
  `attachListener()` reads the map without the mutex: a client that registers
  between the two is never told of the change, against `README.md:69` ("There is
  a brief delay"). `SettledViewsAreCached` says that this window, `missed`, is
  the only one.
* A PUT request with a mode that is no word of the API turns the system off
  (`webserver.go:155` ignores whether the word was known), and one with such a
  fan mode for the vacation sets `auto` (`tables.go:139-141`, "FIXME: check for
  ok here"), against `README.md:181`. MQTT refuses both. `CommandsHaveTheirEffect`
  states what such a word does, rather than leaving it out.
* Zero days or hours cancel a vacation, says `README.md:299, 424-425`, and a
  hold unsets the preset `vacation`, says `README.md:432`. The code writes the
  hours, or the hold, and nothing else: `active` keeps its value
  (`tables.go:107-116`, `infinitive.go:195-225`), and the preset shown is
  `vacation` as long as it is set (`infinitive.go:424`). So these sentences hold only if
  the thermostat ends the vacation when it is told that no hours are left, or
  that a zone is on hold, which nothing in the repository shows.
  `CommandsHaveTheirEffect` is stated for either case: the vacation may end, if
  the command is one of these, and may go on. It does not say that it ends.
* `PUT /api/zone/Z/config` takes a setpoint of 0 for one that is absent
  (`webserver.go:139, 144`), while MQTT sets it. A request cannot ask for 0, then,
  and `CommandsHaveTheirEffect` reads it as not mentioning the setpoint.
* The handler of a zone topic slices its value two characters from the end
  (`dispatcher.go:117`); a value of one character panics, where
  `README.md:418-419` has mistakes logged. Action `ShortMqttMessage` models it.
* Snoop callbacks index up to the fourteenth byte of a response of which
  `handleFrame()` has made sure of four (`infinitive.go:481-539`); a shorter one
  panics in the reader (`protocol.go:141`, "this should never happen"), for a
  zone controller's in the middle of its updates. `Panic` models it.
* The air handler's callback decodes `elecHeat` and never publishes it, though
  `README.md:344` lists its topic; `CachesAgree` is stated of what is published.
* `getStatsString()` divides in an object that increments may still reach
  (`protocol.go:362-372`): an action's time and its count may go to different
  periods, or a store under way puts the sum in the place of the average, and
  the average reported exceeds the longest action.
* Flow weights stay as they were when all dampers close; temperatures are
  decoded as unsigned (`infinitive.go:482`); `LogS()` is never called; our own
  requests are in the response log only if the adapter echoes them
  (`README.md:82`, "all requests and responses seen").
* While only the vacation table cannot be read the presets are published as if
  no vacation were on (`infinitive.go:424`).

## 5. Proofs

TLAPS proves every safety property of the passing runs, invariants and action
properties alike, and both refinements, for all values of the constants that
satisfy each module's one `ASSUME`: capacities and retries positive, "nobody"
values outside their sets, the shortest frame not longer than the longest, and,
for Commands and Snoops, tables, commands and responses with the fields and
widths that the code's types give them. In particular they hold for any number of
clients, devices, tables and handles, any capacities, any commands and responses,
and streams of any length. (ResponseLog needs no assumption.) SerialPort and
ResponseLog name their specifications with a prefix, `PortInit` to `PortSpec` and
`LogInit` to `LogSpec`, so that one module of proofs can extend two components.

Each rests on an inductive invariant, a conjunction of named parts; each part has
a lemma per action, or per group of actions, that can disturb it.

**ProtocolProofs.** *Handover.* `TypeCorrect`: `TypeOK`, one lemma per group of
actions; that `tries` stays below `responseRetries` and `responseCh` within its
capacity are the arithmetic in it. `HandoverCorrect`: `Handover`. It is not
inductive by itself: that a caller is queued behind the others needs that no call
has a number above `calls`, and that no two calls have the same one (`CallsInv`).
That the queue is in the order of the numbers then implies that nobody is
queued twice, so that removing the head leaves its client nowhere in the queue.

*Answers.* `AnswersAreOurs` and `CleanAnswersAreExact`:
`AnswerIsOurs` and `CleanCallsAreExact`. They rest on `AnswerInv`, which says to
which calls the requests and responses under way belong. `RequestsInv`: a
request a device has heard is a copy of the action it was sent for.
`FramesInv`: a response to us that carries call n tells the truth about it, its
version is no older than the call, and an acknowledgement means that the write
was applied. `OrderInv`: what is outstanding (`IsOut`) belongs to the call
being served or to earlier ones, and to that call alone if it was taken up
while nothing was. Four lemmas say what a step may add to a device's queue, to
`responseCh`, to the line and so to what is outstanding; each conjunct's proof
is about these additions only. The lemma `OkResult` joins them at the one step
that gives a call a result.

*Order.* `WritesInOrder`: the numbers of the requests in a
device's queue do not decrease, none is above the action in hand, and none below
the last writer of a table (`DevicesInv`), because the queue of callers is
numbered without a gap from the action in hand on (`NumbersInv`).
`ImplementsCalls`: `Spec => ServedInOrder`, one step per action: the broker's
acceptance is `Serve`, its three endings are `Finish`, a write of the device is
`Apply`, which `DevicesInv` allows, and everything else changes nothing of
`Calls`. `QuietBeforeRetransmission`: until the first tick there is at most one
item outstanding (`Single`), request, response or frame to us, and none when the
broker is idle (`SingleInv`).

**ReaderProofs.** *Frames.* `TypeCorrect`, which contains that the reader never
takes more off `msg` than is there (lemma `Whole`). `HandledInTime`:
`FramesAreHandledInTime`, from two facts: the loop has not gone back to the
port while a whole frame was in `msg` (lemma `PastTheOld`), so that the reader
is past whatever began a longest frame ago, and what it is past was dealt with
(`NoFrameIsOverlooked`). `Disjoint` and `NothingOverlooked` are inductive
relative to `TypeOK`. `PiecesCorrect`: as long as the port never failed, what
was delivered followed by what a pass over the rest of the stream finds is what
one pass over all of it finds. `Parse` is a recursive function; that it
satisfies its equation (`ParseIs`) is shown by taking the least position
counted from the end at which there would be no such function. With the
equation, a delivery takes one frame off the front of `Parse` and a
resynchronisation none.

*Port.* `PortTypeCorrect`: `PortTypeOK`. `OneHandleCorrect`, from `HandleInv`:
while no write has failed nobody in `sendFrame()` is past the write, so only the
reader closes and clears the field; the open handle is the field's, the one
being read is the field's, and none is open when the reader is about to clear.
`ReaderOutlives`, from `ReaderInv`: while no open and no write has failed the
field is not nil wherever the reader is about to call a method on it.

**EventsProofs.** `TypeCorrect`, which needs that an updater past its first step
has a value (`TypeInv`). `ClosedCorrect`: `ClosedOnce`. `StreamImplemented`:
`Spec => StreamSpec`, that is, the cache, the dispatcher and the websocket
handlers implement `EventStream`. What waits in `broadcast` are the last events
of the log, in order (`BroadcastInv`); so the dispatcher has fanned out
`Fanned = Len(log) - Len(broadcast)`. For every attached listener its channel
holds the events after `last` without a gap and, while the dispatcher knows the
listener, up to `Fanned` (`StreamInv`). A listener that was dropped keeps what
is in its channel and gets nothing more, which is why it sees no gap either.
`SettledViewsCorrect`: `SettledViewsAreCached`. The log's last event of a key
has the value that is cached or, between broadcast and store, about to be
(`LogInv`); a client's view of a key agrees with the cache but for the events it
has yet to see and for the keys that were broadcast and not stored when it was
registered (`ViewInv`).

**MqttCacheProofs.** `TypeCorrect`. `Retained`: `CachedIsRetained`, from
`CacheInv`: an update that has published and not yet stored counts with the
value it will store, and cannot be overtaken by `ClearCache`, which needs the
mutex. The lemmas say what publishing and the arrival of a message do to
`WillRetain`, the last message of a topic on its way or the value retained.

**CommandsProofs.** `EffectCorrect`: `CommandsHaveTheirEffect`. One half
is that a command sets no more than it mentions. `WritesAre`: what the
handlers make of any command are at most two writes, each to a table the
command is about, with flags for all the fields of it that its document mentions
and no others, and values that are shown as the document has them; here the
conversions there and back are used. `ModeEffect`, `ZoneEffect` and
`VacationEffect`: to apply such a write makes what is mentioned in its table
read as asked and leaves the rest as it was, name by name (`ByName`). `EndedToo`: if
the thermostat ends a vacation with it, the command is one of which the
documentation says so (`EndIsAsked`). And the invariant: what is pending or late
are writes of the command kept beside it, in whatever tables they will meet. The
other half is that a command sets no less. `TakenCovers`: of a command that the API
takes, everything mentioned is in the table of one of its writes. `DaysShownCorrect`:
`DaysShownCoverHours`, since the vacation shown came from a table of the
thermostat's widths (`ShownInv`) and `DaysOf` rounds up to 6120 hours
(`DaysRoundUp`). `TypeCorrect`: `TypeOK`.

**SnoopsProofs.** `TypesAreKept`, `RecordsHoldTheLatest` and
`CachesStayInAgreement`. The invariant follows a callback through its updates:
what is left to do is the end of what the response being handled asks for
(`TodoInv`), what is not to do any more has been done (`DoneInv`), and no two
origins share a field or a topic, so that the updates of one leave what was done
for another; `HeardInv` ties both to what was heard. Lemmas about the elements
of `Tail(s)`, `s \o t` and of loops over zones carry the sequence.
`FlowSharedCorrect`: `FlowIsShared`, from `FlowInv`: of a zone controller heard
since the cache was cleared, each zone's weight is its share of the flow in the
response heard last, or the update that makes it so is still to be done. A fold
over the zones has a recursive function inside it; that it exists, and that a sum of numbers is at least each of them (`SumBounds`), so that
no weight is above one, are shown by a least counterexample, as for `Parse`.

**DiagnosticsProofs.** *Response log.* `OneFileIsOpenCorrect` and
`FramesAreLoggedCorrect`: until `main` closes the log, the files open are the one
in use and, within a rotation, its successor or predecessor (`FileInv`), and
each line logged is in one file (`LineInv`). `LinesAreInTheirHourCorrect` needs
in addition that the logger's hour is one that was shown since `Log()` began, or
that an opening failed (`HourInv`). `FilesOnlyGrowCorrect` holds while `main`
closes the log beside the reader, too.

*Statistics.* `ReportsBalanceCorrect` and `FewCountsAreLostCorrect`, for
any number of callers. What the broker has yet to count follows from where it is
in an action (`TodoInv`), so that actions begun and ended alternate in what it
counts; an object replaced holds a section of that alternation, and its report
is off by one at most (`BalanceInv`). A report costs the broker's counts one at
most, that of the increment still on its way to the object replaced (`OutInv`);
what callers take from each other only makes a count too low (`CallersInv`).
`StatisticsTypesCorrect`: `TypeOK`.

**InfinitiveProofs.** `TypeCorrect`: `TypeOK`. `NoCircularWaitCorrect`:
`NoCircularWait`. A goroutine that holds a mutex is in the operation it holds it
for, which waits for nobody but the dispatcher (`HolderInv`); the MQTT message
handler makes calls and takes no mutex (`HandlerInv`), so whoever waits for it waits
for one that waits for no worker; and callers are answered by the broker
(`CallInv`), whose `tries` and channels are bounded (`CountInv`).

What stays with TLC: liveness (`EveryTaskEnds`, `UpdatesEnd`,
`DroppedHandlersLeave`, `PortComesBack`, `BrokerCatchesUp`, `ChangesAreShown`),
since TLAPS does not handle fairness; and the two properties the code violates.

## 6. Not modelled, and what could follow

*Not modelled.* The browser's code (`assets/`) and its packing into Go
(`bindata_assetfs.go`, generated); command-line flags and start-up in `main()`
beyond the initial states; the wording of logs and of MQTT discovery messages;
`frame.go`'s checksum and formatting, of which only whether `decode()` succeeds
matters here. Two data races are told in `PROJECT.json` and have no model: the
assignment of `mqttClient` beside the reader at start-up, and the runtime's view
of the racing map beyond its stop.

*What could follow.* SerialPort beneath Protocol, so that a request is lost
exactly when `sendFrame()` loses it; an abstract specification that the caches of
Snoops implement, as Events implements EventStream.
