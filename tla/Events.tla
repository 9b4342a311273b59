------------------------------- MODULE Events -------------------------------
(***************************************************************************)
(* The path of a state change to the browser: Cache.update() (cache.go),   *)
(* the event dispatcher (dispatcher.go) and the websocket handler          *)
(* attachListener() (webserver.go).                                        *)
(*                                                                         *)
(* An updater (the state poller, or the reader through a snoop callback)   *)
(* holds the cache's mutex while it compares, broadcasts and stores.  The  *)
(* dispatcher goroutine takes events off the broadcast channel and puts    *)
(* each on every listener's channel, dropping a listener whose channel is  *)
(* full.  A websocket handler registers its listener, writes the cached    *)
(* values to its client, reading cacheMap without the mutex, and then      *)
(* writes events until its channel is closed or its client is gone.        *)
(*                                                                         *)
(* Each key has one updater in the program, so an updater is named by its  *)
(* key.  A serialised event is its place in log, the history of all        *)
(* events; channels hold those places.                                     *)
(***************************************************************************)
EXTENDS Naturals, Sequences

CONSTANTS
  Keys,          \* names of the cached values: "tstat", "blower", ...
  Values,        \* what an update can store
  Listeners,     \* websocket connections
  Absent,        \* "not in the map"; never shown to a client
  NoKey,         \* "the mutex is free"
  BroadcastCap,  \* capacity of Dispatcher.broadcast (64 in the code)
  ListenerCap,   \* capacity of a listener's channel (32 in the code)
  MaxEvents      \* bound: events broadcast in a behaviour

ASSUME EventsAssumption ==
  /\ Absent \notin Values
  /\ NoKey \notin Keys
  /\ BroadcastCap \in Nat \ {0}
  /\ ListenerCap \in Nat \ {0}
  /\ MaxEvents \in Nat

VARIABLES
  cacheMap,   \* the cached values
  lock,       \* the updater that holds cacheMutex, or NoKey
  upc,        \* where each updater is in update()
  data,       \* what each updater was asked to store last
  log,        \* history: every event broadcast
  broadcast,  \* Dispatcher.broadcast
  listeners,  \* Dispatcher.listeners
  ch,         \* each listener's channel
  closes,     \* how often each listener's channel has been closed
  lpc,        \* where each websocket handler is
  todo,       \* keys the handler's iteration of cacheMap has still to reach
  alive,      \* clients whose connection is up
  view,       \* what each client was told last of every key
  last,       \* the last event written, or fanned out when l was registered
  missed,     \* history: keys broadcast but not stored when l was registered
  running     \* the Go runtime has not stopped the program

updaterVars == <<cacheMap, lock, upc, data>>
handlerVars == <<lpc, todo, alive, view, last, missed>>
steppedVars == <<updaterVars, log, broadcast, listeners, ch, closes, handlerVars>>
vars == <<steppedVars, running>>

-----------------------------------------------------------------------------

Event == [key : Keys, val : Values]

\* "out": no websocket; "snapshot": writing the cached values; "waiting": in
\* the select; "leaving": in the deferred deregistration.
HandlerPC == {"out", "snapshot", "waiting", "leaving"}

TypeOK ==
  /\ cacheMap \in [Keys -> Values \cup {Absent}]
  /\ lock \in Keys \cup {NoKey}
  /\ upc \in [Keys -> {"idle", "broadcast", "store"}]
  /\ \A k \in Keys : upc[k] # "idle" <=> lock = k
  /\ data \in [Keys -> Values \cup {Absent}]
  /\ log \in Seq(Event)
  /\ broadcast \in Seq(1 .. Len(log)) /\ Len(broadcast) <= BroadcastCap
  /\ listeners \in SUBSET Listeners
  /\ ch \in [Listeners -> Seq(1 .. Len(log))]
  /\ \A l \in Listeners : Len(ch[l]) <= ListenerCap
  /\ closes \in [Listeners -> Nat]
  /\ lpc \in [Listeners -> HandlerPC]
  /\ todo \in [Listeners -> SUBSET Keys]
  /\ alive \in SUBSET Listeners
  /\ view \in [Listeners -> [Keys -> Values \cup {Absent}]]
  /\ last \in [Listeners -> 0 .. Len(log)]
  /\ missed \in [Listeners -> SUBSET Keys]
  /\ running \in BOOLEAN

Init ==
  /\ cacheMap = [k \in Keys |-> Absent]
  /\ lock = NoKey
  /\ upc = [k \in Keys |-> "idle"]
  /\ data = [k \in Keys |-> Absent]
  /\ log = <<>>
  /\ broadcast = <<>>
  /\ listeners = {}
  /\ ch = [l \in Listeners |-> <<>>]
  /\ closes = [l \in Listeners |-> 0]
  /\ lpc = [l \in Listeners |-> "out"]
  /\ todo = [l \in Listeners |-> {}]
  /\ alive = {}
  /\ view = [l \in Listeners |-> [k \in Keys |-> Absent]]
  /\ last = [l \in Listeners |-> 0]
  /\ missed = [l \in Listeners |-> {}]
  /\ running = TRUE

-----------------------------------------------------------------------------
(* Updaters: Cache.update().                                               *)

\* The mutex is taken and the new value differs from the cached one.
UpdateChanged(k, v) ==
  /\ lock = NoKey
  /\ Len(log) < MaxEvents
  /\ v # cacheMap[k]
  /\ lock' = k
  /\ data' = [data EXCEPT ![k] = v]
  /\ upc' = [upc EXCEPT ![k] = "broadcast"]
  /\ UNCHANGED <<cacheMap, log, broadcast, listeners, ch, closes, handlerVars>>

\* The mutex is taken and released: the value is the cached one.
UpdateSame(k) ==
  /\ lock = NoKey
  /\ cacheMap[k] # Absent
  /\ UNCHANGED steppedVars

\* Mutant of BroadcastEvent: instead of waiting it drops the oldest event.
BroadcastEventOverrun(k) ==
  /\ upc[k] = "broadcast"
  /\ log' = Append(log, [key |-> k, val |-> data[k]])
  /\ broadcast' = Append(IF Len(broadcast) < BroadcastCap THEN broadcast ELSE Tail(broadcast),
                         Len(log'))
  /\ upc' = [upc EXCEPT ![k] = "store"]
  /\ UNCHANGED <<cacheMap, lock, data, listeners, ch, closes, handlerVars>>

\* broadcastEvent(): waits for room on the channel, the mutex still held.
BroadcastEvent(k) ==
  /\ upc[k] = "broadcast"
  /\ Len(broadcast) < BroadcastCap
  /\ log' = Append(log, [key |-> k, val |-> data[k]])
  /\ broadcast' = Append(broadcast, Len(log'))
  /\ upc' = [upc EXCEPT ![k] = "store"]
  /\ UNCHANGED <<cacheMap, lock, data, listeners, ch, closes, handlerVars>>

\* Mutant of Store: the mutex is not released.
StoreLocked(k) ==
  /\ upc[k] = "store"
  /\ cacheMap' = [cacheMap EXCEPT ![k] = data[k]]
  /\ upc' = [upc EXCEPT ![k] = "idle"]
  /\ UNCHANGED <<lock, data, log, broadcast, listeners, ch, closes, handlerVars>>

\* The value is stored after it was broadcast, and the mutex released.
Store(k) ==
  /\ upc[k] = "store"
  /\ cacheMap' = [cacheMap EXCEPT ![k] = data[k]]
  /\ lock' = NoKey
  /\ upc' = [upc EXCEPT ![k] = "idle"]
  /\ UNCHANGED <<data, log, broadcast, listeners, ch, closes, handlerVars>>

-----------------------------------------------------------------------------
(* The dispatcher, run(): every action below that changes listeners is a   *)
(* case of its select.  A handler's send on register or deregister is one  *)
(* step with the dispatcher's receive.                                     *)

\* Mutants of FanOut: a full listener is skipped; is waited for; is forgotten
\* without its channel being closed.
FanOutSkip ==
  /\ broadcast # <<>>
  /\ broadcast' = Tail(broadcast)
  /\ ch' = [l \in Listeners |->
              IF l \in listeners /\ Len(ch[l]) < ListenerCap
              THEN Append(ch[l], Head(broadcast)) ELSE ch[l]]
  /\ UNCHANGED <<updaterVars, log, handlerVars, closes, listeners>>

FanOutWait ==
  /\ broadcast # <<>>
  /\ \A l \in listeners : Len(ch[l]) < ListenerCap
  /\ broadcast' = Tail(broadcast)
  /\ ch' = [l \in Listeners |->
              IF l \in listeners THEN Append(ch[l], Head(broadcast)) ELSE ch[l]]
  /\ UNCHANGED <<updaterVars, log, handlerVars, closes, listeners>>

FanOutForget ==
  /\ broadcast # <<>>
  /\ broadcast' = Tail(broadcast)
  /\ ch' = [l \in Listeners |->
              IF l \in listeners /\ Len(ch[l]) < ListenerCap
              THEN Append(ch[l], Head(broadcast)) ELSE ch[l]]
  /\ listeners' = {l \in listeners : Len(ch[l]) < ListenerCap}
  /\ UNCHANGED <<updaterVars, log, handlerVars, closes>>

\* case message := <-h.broadcast: the event goes to every listener; one whose
\* channel is full is closed and forgotten.
FanOut ==
  LET full == {l \in listeners : Len(ch[l]) >= ListenerCap} IN
  /\ broadcast # <<>>
  /\ broadcast' = Tail(broadcast)
  /\ ch' = [l \in Listeners |->
              IF l \in listeners \ full THEN Append(ch[l], Head(broadcast)) ELSE ch[l]]
  /\ closes' = [l \in Listeners |-> IF l \in full THEN closes[l] + 1 ELSE closes[l]]
  /\ listeners' = listeners \ full
  /\ UNCHANGED <<updaterVars, log, handlerVars>>

\* case listener := <-h.register, attachListener() having made the channel.
Register(l) ==
  /\ lpc[l] = "out"
  /\ listeners' = listeners \cup {l}
  /\ ch' = [ch EXCEPT ![l] = <<>>]
  /\ closes' = [closes EXCEPT ![l] = 0]
  /\ lpc' = [lpc EXCEPT ![l] = "snapshot"]
  /\ todo' = [todo EXCEPT ![l] = {k \in Keys : cacheMap[k] # Absent}]
  /\ alive' = alive \cup {l}
  /\ view' = [view EXCEPT ![l] = [k \in Keys |-> Absent]]
  /\ last' = [last EXCEPT ![l] = Len(log) - Len(broadcast)]
  /\ missed' = [missed EXCEPT ![l] = {k \in Keys : upc[k] = "store"}]
  /\ UNCHANGED <<updaterVars, log, broadcast>>

\* Mutant of Deregister: the channel is closed unconditionally.
DeregisterBlindly(l) ==
  /\ lpc[l] = "leaving"
  /\ listeners' = listeners \ {l}
  /\ closes' = [closes EXCEPT ![l] = @ + 1]
  /\ lpc' = [lpc EXCEPT ![l] = "out"]
  /\ UNCHANGED <<updaterVars, log, broadcast, ch, todo, alive, view, last, missed>>

\* case listener := <-h.deregister: closed unless the dispatcher already did.
Deregister(l) ==
  /\ lpc[l] = "leaving"
  /\ listeners' = listeners \ {l}
  /\ closes' = IF l \in listeners THEN [closes EXCEPT ![l] = @ + 1] ELSE closes
  /\ lpc' = [lpc EXCEPT ![l] = "out"]
  /\ UNCHANGED <<updaterVars, log, broadcast, ch, todo, alive, view, last, missed>>

-----------------------------------------------------------------------------
(* Websocket handlers: attachListener().                                   *)

\* One key of the iteration over wsCache.cacheMap, the mutex not held.  A key
\* stored since the iteration began may be visited as well, or not.  The
\* result of this ws.Write is ignored.
SnapshotKey(l, k) ==
  /\ lpc[l] = "snapshot"
  /\ cacheMap[k] # Absent
  /\ k \in todo[l] \/ view[l][k] = Absent
  /\ view' = [view EXCEPT ![l][k] = cacheMap[k]]
  /\ todo' = [todo EXCEPT ![l] = @ \ {k}]
  /\ UNCHANGED <<updaterVars, log, broadcast, listeners, ch, closes, lpc, alive, last, missed>>

\* The runtime notices that the map is written while it is iterated, and stops
\* the program ("concurrent map iteration and map write"); it need not notice.
SnapshotRaces(l) ==
  /\ running
  /\ lpc[l] = "snapshot"
  /\ \E k \in Keys : upc[k] = "store"
  /\ running' = FALSE
  /\ UNCHANGED steppedVars

SnapshotDone(l) ==
  /\ lpc[l] = "snapshot"
  /\ todo[l] = {}
  /\ lpc' = [lpc EXCEPT ![l] = "waiting"]
  /\ UNCHANGED <<updaterVars, log, broadcast, listeners, ch, closes, todo, alive, view, last,
                 missed>>

\* The next event is received and written to the client.
WriteEvent(l) ==
  LET n == Head(ch[l]) IN
  /\ lpc[l] = "waiting"
  /\ ch[l] # <<>>
  /\ l \in alive
  /\ view' = [view EXCEPT ![l][log[n].key] = log[n].val]
  /\ last' = [last EXCEPT ![l] = n]
  /\ ch' = [ch EXCEPT ![l] = Tail(@)]
  /\ UNCHANGED <<updaterVars, log, broadcast, listeners, closes, lpc, todo, alive, missed>>

\* The write fails: the handler returns.
WriteFails(l) ==
  /\ lpc[l] = "waiting"
  /\ ch[l] # <<>>
  /\ l \notin alive
  /\ ch' = [ch EXCEPT ![l] = Tail(@)]
  /\ lpc' = [lpc EXCEPT ![l] = "leaving"]
  /\ UNCHANGED <<updaterVars, log, broadcast, listeners, closes, todo, alive, view, last,
                 missed>>

\* The channel is closed and empty: the handler returns.
ChannelClosed(l) ==
  /\ lpc[l] = "waiting"
  /\ ch[l] = <<>>
  /\ closes[l] > 0
  /\ lpc' = [lpc EXCEPT ![l] = "leaving"]
  /\ UNCHANGED <<updaterVars, log, broadcast, listeners, ch, closes, todo, alive, view, last,
                 missed>>

\* The client goes away (outside the program).
ClientGone(l) ==
  /\ l \in alive
  /\ alive' = alive \ {l}
  /\ UNCHANGED <<updaterVars, log, broadcast, listeners, ch, closes, lpc, todo, view, last,
                 missed>>

-----------------------------------------------------------------------------

UpdaterNext ==
  \E k \in Keys :
    \/ \E v \in Values : UpdateChanged(k, v)
    \/ UpdateSame(k)
    \/ BroadcastEvent(k)
    \/ Store(k)

HandlerNext ==
  \E l \in Listeners :
    \/ Register(l)
    \/ Deregister(l)
    \/ \E k \in Keys : SnapshotKey(l, k)
    \/ SnapshotDone(l)
    \/ WriteEvent(l)
    \/ WriteFails(l)
    \/ ChannelClosed(l)
    \/ ClientGone(l)

\* A step of a goroutine, while the program runs.
Step(A) == running /\ A /\ UNCHANGED running

Next ==
  \/ Step(UpdaterNext \/ FanOut \/ HandlerNext)
  \/ \E l \in Listeners : SnapshotRaces(l)

Spec == Init /\ [][Next]_vars

\* The dispatcher keeps running, a goroutine that can go on does, and the
\* dispatcher's select picks at random among ready cases.  Nothing is assumed
\* of a client: its handler may stay in a write for ever.
DispatcherFairness ==
  /\ WF_vars(Step(FanOut))
  /\ \A k \in Keys : WF_vars(Step(BroadcastEvent(k))) /\ WF_vars(Step(Store(k)))
  /\ \A l \in Listeners : WF_vars(Step(Deregister(l)))

\* Writes to a client that keeps reading, or is gone, return.
HandlerFairness ==
  \A l \in Listeners :
    /\ WF_vars(Step(\E k \in todo[l] : SnapshotKey(l, k)))
    /\ WF_vars(Step(SnapshotDone(l)))
    /\ WF_vars(Step(WriteEvent(l) \/ WriteFails(l) \/ ChannelClosed(l)))

FairSpec == Spec /\ DispatcherFairness

-----------------------------------------------------------------------------
(* Properties.                                                             *)

\* A client is served an unbroken, ordered piece of the stream of events: the
\* bounded channels and the dropping of slow listeners (dispatcher.go:91-99)
\* never skip, repeat or reorder an event for a client that stays attached.
Stream ==
  INSTANCE EventStream
  WITH published <- Len(log), seen <- last,
       attached <- {l \in Listeners : lpc[l] \in {"snapshot", "waiting"}}

StreamSpec == Stream!Spec

\* A listener's channel is closed at most once, whoever notices first that the
\* client is lost, and never while the dispatcher would still send on it: both
\* would be a panic (dispatcher.go:86-97).
ClosedOnce ==
  \A l \in Listeners : closes[l] <= (IF l \in listeners THEN 0 ELSE 1)

\* Nothing is on its way to l's client.
Settled(l) ==
  /\ lock = NoKey
  /\ broadcast = <<>>
  /\ l \in listeners
  /\ lpc[l] = "waiting"
  /\ ch[l] = <<>>

\* Once things settle a client shows the cached values, except those that had
\* been broadcast but not stored yet when its listener was registered: the
\* order of cache.go:23-24 and the unlocked iteration of webserver.go:219 can
\* lose nothing else.
SettledViewsAreCached ==
  \A l \in Listeners : Settled(l) =>
    \A k \in Keys \ missed[l] : view[l][k] = cacheMap[k]

\* An update ends, although it waits for the dispatcher with the mutex held
\* and no client ever reads what it is sent.
UpdatesEnd ==
  \A k \in Keys : []<>(upc[k] = "idle" \/ ~running)

\* When writes to clients return, a handler whose listener the dispatcher
\* dropped drains its channel and leaves; it is not held up by deregistering a
\* listener nobody knows.
DroppedHandlersLeave ==
  HandlerFairness => \A l \in Listeners :
    []<>(l \in listeners \/ lpc[l] = "out" \/ ~running)
=============================================================================
