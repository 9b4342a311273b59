---------------------------- MODULE EventsProofs ----------------------------
(***************************************************************************)
(* Theorems about the event dispatcher, for any keys, values and clients   *)
(* and any capacities: in particular that it implements EventStream.       *)
(***************************************************************************)
EXTENDS Events, Integers, TLAPS

-----------------------------------------------------------------------------
(* Sequences.                                                              *)

LEMMA AppendElements ==
  ASSUME NEW S, NEW s \in Seq(S), NEW x
  PROVE  /\ Len(s) \in Nat /\ DOMAIN s = 1 .. Len(s)
         /\ Len(Append(s, x)) = Len(s) + 1
         /\ DOMAIN Append(s, x) = 1 .. Len(s) + 1
         /\ Append(s, x)[Len(s) + 1] = x
         /\ \A i \in DOMAIN s : Append(s, x)[i] = s[i]
  OBVIOUS

LEMMA TailElements ==
  ASSUME NEW S, NEW s \in Seq(S), s # <<>>
  PROVE  /\ Len(s) \in Nat /\ DOMAIN s = 1 .. Len(s) /\ Len(s) >= 1 /\ 1 \in DOMAIN s
         /\ Head(s) = s[1] /\ Head(s) \in S
         /\ Tail(s) \in Seq(S)
         /\ Len(Tail(s)) = Len(s) - 1
         /\ DOMAIN Tail(s) = 1 .. Len(s) - 1
         /\ \A i \in DOMAIN Tail(s) : i + 1 \in DOMAIN s /\ Tail(s)[i] = s[i + 1]
  OBVIOUS

LEMMA SeqMonotone ==
  ASSUME NEW S, NEW T, S \subseteq T, NEW s \in Seq(S)
  PROVE  s \in Seq(T)
  OBVIOUS

-----------------------------------------------------------------------------
(* Types.                                                                  *)

Places == 1 .. Len(log)

\* The log grows by one event: places stay places.
LEMMA LogGrows ==
  ASSUME TypeOK, NEW e \in Event, log' = Append(log, e)
  PROVE  /\ log' \in Seq(Event) /\ Len(log) \in Nat /\ Len(log') = Len(log) + 1
         /\ Places \subseteq Places'
         /\ \A s \in Seq(Places) : s \in Seq(Places')
         /\ \A n \in 0 .. Len(log) : n \in 0 .. Len(log')
         /\ Len(log') \in Places'
<1>1. log \in Seq(Event) /\ Len(log) \in Nat
  BY DEF TypeOK
<1>2. log' \in Seq(Event) /\ Len(log') = Len(log) + 1
  BY <1>1, AppendElements
<1>3. Places \subseteq Places' /\ Len(log') \in Places'
  BY <1>1, <1>2 DEF Places
<1>4. \A s \in Seq(Places) : s \in Seq(Places')
  BY <1>3, SeqMonotone
<1>5. QED BY <1>1, <1>2, <1>3, <1>4

\* An updater that is to broadcast a value has one.
TypeInv == TypeOK /\ \A k \in Keys : upc[k] # "idle" => data[k] \in Values

LEMMA UpdaterType ==
  ASSUME TypeInv, UpdaterNext, running' = running
  PROVE  TypeInv'
<1>1. ASSUME NEW k \in Keys, NEW v \in Values, UpdateChanged(k, v)
      PROVE  TypeInv'
  BY <1>1, EventsAssumption DEF UpdateChanged, TypeInv, TypeOK, handlerVars
<1>2. ASSUME NEW k \in Keys, UpdateSame(k)
      PROVE  TypeInv'
  BY <1>2 DEF UpdateSame, TypeInv, TypeOK, steppedVars, updaterVars, handlerVars
<1>3. ASSUME NEW k \in Keys, Store(k)
      PROVE  TypeInv'
  BY <1>3, EventsAssumption DEF Store, TypeInv, TypeOK, handlerVars
<1>4. ASSUME NEW k \in Keys, BroadcastEvent(k)
      PROVE  TypeInv'
  <2> DEFINE e == [key |-> k, val |-> data[k]]
  <2>1. e \in Event
    BY <1>4 DEF BroadcastEvent, TypeInv, TypeOK, Event
  <2>2. log' = Append(log, e)
    BY <1>4 DEF BroadcastEvent
  <2>3. /\ log' \in Seq(Event)
        /\ \A s \in Seq(Places) : s \in Seq(Places')
        /\ \A n \in 0 .. Len(log) : n \in 0 .. Len(log')
        /\ Len(log') \in Places'
    BY <2>1, <2>2, LogGrows DEF TypeInv
  <2>4. broadcast' \in Seq(Places') /\ Len(broadcast') <= BroadcastCap
    <3>1. broadcast \in Seq(Places') /\ Len(broadcast) < BroadcastCap /\ Len(log') \in Places'
      BY <1>4, <2>3 DEF BroadcastEvent, TypeInv, TypeOK, Places
    <3>2. broadcast' = Append(broadcast, Len(log'))
      BY <1>4 DEF BroadcastEvent
    <3>3. QED BY <3>1, <3>2, AppendElements, EventsAssumption
  <2>5. ch' \in [Listeners -> Seq(Places')] /\ last' \in [Listeners -> 0 .. Len(log')]
    BY <1>4, <2>3 DEF BroadcastEvent, TypeInv, TypeOK, Places, handlerVars
  <2>6. /\ upc' \in [Keys -> {"idle", "broadcast", "store"}]
        /\ \A j \in Keys : upc'[j] # "idle" <=> lock' = j
        /\ \A j \in Keys : upc'[j] # "idle" => data'[j] \in Values
    BY <1>4 DEF BroadcastEvent, TypeInv, TypeOK
  <2>7. QED BY <1>4, <2>3, <2>4, <2>5, <2>6 DEF BroadcastEvent, TypeInv, TypeOK, Places, handlerVars
<1>5. QED BY <1>1, <1>2, <1>3, <1>4 DEF UpdaterNext

\* FanOut, listener by listener.
LEMMA FanOutEffect ==
  ASSUME TypeOK, FanOut
  PROVE  /\ broadcast # <<>> /\ broadcast' = Tail(broadcast)
         /\ listeners' \subseteq listeners
         /\ \A l \in Listeners :
              \/ /\ l \in listeners /\ l \in listeners' /\ Len(ch[l]) < ListenerCap
                 /\ ch'[l] = Append(ch[l], Head(broadcast)) /\ closes'[l] = closes[l]
              \/ /\ l \in listeners /\ l \notin listeners'
                 /\ ch'[l] = ch[l] /\ closes'[l] = closes[l] + 1
              \/ /\ l \notin listeners /\ l \notin listeners'
                 /\ ch'[l] = ch[l] /\ closes'[l] = closes[l]
         /\ UNCHANGED <<updaterVars, log, handlerVars>>
         /\ DOMAIN ch' = Listeners /\ ch' = [l \in Listeners |-> ch'[l]]
         /\ closes' = [l \in Listeners |-> closes'[l]]
<1>1. \A l \in Listeners : Len(ch[l]) \in Nat
  BY DEF TypeOK
<1>2. QED BY <1>1, EventsAssumption DEF FanOut

LEMMA FanOutType ==
  ASSUME TypeInv, FanOut, running' = running
  PROVE  TypeInv'
<1>1. TypeOK /\ UNCHANGED <<updaterVars, log, handlerVars>>
  BY FanOutEffect DEF TypeInv
<1>2. Head(broadcast) \in Places /\ Tail(broadcast) \in Seq(Places)
      /\ Len(Tail(broadcast)) <= BroadcastCap
  BY <1>1, FanOutEffect, TailElements, EventsAssumption DEF TypeOK, Places
<1>3. ASSUME NEW l \in Listeners
      PROVE  /\ ch'[l] \in Seq(Places) /\ Len(ch'[l]) <= ListenerCap
             /\ closes'[l] \in Nat
  <2>1. ch[l] \in Seq(Places) /\ Len(ch[l]) <= ListenerCap /\ closes[l] \in Nat
    BY <1>1 DEF TypeOK, Places
  <2>2. CASE ch'[l] = ch[l]
    BY <1>1, <2>1, <2>2, FanOutEffect
  <2>3. CASE Len(ch[l]) < ListenerCap /\ ch'[l] = Append(ch[l], Head(broadcast))
    BY <1>1, <1>2, <2>1, <2>3, FanOutEffect, AppendElements, EventsAssumption
  <2>4. QED BY <1>1, <2>2, <2>3, FanOutEffect
<1>4. ch' \in [Listeners -> Seq(Places)] /\ closes' \in [Listeners -> Nat]
  BY <1>1, <1>3, FanOutEffect
<1>5. broadcast' = Tail(broadcast) /\ listeners' \subseteq listeners
  BY <1>1, FanOutEffect
<1>6. QED
  BY <1>1, <1>2, <1>3, <1>4, <1>5 DEF TypeInv, TypeOK, updaterVars, handlerVars, Places

\* The rest of the log after what waits in broadcast: a place, or its beginning.
Fanned == Len(log) - Len(broadcast)

\* Events wait in broadcast in their order, up to the last one published.
BroadcastInv ==
  \A i \in DOMAIN broadcast : broadcast[i] = Fanned + i

LEMMA FannedType ==
  ASSUME TypeOK, BroadcastInv
  PROVE  Fanned \in 0 .. Len(log) /\ Len(log) \in Nat /\ Len(broadcast) \in Nat
<1>1. /\ Len(log) \in Nat /\ Len(broadcast) \in Nat
      /\ DOMAIN broadcast = 1 .. Len(broadcast)
      /\ \A i \in DOMAIN broadcast : broadcast[i] \in 1 .. Len(log)
  BY DEF TypeOK
<1>2. CASE Len(broadcast) = 0
  BY <1>1, <1>2 DEF Fanned
<1>3. CASE Len(broadcast) > 0
  <2>1. 1 \in DOMAIN broadcast
    BY <1>1, <1>3
  <2>2. broadcast[1] = Fanned + 1 /\ broadcast[1] \in 1 .. Len(log)
    BY <1>1, <2>1 DEF BroadcastInv
  <2>3. QED BY <1>1, <2>2 DEF Fanned
<1>4. QED BY <1>1, <1>2, <1>3

LEMMA HandlerType ==
  ASSUME TypeInv, BroadcastInv, HandlerNext, running' = running
  PROVE  TypeInv'
<1> USE DEF TypeInv, TypeOK, updaterVars, HandlerPC
<1>1. ASSUME NEW l \in Listeners, Register(l)
      PROVE  TypeInv'
  <2>1. last' \in [Listeners -> 0 .. Len(log)]
    BY <1>1, FannedType DEF Register, Fanned
  <2>2. ch' \in [Listeners -> Seq(1 .. Len(log))] /\ \A m \in Listeners : Len(ch'[m]) <= ListenerCap
    <3>1. \A m \in Listeners : ch'[m] = IF m = l THEN <<>> ELSE ch[m]
      BY <1>1 DEF Register
    <3>2. <<>> \in Seq(1 .. Len(log)) /\ Len(<<>>) <= ListenerCap
      BY EventsAssumption
    <3>3. \A m \in Listeners : ch'[m] \in Seq(1 .. Len(log)) /\ Len(ch'[m]) <= ListenerCap
      BY <3>1, <3>2
    <3>4. QED BY <1>1, <3>3 DEF Register
  <2>3. /\ todo' \in [Listeners -> SUBSET Keys]
        /\ missed' \in [Listeners -> SUBSET Keys]
        /\ view' \in [Listeners -> [Keys -> Values \cup {Absent}]]
        /\ alive' \in SUBSET Listeners /\ listeners' \in SUBSET Listeners
        /\ closes' \in [Listeners -> Nat]
    BY <1>1 DEF Register
  <2>4. lpc' \in [Listeners -> HandlerPC]
    BY <1>1 DEF Register
  <2>5. QED BY <1>1, <2>1, <2>2, <2>3, <2>4 DEF Register
<1>2. ASSUME NEW l \in Listeners, Deregister(l)
      PROVE  TypeInv'
  <2>1. closes' \in [Listeners -> Nat]
    BY <1>2 DEF Deregister
  <2>2. QED BY <1>2, <2>1 DEF Deregister
<1>3. ASSUME NEW l \in Listeners, NEW k \in Keys, SnapshotKey(l, k)
      PROVE  TypeInv'
  <2>1. view' \in [Listeners -> [Keys -> Values \cup {Absent}]]
    BY <1>3 DEF SnapshotKey
  <2>2. todo' \in [Listeners -> SUBSET Keys]
    BY <1>3 DEF SnapshotKey
  <2>3. QED BY <1>3, <2>1, <2>2 DEF SnapshotKey
<1>4. ASSUME NEW l \in Listeners, SnapshotDone(l)
      PROVE  TypeInv'
  BY <1>4 DEF SnapshotDone
<1>5. ASSUME NEW l \in Listeners, WriteEvent(l)
      PROVE  TypeInv'
  <2> DEFINE n == Head(ch[l])
  <2>1. n \in 1 .. Len(log) /\ Tail(ch[l]) \in Seq(1 .. Len(log)) /\ Len(Tail(ch[l])) <= ListenerCap
    <3>1. ch[l] \in Seq(1 .. Len(log)) /\ Len(ch[l]) <= ListenerCap /\ ch[l] # <<>>
      BY <1>5 DEF WriteEvent
    <3>2. QED BY <3>1, TailElements, EventsAssumption
  <2>2. log[n].key \in Keys /\ log[n].val \in Values
    <3>1. log[n] \in Event
      BY <2>1
    <3>2. QED BY <3>1 DEF Event
  <2>3. view' \in [Listeners -> [Keys -> Values \cup {Absent}]]
    BY <1>5, <2>2 DEF WriteEvent
  <2>4. last' \in [Listeners -> 0 .. Len(log)]
    BY <1>5, <2>1 DEF WriteEvent
  <2>5. ch' \in [Listeners -> Seq(1 .. Len(log))] /\ \A m \in Listeners : Len(ch'[m]) <= ListenerCap
    BY <1>5, <2>1 DEF WriteEvent
  <2>6. QED BY <1>5, <2>3, <2>4, <2>5 DEF WriteEvent
<1>6. ASSUME NEW l \in Listeners, WriteFails(l)
      PROVE  TypeInv'
  <2>1. Tail(ch[l]) \in Seq(1 .. Len(log)) /\ Len(Tail(ch[l])) <= ListenerCap
    <3>1. ch[l] \in Seq(1 .. Len(log)) /\ Len(ch[l]) <= ListenerCap /\ ch[l] # <<>>
      BY <1>6 DEF WriteFails
    <3>2. QED BY <3>1, TailElements, EventsAssumption
  <2>2. ch' \in [Listeners -> Seq(1 .. Len(log))] /\ \A m \in Listeners : Len(ch'[m]) <= ListenerCap
    BY <1>6, <2>1 DEF WriteFails
  <2>3. QED BY <1>6, <2>2 DEF WriteFails
<1>7. ASSUME NEW l \in Listeners, ChannelClosed(l)
      PROVE  TypeInv'
  BY <1>7 DEF ChannelClosed
<1>8. ASSUME NEW l \in Listeners, ClientGone(l)
      PROVE  TypeInv'
  BY <1>8 DEF ClientGone
<1>9. QED BY <1>1, <1>2, <1>3, <1>4, <1>5, <1>6, <1>7, <1>8 DEF HandlerNext

\* The broadcast channel, and with it Fanned.
LEMMA BroadcastStep ==
  ASSUME TypeOK, BroadcastInv, [Next]_vars
  PROVE  BroadcastInv'
<1>1. ASSUME NEW k \in Keys, BroadcastEvent(k)
      PROVE  BroadcastInv'
  <2>1. /\ broadcast' = Append(broadcast, Len(log')) /\ Len(log') = Len(log) + 1
        /\ Len(log) \in Nat
    BY <1>1, AppendElements DEF BroadcastEvent, TypeOK
  <2>2. /\ Len(broadcast) \in Nat /\ DOMAIN broadcast = 1 .. Len(broadcast)
        /\ Len(broadcast') = Len(broadcast) + 1
        /\ DOMAIN broadcast' = 1 .. Len(broadcast) + 1
        /\ broadcast'[Len(broadcast) + 1] = Len(log) + 1
        /\ \A i \in DOMAIN broadcast : broadcast'[i] = broadcast[i]
    BY <2>1, AppendElements DEF TypeOK
  <2>3. Fanned' = Fanned /\ Fanned = Len(log) - Len(broadcast)
    BY <2>1, <2>2 DEF Fanned
  <2>4. QED BY <2>1, <2>2, <2>3 DEF BroadcastInv
<1>2. CASE FanOut
  <2>1. /\ broadcast # <<>> /\ broadcast' = Tail(broadcast) /\ log' = log
        /\ Len(log) \in Nat
    BY <1>2 DEF FanOut, TypeOK
  <2>2. /\ Len(broadcast) \in Nat /\ Len(broadcast') = Len(broadcast) - 1
        /\ \A i \in DOMAIN broadcast' : /\ i + 1 \in DOMAIN broadcast
                                        /\ broadcast'[i] = broadcast[i + 1]
                                        /\ i \in Nat
    BY <2>1, TailElements DEF TypeOK
  <2>3. Fanned' = Fanned + 1 /\ Fanned \in Int
    BY <2>1, <2>2 DEF Fanned
  <2>4. QED BY <2>2, <2>3 DEF BroadcastInv
<1>3. CASE UNCHANGED <<broadcast, log>>
  BY <1>3 DEF BroadcastInv, Fanned
<1>4. QED
  BY <1>1, <1>2, <1>3
     DEF Next, Step, UpdaterNext, UpdateChanged, UpdateSame, Store, HandlerNext, Register,
         Deregister, SnapshotKey, SnapshotRaces, SnapshotDone, WriteEvent, WriteFails,
         ChannelClosed, ClientGone, vars, steppedVars, updaterVars

LEMMA TypeStep ==
  ASSUME TypeInv, BroadcastInv, [Next]_vars
  PROVE  TypeInv'
<1>1. CASE Step(UpdaterNext \/ FanOut \/ HandlerNext)
  BY <1>1, UpdaterType, FanOutType, HandlerType DEF Step
<1>2. ASSUME NEW l \in Listeners, SnapshotRaces(l)
      PROVE  TypeInv'
  BY <1>2 DEF SnapshotRaces, steppedVars, updaterVars, handlerVars, TypeInv, TypeOK
<1>3. CASE UNCHANGED vars
  BY <1>3 DEF vars, steppedVars, updaterVars, handlerVars, TypeInv, TypeOK
<1>4. QED BY <1>1, <1>2, <1>3 DEF Next

LEMMA TypeAlways == Spec => [](TypeInv /\ BroadcastInv)
<1>1. Init => TypeInv /\ BroadcastInv
  <2> SUFFICES ASSUME Init PROVE TypeInv /\ BroadcastInv
    OBVIOUS
  <2>1. log = <<>> /\ broadcast = <<>> /\ \A l \in Listeners : ch[l] = <<>>
    BY DEF Init
  <2>2. log \in Seq(Event) /\ Len(log) = 0 /\ broadcast \in Seq(1 .. Len(log))
    BY <2>1
  <2>3. ch \in [Listeners -> Seq(1 .. Len(log))]
    BY <2>2 DEF Init
  <2>4. Len(broadcast) <= BroadcastCap /\ \A l \in Listeners : Len(ch[l]) <= ListenerCap
    BY <2>1, EventsAssumption
  <2>5. \A k \in Keys : upc[k] # "idle" <=> lock = k
    BY EventsAssumption DEF Init
  <2>6. last \in [Listeners -> 0 .. Len(log)]
    BY <2>2 DEF Init
  <2>7. TypeOK
    BY <2>2, <2>3, <2>4, <2>5, <2>6 DEF Init, TypeOK, HandlerPC
  <2>8. QED BY <2>1, <2>7 DEF Init, TypeInv, BroadcastInv
<1>2. TypeInv /\ BroadcastInv /\ [Next]_vars => TypeInv' /\ BroadcastInv'
  BY TypeStep, BroadcastStep DEF TypeInv
<1>3. QED BY <1>1, <1>2, PTL DEF Spec

\* Every variable keeps its type, the channels their capacities, and the mutex
\* is held exactly by the updater that is in update().
THEOREM TypeCorrect == Spec => []TypeOK
<1>1. TypeInv => TypeOK
  BY DEF TypeInv
<1>2. QED BY <1>1, TypeAlways, PTL

-----------------------------------------------------------------------------
(* Channels are closed once.                                               *)

LEMMA ClosedStep ==
  ASSUME TypeOK, ClosedOnce, [Next]_vars
  PROVE  ClosedOnce'
<1> SUFFICES ASSUME NEW l \in Listeners
             PROVE  closes'[l] <= (IF l \in listeners' THEN 0 ELSE 1)
  BY DEF ClosedOnce
<1>1. closes[l] \in Nat /\ closes[l] <= (IF l \in listeners THEN 0 ELSE 1)
  BY DEF TypeOK, ClosedOnce
<1>2. CASE FanOut
  <2>1. \/ l \in listeners /\ l \in listeners' /\ closes'[l] = closes[l]
        \/ l \in listeners /\ l \notin listeners' /\ closes'[l] = closes[l] + 1
        \/ l \notin listeners /\ l \notin listeners' /\ closes'[l] = closes[l]
    BY <1>2, FanOutEffect
  <2>2. QED BY <1>1, <2>1
<1>3. ASSUME NEW m \in Listeners, Register(m)
      PROVE  closes'[l] <= (IF l \in listeners' THEN 0 ELSE 1)
  BY <1>1, <1>3 DEF Register, TypeOK
<1>4. ASSUME NEW m \in Listeners, Deregister(m)
      PROVE  closes'[l] <= (IF l \in listeners' THEN 0 ELSE 1)
  BY <1>1, <1>4 DEF Deregister, TypeOK
<1>5. CASE UNCHANGED <<closes, listeners>>
  BY <1>1, <1>5
<1>6. QED
  BY <1>2, <1>3, <1>4, <1>5
     DEF Next, Step, UpdaterNext, UpdateChanged, UpdateSame, BroadcastEvent, Store,
         HandlerNext, SnapshotKey, SnapshotRaces, SnapshotDone, WriteEvent, WriteFails,
         ChannelClosed, ClientGone, vars, steppedVars

\* No channel is closed twice, and the dispatcher sends on none that is closed.
THEOREM ClosedCorrect == Spec => []ClosedOnce
<1>1. Init => ClosedOnce
  BY DEF Init, ClosedOnce
<1>2. QED BY <1>1, ClosedStep, TypeCorrect, PTL DEF Spec

-----------------------------------------------------------------------------
(* Events implements EventStream.  While l is attached its channel holds   *)
(* the events after the last one written, in order and without a gap; as   *)
(* long as the dispatcher knows l, the events after those in the channel   *)
(* are the ones waiting in broadcast.                                      *)

Attached == {l \in Listeners : lpc[l] \in {"snapshot", "waiting"}}

Unbroken(l) ==
  /\ \A i \in DOMAIN ch[l] : ch[l][i] = last[l] + i
  /\ l \in listeners => last[l] + Len(ch[l]) = Fanned

StreamInv == \A l \in Attached : Unbroken(l)

LEMMA ChannelFacts ==
  ASSUME TypeOK, NEW l \in Listeners
  PROVE  /\ ch[l] \in Seq(Places) /\ last[l] \in Nat /\ last[l] <= Len(log)
         /\ Len(log) \in Nat
         /\ Len(ch[l]) \in Nat /\ DOMAIN ch[l] = 1 .. Len(ch[l])
  BY DEF TypeOK, Places

LEMMA StreamStep ==
  ASSUME TypeOK, BroadcastInv, StreamInv, [Next]_vars
  PROVE  StreamInv'
<1> SUFFICES ASSUME NEW l \in Listeners, l \in Attached'
             PROVE  Unbroken(l)'
  BY DEF StreamInv, Attached
<1>1. ASSUME l \in Attached, l \in listeners' => l \in listeners,
             ch'[l] = ch[l], last'[l] = last[l], Fanned' = Fanned
      PROVE  Unbroken(l)'
  BY <1>1 DEF StreamInv, Unbroken
<1>2. CASE FanOut
  <2>1. l \in Attached /\ last'[l] = last[l] /\ Len(log) \in Nat
    BY <1>2, ChannelFacts DEF FanOut, Attached, handlerVars
  <2>2. Unbroken(l)
    BY <2>1 DEF StreamInv
  <2>3. broadcast # <<>> /\ broadcast' = Tail(broadcast) /\ log' = log
    BY <1>2 DEF FanOut
  <2>4. /\ Len(broadcast) \in Nat /\ Len(broadcast') = Len(broadcast) - 1
        /\ Head(broadcast) = broadcast[1] /\ 1 \in DOMAIN broadcast
    BY <2>3, TailElements DEF TypeOK
  <2>5. Head(broadcast) = Fanned + 1 /\ Fanned' = Fanned + 1 /\ Fanned \in Int
    BY <2>1, <2>3, <2>4 DEF Fanned, BroadcastInv
  <2>6. CASE l \in listeners /\ ch'[l] = Append(ch[l], Head(broadcast))
    <3>1. /\ Len(ch'[l]) = Len(ch[l]) + 1 /\ DOMAIN ch'[l] = 1 .. Len(ch[l]) + 1
          /\ ch'[l][Len(ch[l]) + 1] = Fanned + 1
          /\ \A i \in DOMAIN ch[l] : ch'[l][i] = ch[l][i]
          /\ Len(ch[l]) \in Nat /\ DOMAIN ch[l] = 1 .. Len(ch[l]) /\ last[l] \in Nat
      BY <2>5, <2>6, ChannelFacts, AppendElements
    <3>2. last[l] + Len(ch[l]) = Fanned
      BY <2>2, <2>6 DEF Unbroken
    <3>3. ASSUME NEW i \in DOMAIN ch'[l]
          PROVE  ch'[l][i] = last[l] + i
      <4>1. CASE i \in DOMAIN ch[l]
        BY <2>2, <3>1, <4>1 DEF Unbroken
      <4>2. CASE i = Len(ch[l]) + 1
        BY <3>1, <3>2, <4>2
      <4>3. i \in DOMAIN ch[l] \/ i = Len(ch[l]) + 1
        BY <3>1
      <4>4. QED BY <4>1, <4>2, <4>3
    <3>4. last[l] + Len(ch'[l]) = Fanned'
      <4>1. Len(ch'[l]) = Len(ch[l]) + 1 /\ Len(ch[l]) \in Nat /\ last[l] \in Nat
        BY <3>1
      <4>2. Fanned' = Fanned + 1
        BY <2>5
      <4>3. QED BY <3>2, <4>1, <4>2
    <3>5. QED BY <2>1, <3>3, <3>4 DEF Unbroken
  <2>7. CASE l \notin listeners' /\ ch'[l] = ch[l]
    BY <2>1, <2>2, <2>7 DEF Unbroken
  <2>8. QED BY <1>2, <2>6, <2>7, FanOutEffect
<1>3. ASSUME NEW k \in Keys, BroadcastEvent(k)
      PROVE  Unbroken(l)'
  <2>1. /\ broadcast' = Append(broadcast, Len(log')) /\ Len(log') = Len(log) + 1
        /\ Len(log) \in Nat /\ Len(broadcast) \in Nat
    BY <1>3, AppendElements DEF BroadcastEvent, TypeOK
  <2>2. Len(broadcast') = Len(broadcast) + 1
    BY <2>1, AppendElements DEF TypeOK
  <2>3. Fanned' = Fanned
    BY <2>1, <2>2 DEF Fanned
  <2>4. QED BY <1>1, <1>3, <2>3 DEF BroadcastEvent, Attached, handlerVars
<1>4. ASSUME NEW m \in Listeners, Register(m)
      PROVE  Unbroken(l)'
  <2>1. Fanned' = Fanned
    BY <1>4 DEF Register, Fanned
  <2>2. CASE l = m
    <3>1. ch'[l] = <<>> /\ last'[l] = Fanned
      BY <1>4, <2>2 DEF Register, Fanned, TypeOK
    <3>2. DOMAIN ch'[l] = {} /\ Len(ch'[l]) = 0 /\ Fanned \in Int
      BY <3>1, FannedType
    <3>3. QED BY <2>1, <3>1, <3>2 DEF Unbroken
  <2>3. CASE l # m
    <3>1. /\ l \in Attached /\ ch'[l] = ch[l] /\ last'[l] = last[l]
          /\ l \in listeners' => l \in listeners
      BY <1>4, <2>3 DEF Register, Attached, TypeOK
    <3>2. QED BY <1>1, <2>1, <3>1
  <2>4. QED BY <2>2, <2>3
<1>5. ASSUME NEW m \in Listeners, WriteEvent(m)
      PROVE  Unbroken(l)'
  <2>1. Fanned' = Fanned /\ l \in Attached /\ listeners' = listeners
    BY <1>5 DEF WriteEvent, Fanned, Attached
  <2>2. CASE l = m
    <3>1. ch[l] # <<>> /\ ch'[l] = Tail(ch[l]) /\ last'[l] = Head(ch[l])
      BY <1>5, <2>2 DEF WriteEvent, TypeOK
    <3>2. Unbroken(l)
      BY <2>1 DEF StreamInv
    <3>3. /\ Len(ch[l]) \in Nat /\ 1 \in DOMAIN ch[l] /\ Head(ch[l]) = ch[l][1]
          /\ Len(ch'[l]) = Len(ch[l]) - 1
          /\ \A i \in DOMAIN ch'[l] : /\ i \in Nat /\ i + 1 \in DOMAIN ch[l]
                                      /\ ch'[l][i] = ch[l][i + 1]
      BY <3>1, ChannelFacts, TailElements
    <3>4. last'[l] = last[l] + 1 /\ last[l] \in Nat
      BY <3>1, <3>2, <3>3, ChannelFacts DEF Unbroken
    <3>5. \A i \in DOMAIN ch'[l] : ch'[l][i] = last'[l] + i
      BY <3>2, <3>3, <3>4 DEF Unbroken
    <3>6. l \in listeners' => last'[l] + Len(ch'[l]) = Fanned'
      BY <2>1, <3>2, <3>3, <3>4 DEF Unbroken
    <3>7. QED BY <3>5, <3>6 DEF Unbroken
  <2>3. CASE l # m
    BY <1>1, <1>5, <2>1, <2>3 DEF WriteEvent, TypeOK
  <2>4. QED BY <2>2, <2>3
<1>6. ASSUME NEW m \in Listeners, WriteFails(m)
      PROVE  Unbroken(l)'
  <2>1. l # m /\ l \in Attached
    BY <1>6 DEF WriteFails, Attached, TypeOK
  <2>2. QED BY <1>1, <1>6, <2>1 DEF WriteFails, Fanned, TypeOK
<1>7. ASSUME NEW m \in Listeners, Deregister(m) \/ SnapshotDone(m) \/ ChannelClosed(m)
      PROVE  Unbroken(l)'
  <2>1. l \in Attached
    BY <1>7 DEF Deregister, SnapshotDone, ChannelClosed, Attached, TypeOK
  <2>2. QED
    BY <1>1, <1>7, <2>1 DEF Deregister, SnapshotDone, ChannelClosed, Fanned
<1>8. CASE UNCHANGED <<lpc, listeners, ch, last, log, broadcast>>
  BY <1>1, <1>8 DEF Attached, Fanned
<1>9. QED
  BY <1>2, <1>3, <1>4, <1>5, <1>6, <1>7, <1>8
     DEF Next, Step, UpdaterNext, UpdateChanged, UpdateSame, Store, HandlerNext,
         SnapshotKey, SnapshotRaces, ClientGone, vars, steppedVars, handlerVars

\* Every step of Events is a step of EventStream, or changes nothing there.
LEMMA StreamNext ==
  ASSUME TypeOK, BroadcastInv, StreamInv, [Next]_vars
  PROVE  [Stream!Next]_(Stream!vars)
<1> USE DEF Stream!vars
<1>1. ASSUME NEW k \in Keys, BroadcastEvent(k)
      PROVE  Stream!Publish
  <2>1. Len(log') = Len(log) + 1
    BY <1>1, AppendElements DEF BroadcastEvent, TypeOK
  <2>2. UNCHANGED <<last, lpc>>
    BY <1>1 DEF BroadcastEvent, handlerVars
  <2>3. QED BY <2>1, <2>2 DEF Stream!Publish
<1>2. ASSUME NEW l \in Listeners, Register(l)
      PROVE  Stream!Attach(l)
  <2>1. Fanned \in 0 .. Len(log) /\ log' = log /\ last' = [last EXCEPT ![l] = Fanned]
    BY <1>2, FannedType DEF Register, Fanned
  <2>2. lpc[l] = "out" /\ lpc' = [lpc EXCEPT ![l] = "snapshot"]
    BY <1>2 DEF Register
  <2>3. l \notin Attached /\ Attached' = Attached \cup {l}
    BY <2>2 DEF Attached, TypeOK
  <2>4. QED BY <2>1, <2>3 DEF Stream!Attach, Attached
<1>3. ASSUME NEW l \in Listeners, WriteEvent(l)
      PROVE  Stream!Write(l)
  <2>1. l \in Attached /\ Unbroken(l)
    BY <1>3 DEF WriteEvent, Attached, StreamInv
  <2>2. ch[l] # <<>> /\ last' = [last EXCEPT ![l] = Head(ch[l])] /\ UNCHANGED <<log, lpc>>
    BY <1>3 DEF WriteEvent
  <2>3. 1 \in DOMAIN ch[l] /\ Head(ch[l]) = ch[l][1] /\ Head(ch[l]) \in Places
    BY <2>2, ChannelFacts, TailElements
  <2>4. Head(ch[l]) = last[l] + 1
    BY <2>1, <2>3 DEF Unbroken
  <2>5. last[l] < Len(log)
    BY <2>3, <2>4, ChannelFacts DEF Places
  <2>6. QED BY <2>1, <2>2, <2>4, <2>5 DEF Stream!Write, Attached
<1>4. ASSUME NEW l \in Listeners, WriteFails(l) \/ ChannelClosed(l)
      PROVE  Stream!Detach(l)
  <2>1. lpc[l] = "waiting" /\ lpc' = [lpc EXCEPT ![l] = "leaving"] /\ UNCHANGED <<log, last>>
    BY <1>4 DEF WriteFails, ChannelClosed
  <2>2. l \in Attached /\ Attached' = Attached \ {l}
    BY <2>1 DEF Attached, TypeOK
  <2>3. QED BY <2>1, <2>2 DEF Stream!Detach, Attached
<1>5. ASSUME NEW l \in Listeners, Deregister(l) \/ SnapshotDone(l)
      PROVE  UNCHANGED Stream!vars
  <2>1. Attached' = Attached
    BY <1>5 DEF Deregister, SnapshotDone, Attached, TypeOK
  <2>2. UNCHANGED <<log, last>>
    BY <1>5 DEF Deregister, SnapshotDone
  <2>3. QED BY <2>1, <2>2 DEF Attached
<1>6. CASE UNCHANGED <<log, last, lpc>>
  BY <1>6
<1>7. QED
  BY <1>1, <1>2, <1>3, <1>4, <1>5, <1>6
     DEF Next, Step, UpdaterNext, UpdateChanged, UpdateSame, Store, FanOut, HandlerNext,
         SnapshotKey, SnapshotRaces, ClientGone, vars, steppedVars, handlerVars, Stream!Next

LEMMA StreamAlways == Spec => [](TypeOK /\ BroadcastInv /\ StreamInv)
<1>1. Init => StreamInv
  BY DEF Init, StreamInv, Attached
<1>2. Spec => [](TypeOK /\ BroadcastInv)
  <2>1. TypeInv => TypeOK
    BY DEF TypeInv
  <2>2. QED BY <2>1, TypeAlways, PTL
<1>3. QED BY <1>1, <1>2, StreamStep, PTL DEF Spec

\* A client is served an unbroken, ordered piece of the stream of events.
THEOREM StreamImplemented == Spec => StreamSpec
<1>1. Init => Stream!Init
  BY DEF Init, Stream!Init
<1>2. Spec => [][Stream!Next]_(Stream!vars)
  BY StreamAlways, StreamNext, PTL DEF Spec
<1>3. QED BY <1>1, <1>2, PTL DEF StreamSpec, Stream!Spec, Spec

-----------------------------------------------------------------------------
(* A settled client shows the cached values.  While an event of a key is   *)
(* still to come to a client nothing is claimed of that key; when none is, *)
(* the client has been told what is in the cache or about to be stored.    *)

\* The value k has in the cache, or will have when its update ends.
Upcoming(k) == IF upc[k] = "store" THEN data[k] ELSE cacheMap[k]

\* There is no event of k after place n.
NoneAfter(n, k) == \A m \in DOMAIN log : m > n => log[m].key # k

\* The last event of a key carries the value the key has or will have.
LogInv ==
  \A k \in Keys : \A n \in DOMAIN log :
    log[n].key = k /\ NoneAfter(n, k) => log[n].val = Upcoming(k)

\* What l's client knows of k, when no event of k is still to come to it.  During
\* the snapshot k may still have to be reached; it is not being stored, for its
\* event would be still to come.
Knows(l, k) ==
  IF lpc[l] = "snapshot"
  THEN upc[k] # "store" /\ (k \in todo[l] \/ view[l][k] = cacheMap[k])
  ELSE view[l][k] = Upcoming(k)

ViewInv ==
  \A l \in Attached : \A k \in Keys \ missed[l] : NoneAfter(last[l], k) => Knows(l, k)

\* Only an update's broadcast changes what is to be in the cache.
LEMMA UpcomingStep ==
  ASSUME TypeOK, [Next]_vars, NEW k \in Keys, ~BroadcastEvent(k)
  PROVE  Upcoming(k)' = Upcoming(k)
<1>1. ASSUME NEW j \in Keys, NEW v \in Values, UpdateChanged(j, v)
      PROVE  Upcoming(k)' = Upcoming(k)
  BY <1>1, EventsAssumption DEF UpdateChanged, TypeOK, Upcoming
<1>2. ASSUME NEW j \in Keys, BroadcastEvent(j)
      PROVE  Upcoming(k)' = Upcoming(k)
  BY <1>2 DEF BroadcastEvent, TypeOK, Upcoming
<1>3. ASSUME NEW j \in Keys, Store(j)
      PROVE  Upcoming(k)' = Upcoming(k)
  BY <1>3 DEF Store, TypeOK, Upcoming
<1>4. CASE UNCHANGED <<upc, data, cacheMap>>
  BY <1>4 DEF Upcoming
<1>5. QED
  BY <1>1, <1>2, <1>3, <1>4
     DEF Next, Step, UpdaterNext, UpdateSame, FanOut, HandlerNext, Register, Deregister,
         SnapshotKey, SnapshotRaces, SnapshotDone, WriteEvent, WriteFails, ChannelClosed,
         ClientGone, vars, steppedVars, updaterVars

\* What BroadcastEvent(k) does to the log.
LEMMA BroadcastLogs ==
  ASSUME TypeOK, NEW k \in Keys, BroadcastEvent(k)
  PROVE  /\ Len(log) \in Nat /\ DOMAIN log = 1 .. Len(log)
         /\ Len(log') = Len(log) + 1 /\ DOMAIN log' = 1 .. Len(log) + 1
         /\ log'[Len(log) + 1] = [key |-> k, val |-> data[k]]
         /\ \A n \in DOMAIN log : log'[n] = log[n]
         /\ Upcoming(k)' = data[k] /\ upc'[k] = "store"
         /\ \A j \in Keys \ {k} : upc'[j] = upc[j]
<1>1. /\ log \in Seq(Event) /\ log' = Append(log, [key |-> k, val |-> data[k]])
      /\ upc' = [upc EXCEPT ![k] = "store"] /\ data' = data
      /\ upc \in [Keys -> {"idle", "broadcast", "store"}]
  BY DEF BroadcastEvent, TypeOK
<1>2. QED BY <1>1, AppendElements DEF Upcoming

\* The log changes with BroadcastEvent only.
LEMMA LogStep ==
  ASSUME [Next]_vars
  PROVE  log' = log \/ \E k \in Keys : BroadcastEvent(k)
  BY DEF Next, Step, UpdaterNext, UpdateChanged, UpdateSame, Store, FanOut, HandlerNext,
         Register, Deregister, SnapshotKey, SnapshotRaces, SnapshotDone, WriteEvent,
         WriteFails, ChannelClosed, ClientGone, vars, steppedVars

LEMMA LogInvStep ==
  ASSUME TypeOK, LogInv, [Next]_vars
  PROVE  LogInv'
<1> SUFFICES ASSUME NEW k \in Keys, NEW n \in DOMAIN log', log'[n].key = k, NoneAfter(n, k)'
             PROVE  log'[n].val = Upcoming(k)'
  BY DEF LogInv, NoneAfter
<1>1. CASE log' = log
  <2>1. ~BroadcastEvent(k)
    <3>1. BroadcastEvent(k) => Len(log) \in Nat /\ Len(log') = Len(log) + 1
      BY BroadcastLogs
    <3>2. QED BY <1>1, <3>1
  <2>2. Upcoming(k)' = Upcoming(k)
    BY <2>1, UpcomingStep
  <2>3. n \in DOMAIN log /\ log[n].key = k /\ NoneAfter(n, k)
    BY <1>1 DEF NoneAfter
  <2>4. QED BY <1>1, <2>2, <2>3 DEF LogInv
<1>2. ASSUME NEW j \in Keys, BroadcastEvent(j)
      PROVE  log'[n].val = Upcoming(k)'
  <2>1. /\ Len(log) \in Nat /\ DOMAIN log = 1 .. Len(log) /\ DOMAIN log' = 1 .. Len(log) + 1
        /\ log'[Len(log) + 1] = [key |-> j, val |-> data[j]]
        /\ \A m \in DOMAIN log : log'[m] = log[m]
        /\ Upcoming(j)' = data[j]
    BY <1>2, BroadcastLogs
  <2>2. CASE k = j
    <3>1. n = Len(log) + 1
      BY <2>1, <2>2 DEF NoneAfter
    <3>2. QED BY <2>1, <2>2, <3>1
  <2>3. CASE k # j
    <3>1. n \in DOMAIN log /\ log[n].key = k
      BY <2>1, <2>3
    <3>2. NoneAfter(n, k)
      BY <2>1 DEF NoneAfter
    <3>3. ~BroadcastEvent(k)
      BY <1>2, <2>3 DEF BroadcastEvent, TypeOK
    <3>4. QED BY <2>1, <3>1, <3>2, <3>3, UpcomingStep DEF LogInv
  <2>4. QED BY <2>2, <2>3
<1>3. QED BY <1>1, <1>2, LogStep

\* A step that lets l wait for the same events in the same place of its handler.
LEMMA KnowsStep ==
  ASSUME TypeOK, ViewInv, [Next]_vars, NEW l \in Attached, NEW k \in Keys \ missed[l],
         lpc'[l] = lpc[l], todo'[l] = todo[l], view'[l] = view[l], last'[l] = last[l],
         NoneAfter(last[l], k)', \A j \in Keys : ~BroadcastEvent(j)
  PROVE  Knows(l, k)'
<1>1. log' = log
  BY LogStep
<1>2. NoneAfter(last[l], k)
  BY <1>1 DEF NoneAfter
<1>3. Knows(l, k)
  BY <1>2 DEF ViewInv
<1>4. Upcoming(k)' = Upcoming(k)
  BY UpcomingStep
<1>5. CASE lpc[l] # "snapshot"
  BY <1>3, <1>4, <1>5 DEF Knows
<1>6. CASE lpc[l] = "snapshot"
  <2>1. upc[k] # "store" /\ (k \in todo[l] \/ view[l][k] = cacheMap[k])
    BY <1>3, <1>6 DEF Knows
  <2>2. upc'[k] # "store"
    BY <2>1 DEF Next, Step, UpdaterNext, UpdateChanged, UpdateSame, Store, FanOut,
        HandlerNext, Register, Deregister, SnapshotKey, SnapshotRaces, SnapshotDone,
        WriteEvent, WriteFails, ChannelClosed, ClientGone, vars, steppedVars, updaterVars,
        TypeOK
  <2>3. cacheMap'[k] = cacheMap[k]
    BY <1>4, <2>1, <2>2 DEF Upcoming
  <2>4. QED BY <1>6, <2>1, <2>2, <2>3 DEF Knows
<1>7. QED BY <1>5, <1>6

LEMMA ViewStep ==
  ASSUME TypeOK, BroadcastInv, StreamInv, LogInv, ViewInv, [Next]_vars
  PROVE  ViewInv'
<1> SUFFICES ASSUME NEW l \in Listeners, l \in Attached', NEW k \in Keys, k \notin missed'[l],
                    NoneAfter(last[l], k)'
             PROVE  Knows(l, k)'
  BY DEF ViewInv, Attached
<1>1. ASSUME l \in Attached, missed'[l] = missed[l], lpc'[l] = lpc[l], todo'[l] = todo[l],
             view'[l] = view[l], last'[l] = last[l], \A j \in Keys : ~BroadcastEvent(j)
      PROVE  Knows(l, k)'
  BY <1>1, KnowsStep
<1>2. ASSUME NEW j \in Keys, BroadcastEvent(j)
      PROVE  Knows(l, k)'
  <2>1. /\ l \in Attached /\ k \notin missed[l] /\ last'[l] = last[l] /\ lpc'[l] = lpc[l]
        /\ todo'[l] = todo[l] /\ view'[l] = view[l] /\ cacheMap' = cacheMap
        /\ last[l] <= Len(log) /\ last[l] \in Nat
    BY <1>2, ChannelFacts DEF BroadcastEvent, handlerVars, Attached
  <2>2. /\ Len(log) \in Nat /\ DOMAIN log = 1 .. Len(log) /\ DOMAIN log' = 1 .. Len(log) + 1
        /\ log'[Len(log) + 1] = [key |-> j, val |-> data[j]]
        /\ \A n \in DOMAIN log : log'[n] = log[n]
        /\ \A i \in Keys \ {j} : upc'[i] = upc[i]
    BY <1>2, BroadcastLogs
  <2>3. k # j
    BY <2>1, <2>2 DEF NoneAfter
  <2>4. NoneAfter(last[l], k)
    BY <2>1, <2>2 DEF NoneAfter
  <2>5. Knows(l, k)
    BY <2>1, <2>4 DEF ViewInv
  <2>6. ~BroadcastEvent(k)
    BY <1>2, <2>3 DEF BroadcastEvent, TypeOK
  <2>7. Upcoming(k)' = Upcoming(k) /\ upc'[k] = upc[k]
    BY <2>2, <2>3, <2>6, UpcomingStep
  <2>8. QED BY <2>1, <2>5, <2>7 DEF Knows
<1>3. ASSUME NEW m \in Listeners, Register(m)
      PROVE  Knows(l, k)'
  <2>1. \A j \in Keys : ~BroadcastEvent(j)
    BY <1>3 DEF Register, BroadcastEvent, updaterVars, TypeOK
  <2>2. CASE l # m
    BY <1>1, <1>3, <2>1, <2>2 DEF Register, Attached, TypeOK
  <2>3. CASE l = m
    <3>1. /\ lpc'[l] = "snapshot" /\ missed'[l] = {j \in Keys : upc[j] = "store"}
          /\ todo'[l] = {j \in Keys : cacheMap[j] # Absent}
          /\ view'[l] = [j \in Keys |-> Absent] /\ upc' = upc /\ cacheMap' = cacheMap
      BY <1>3, <2>3 DEF Register, updaterVars, TypeOK
    <3>2. QED BY <3>1 DEF Knows
  <2>4. QED BY <2>2, <2>3
<1>4. ASSUME NEW m \in Listeners, NEW j \in Keys, SnapshotKey(m, j)
      PROVE  Knows(l, k)'
  <2>1. /\ \A i \in Keys : ~BroadcastEvent(i)
        /\ l \in Attached /\ missed'[l] = missed[l] /\ last'[l] = last[l] /\ lpc'[l] = lpc[l]
        /\ upc' = upc /\ cacheMap' = cacheMap /\ log' = log
    BY <1>4 DEF SnapshotKey, BroadcastEvent, updaterVars, Attached, TypeOK
  <2>2. CASE l # m
    BY <1>1, <1>4, <2>1, <2>2 DEF SnapshotKey, TypeOK
  <2>3. CASE l = m
    <3>1. /\ lpc[l] = "snapshot" /\ todo'[l] = todo[l] \ {j}
          /\ view'[l][k] = IF k = j THEN cacheMap[k] ELSE view[l][k]
      BY <1>4, <2>3 DEF SnapshotKey, TypeOK
    <3>2. NoneAfter(last[l], k)
      BY <2>1 DEF NoneAfter
    <3>3. upc[k] # "store" /\ (k \in todo[l] \/ view[l][k] = cacheMap[k])
      BY <2>1, <3>1, <3>2 DEF ViewInv, Knows
    <3>4. QED BY <2>1, <3>1, <3>3 DEF Knows
  <2>4. QED BY <2>2, <2>3
<1>5. ASSUME NEW m \in Listeners, SnapshotDone(m)
      PROVE  Knows(l, k)'
  <2>1. /\ \A i \in Keys : ~BroadcastEvent(i)
        /\ l \in Attached /\ missed'[l] = missed[l] /\ last'[l] = last[l]
        /\ todo'[l] = todo[l] /\ view'[l] = view[l]
        /\ upc' = upc /\ cacheMap' = cacheMap /\ data' = data /\ log' = log
    BY <1>5 DEF SnapshotDone, BroadcastEvent, updaterVars, Attached, TypeOK
  <2>2. CASE l # m
    BY <1>1, <1>5, <2>1, <2>2 DEF SnapshotDone, TypeOK
  <2>3. CASE l = m
    <3>1. lpc[l] = "snapshot" /\ lpc'[l] = "waiting" /\ todo[l] = {}
      BY <1>5, <2>3 DEF SnapshotDone, TypeOK
    <3>2. NoneAfter(last[l], k)
      BY <2>1 DEF NoneAfter
    <3>3. upc[k] # "store" /\ view[l][k] = cacheMap[k]
      BY <2>1, <3>1, <3>2 DEF ViewInv, Knows
    <3>4. QED BY <2>1, <3>1, <3>3 DEF Knows, Upcoming
  <2>4. QED BY <2>2, <2>3
<1>6. ASSUME NEW m \in Listeners, WriteEvent(m)
      PROVE  Knows(l, k)'
  <2>1. /\ \A i \in Keys : ~BroadcastEvent(i)
        /\ l \in Attached /\ missed'[l] = missed[l] /\ lpc'[l] = lpc[l] /\ todo'[l] = todo[l]
        /\ upc' = upc /\ cacheMap' = cacheMap /\ data' = data /\ log' = log
    BY <1>6 DEF WriteEvent, BroadcastEvent, updaterVars, Attached, TypeOK
  <2>2. CASE l # m
    BY <1>1, <1>6, <2>1, <2>2 DEF WriteEvent, TypeOK
  <2>3. CASE l = m
    <3> DEFINE n == Head(ch[l])
    <3>1. /\ lpc[l] = "waiting" /\ ch[l] # <<>> /\ last'[l] = n
          /\ view' = [view EXCEPT ![l][log[n].key] = log[n].val]
      BY <1>6, <2>3 DEF WriteEvent, TypeOK
    <3>2. Unbroken(l)
      BY <2>1 DEF StreamInv
    <3>3. 1 \in DOMAIN ch[l] /\ n = ch[l][1] /\ n \in Places
      BY <3>1, ChannelFacts, TailElements
    <3>4. n = last[l] + 1 /\ n \in DOMAIN log /\ last[l] \in Nat
      BY <3>2, <3>3, ChannelFacts DEF Unbroken, Places, TypeOK
    <3>5. NoneAfter(n, k)
      BY <2>1, <3>1 DEF NoneAfter
    <3>6. view'[l][k] = IF k = log[n].key THEN log[n].val ELSE view[l][k]
      BY <3>1 DEF TypeOK
    <3>7. CASE k = log[n].key
      <4>1. log[n].val = Upcoming(k)
        BY <3>4, <3>5, <3>7 DEF LogInv
      <4>2. QED BY <2>1, <3>1, <3>6, <3>7, <4>1 DEF Knows, Upcoming
    <3>8. CASE k # log[n].key
      <4>1. NoneAfter(last[l], k)
        <5>1. ASSUME NEW i \in DOMAIN log, i > last[l]
              PROVE  i = n \/ i > n
          BY <3>4, <5>1 DEF TypeOK
        <5>2. QED BY <3>5, <3>8, <5>1 DEF NoneAfter
      <4>2. view[l][k] = Upcoming(k)
        BY <2>1, <3>1, <4>1 DEF ViewInv, Knows
      <4>3. QED BY <2>1, <3>1, <3>6, <3>8, <4>2 DEF Knows, Upcoming
    <3>9. QED BY <3>7, <3>8
  <2>4. QED BY <2>2, <2>3
<1>7. ASSUME NEW m \in Listeners, Deregister(m) \/ WriteFails(m) \/ ChannelClosed(m)
      PROVE  Knows(l, k)'
  <2>1. \A i \in Keys : ~BroadcastEvent(i)
    BY <1>7 DEF Deregister, WriteFails, ChannelClosed, BroadcastEvent, updaterVars, TypeOK
  <2>2. l # m /\ l \in Attached
    BY <1>7 DEF Deregister, WriteFails, ChannelClosed, Attached, TypeOK
  <2>3. QED
    BY <1>1, <1>7, <2>1, <2>2 DEF Deregister, WriteFails, ChannelClosed, TypeOK
<1>8. CASE UNCHANGED <<missed, lpc, todo, view, last>> /\ \A j \in Keys : ~BroadcastEvent(j)
  BY <1>1, <1>8 DEF Attached
<1>9. CASE UNCHANGED <<missed, lpc, todo, view, last>>
  BY <1>2, <1>8, <1>9
<1>10. QED
  BY <1>2, <1>3, <1>4, <1>5, <1>6, <1>7, <1>9
     DEF Next, Step, UpdaterNext, UpdateChanged, UpdateSame, Store, FanOut, HandlerNext,
         SnapshotRaces, ClientGone, vars, steppedVars, handlerVars

\* For any number of clients, keys and values and any capacities: a client for which
\* nothing is on its way shows the cache, except the keys that were being stored when
\* its listener was registered.
THEOREM SettledViewsCorrect == Spec => []SettledViewsAreCached
<1>1. Init => LogInv /\ ViewInv
  BY DEF Init, LogInv, ViewInv, Attached
<1>2. Spec => [](LogInv /\ ViewInv)
  BY <1>1, StreamAlways, LogInvStep, ViewStep, PTL DEF Spec
<1>3. TypeOK /\ BroadcastInv /\ StreamInv /\ ViewInv => SettledViewsAreCached
  <2> SUFFICES ASSUME TypeOK, BroadcastInv, StreamInv, ViewInv,
                      NEW l \in Listeners, Settled(l), NEW k \in Keys \ missed[l]
               PROVE  view[l][k] = cacheMap[k]
    BY DEF SettledViewsAreCached
  <2>1. l \in Attached /\ lpc[l] = "waiting" /\ upc[k] # "store"
    BY EventsAssumption DEF Settled, Attached, TypeOK
  <2>2. last[l] = Len(log) /\ Len(log) \in Nat
    <3>1. Unbroken(l) /\ l \in listeners /\ Len(ch[l]) = 0 /\ Len(broadcast) = 0
      BY <2>1 DEF StreamInv, Settled
    <3>2. QED BY <3>1, ChannelFacts DEF Unbroken, Fanned
  <2>3. NoneAfter(last[l], k)
    BY <2>2 DEF NoneAfter, TypeOK
  <2>4. QED BY <2>1, <2>3 DEF ViewInv, Knows, Upcoming
<1>4. QED BY <1>2, <1>3, StreamAlways, PTL
=============================================================================
