-------------------------- MODULE InfinitiveProofs --------------------------
(***************************************************************************)
(* Theorems about the goroutines together, for any number of HTTP requests *)
(* and websockets and any capacities: nobody waits in a circle.            *)
(***************************************************************************)
EXTENDS Infinitive, TLAPS

-----------------------------------------------------------------------------
(* Sequences.                                                              *)

LEMMA AppendElements ==
  ASSUME NEW S, NEW s \in Seq(S), NEW x \in S
  PROVE  /\ Append(s, x) \in Seq(S)
         /\ DOMAIN s = 1 .. Len(s) /\ Len(s) \in Nat
         /\ DOMAIN Append(s, x) = 1 .. Len(s) + 1
         /\ \A i \in DOMAIN s : Append(s, x)[i] = s[i]
         /\ Append(s, x)[Len(s) + 1] = x
         /\ Range(Append(s, x)) = Range(s) \cup {x}
  BY DEF Range

LEMMA TailElements ==
  ASSUME NEW S, NEW s \in Seq(S), s # <<>>
  PROVE  /\ Tail(s) \in Seq(S)
         /\ Head(s) \in S /\ Head(s) = s[1]
         /\ DOMAIN s = 1 .. Len(s) /\ Len(s) \in Nat /\ 1 \in DOMAIN s
         /\ DOMAIN Tail(s) = 1 .. Len(s) - 1
         /\ \A i \in DOMAIN Tail(s) : i + 1 \in DOMAIN s /\ Tail(s)[i] = s[i + 1]
  OBVIOUS

\* The queue of callers loses its first.
LEMMA TailInjective ==
  ASSUME NEW S, NEW s \in Seq(S), s # <<>>, IsInjective(s)
  PROVE  /\ IsInjective(Tail(s))
         /\ Range(Tail(s)) = Range(s) \ {Head(s)}
         /\ Head(s) \in Range(s)
<1>1. IsInjective(Tail(s))
  BY TailElements DEF IsInjective
<1>2. Head(s) \in Range(s)
  BY TailElements DEF Range
<1>3. ASSUME NEW x \in Range(Tail(s))
      PROVE  x \in Range(s) /\ x # Head(s)
  <2>1. PICK i \in DOMAIN Tail(s) : x = Tail(s)[i]
    BY <1>3 DEF Range
  <2>2. i + 1 \in DOMAIN s /\ x = s[i + 1] /\ i + 1 # 1 /\ 1 \in DOMAIN s /\ Head(s) = s[1]
    BY <2>1, TailElements
  <2>3. QED BY <2>2 DEF Range, IsInjective
<1>4. ASSUME NEW x \in Range(s), x # Head(s)
      PROVE  x \in Range(Tail(s))
  <2>1. PICK i \in DOMAIN s : x = s[i]
    BY DEF Range
  <2>2. i # 1 /\ i - 1 \in DOMAIN Tail(s) /\ (i - 1) + 1 = i
    BY <1>4, <2>1, TailElements
  <2>3. Tail(s)[i - 1] = x
    BY <2>1, <2>2, TailElements
  <2>4. QED BY <2>2, <2>3 DEF Range
<1>5. QED BY <1>1, <1>2, <1>3, <1>4

LEMMA ConcatElements ==
  ASSUME NEW S, NEW s \in Seq(S), NEW t \in Seq(S)
  PROVE  /\ s \o t \in Seq(S)
         /\ Len(s) \in Nat /\ Len(t) \in Nat /\ Len(s \o t) = Len(s) + Len(t)
         /\ \A i \in 1 .. Len(s) : (s \o t)[i] = s[i]
         /\ \A i \in 1 .. Len(t) : (s \o t)[Len(s) + i] = t[i]
  OBVIOUS

-----------------------------------------------------------------------------
(* What goroutines set out to do.                                          *)

Ops == DOMAIN CacheOf \cup {"call", "queue", "subscribe"}

\* A call comes first: whoever sets out is queued, or does not call.
Task(task) ==
  /\ task \in Seq(Ops) /\ task # <<>>
  /\ \A i \in DOMAIN task : i > 1 => task[i] # "call"

LEMMA OpsAre == Ops = {"get", "ws", "mqtt", "clear", "call", "queue", "subscribe"}
  BY DEF Ops, CacheOf

LEMMA PollTasks == \A task \in Polls : Task(task)
<1> DEFINE Updates == {"ws", "mqtt"}
<1>1. <<"call">> \in Seq(Ops) /\ Len(<<"call">>) = 1
  BY OpsAre
<1>2. <<>> \in Seq(Updates) /\ Tell \in Seq(Updates) /\ Tell \o Tell \in Seq(Updates)
  <2>1. Tell \in Seq(Updates)
    BY DEF Tell
  <2>2. QED BY <2>1, ConcatElements
<1>3. ASSUME NEW told \in Seq(Updates)
      PROVE  Task(<<"call">> \o told)
  <2> DEFINE task == <<"call">> \o told
  <2>1. told \in Seq(Ops)
    BY OpsAre
  <2>2. /\ task \in Seq(Ops) /\ Len(task) = 1 + Len(told) /\ Len(told) \in Nat
        /\ \A i \in 1 .. Len(told) : task[1 + i] = told[i]
    BY <1>1, <2>1, ConcatElements
  <2>3. ASSUME NEW i \in DOMAIN task, i > 1
        PROVE  task[i] # "call"
    <3>1. i - 1 \in 1 .. Len(told) /\ 1 + (i - 1) = i
      BY <2>2, <2>3
    <3>2. task[i] = told[i - 1] /\ told[i - 1] \in Updates
      BY <2>2, <3>1
    <3>3. QED BY <3>2
  <2>4. task # <<>>
    BY <2>2
  <2>5. QED BY <2>2, <2>3, <2>4 DEF Task
<1>4. QED BY <1>2, <1>3 DEF Polls

LEMMA FrameTasks == \A task \in Frames : Task(task) /\ Head(task) # "call"
<1> DEFINE NoCalls == {"queue", "get", "ws", "mqtt"}
<1>1. /\ <<>> \in Seq(NoCalls) /\ <<"queue">> \in Seq(NoCalls) /\ <<"get">> \in Seq(NoCalls)
      /\ <<"get", "ws", "mqtt">> \in Seq(NoCalls) /\ <<"get", "mqtt", "ws">> \in Seq(NoCalls)
  OBVIOUS
<1>2. ASSUME NEW task \in Frames
      PROVE  task \in Seq(NoCalls) /\ task # <<>>
  <2>1. PICK queued \in {<<>>, <<"queue">>},
             snooped \in {<<>>, <<"get">>, <<"get", "ws", "mqtt">>, <<"get", "mqtt", "ws">>} :
               task = queued \o snooped
    BY DEF Frames
  <2>2. queued \in Seq(NoCalls) /\ snooped \in Seq(NoCalls)
    BY <1>1
  <2>3. task \in Seq(NoCalls)
    BY <2>1, <2>2, ConcatElements
  <2>4. QED BY <2>3 DEF Frames
<1>3. ASSUME NEW task \in Seq(NoCalls), task # <<>>
      PROVE  Task(task) /\ Head(task) # "call"
  <2>1. task \in Seq(Ops)
    BY OpsAre
  <2>2. \A i \in DOMAIN task : task[i] \in NoCalls
    OBVIOUS
  <2>3. Head(task) \in NoCalls
    BY <1>3, TailElements
  <2>4. QED BY <1>3, <2>1, <2>2, <2>3 DEF Task
<1>4. QED BY <1>2, <1>3

LEMMA OtherTasks ==
  /\ \A task \in Handlers : Task(task)
  /\ Task(<<"call">>)
  /\ Task(<<"subscribe", "clear">>)
<1>1. Task(<<"call">>)
  BY OpsAre DEF Task
<1>2. Task(<<"get">>)
  BY OpsAre DEF Task
<1>3. Task(<<"subscribe", "clear">>)
  BY OpsAre DEF Task
<1>4. QED BY <1>1, <1>2, <1>3 DEF Handlers

-----------------------------------------------------------------------------
(* Types and callers.                                                      *)

\* Nobody has a call ahead but the one being waited for, and whoever waits for a call
\* is on actionCh, once, or is the one the broker serves.
CallInv ==
  /\ todo \in [Workers -> Seq(Ops)]
  /\ \A g \in Workers : \A i \in DOMAIN todo[g] : i > 1 => todo[g][i] # "call"
  /\ actionCh \in Seq(Workers) /\ IsInjective(actionCh)
  /\ cur \in (Workers \cup {None}) \ Range(actionCh)
  /\ \A g \in Workers : Does(g, "call") <=> g = cur \/ g \in Range(actionCh)

\* The channels keep within their capacities and the broker within its retries.
CountInv ==
  /\ tries \in 0 .. responseRetries - 1
  /\ responses \in 0 .. ResponseCapacity
  /\ broadcast \in 0 .. BroadcastCapacity
  /\ listeners \subseteq Sockets
  /\ ch \in [Sockets -> 0 .. ListenerCapacity]

\* A goroutine that has a mutex is in an update of that cache.
HolderInv ==
  /\ holder \in [Caches -> Workers \cup {None}]
  /\ \A c \in Caches : holder[c] # None =>
       Wants(holder[c], {"ws", "mqtt"}) /\ CacheOf[Next1(holder[c])] = c

\* The MQTT client's handler of messages does nothing but call.
HandlerInv == todo[MqttHandler] \in {<<>>, <<"call">>}

IInv == CallInv /\ CountInv /\ HolderInv /\ HandlerInv

-----------------------------------------------------------------------------
(* One lemma for what the actions have in common: setting out, and having  *)
(* done the first thing.                                                   *)

LEMMA SetsStep ==
  ASSUME IInv, NEW g \in Workers, NEW tasks, Sets(g, tasks),
         \A task \in tasks : Task(task), g = MqttHandler => tasks = {<<"call">>}
  PROVE  IInv'
<1>1. PICK task \in tasks :
        /\ todo' = [todo EXCEPT ![g] = task]
        /\ actionCh' = IF Head(task) = "call" THEN Append(actionCh, g) ELSE actionCh
  BY DEF Sets
<1>2. /\ todo[g] = <<>> /\ Task(task) /\ todo \in [Workers -> Seq(Ops)]
      /\ UNCHANGED <<holder, cur, tries, responses, broadcast, listeners, ch>>
  BY DEF Sets, IInv, CallInv, socketVars
<1>3. todo' \in [Workers -> Seq(Ops)] /\ todo'[g] = task
      /\ \A h \in Workers \ {g} : todo'[h] = todo[h]
  BY <1>1, <1>2 DEF Task
<1>4. g # cur /\ g \notin Range(actionCh)
  BY <1>2 DEF IInv, CallInv, Does
<1>5. CallInv'
  <2>1. \A h \in Workers : \A i \in DOMAIN todo'[h] : i > 1 => todo'[h][i] # "call"
    BY <1>2, <1>3 DEF IInv, CallInv, Task
  <2>2. CASE Head(task) = "call"
    <3>1. /\ actionCh' \in Seq(Workers) /\ IsInjective(actionCh')
          /\ Range(actionCh') = Range(actionCh) \cup {g}
      <4>1. /\ actionCh \in Seq(Workers) /\ IsInjective(actionCh)
            /\ actionCh' = Append(actionCh, g)
        BY <1>1, <2>2 DEF IInv, CallInv
      <4>2. actionCh' \in Seq(Workers) /\ Range(actionCh') = Range(actionCh) \cup {g}
        BY <4>1, AppendElements
      <4>3. IsInjective(actionCh')
        BY <1>4, <4>1 DEF IsInjective, Range
      <4>4. QED BY <4>1, <4>2, <4>3
    <3>2. cur' \in (Workers \cup {None}) \ Range(actionCh')
      BY <1>2, <1>4, <3>1 DEF IInv, CallInv
    <3>3. \A h \in Workers : Does(h, "call")' <=> h = cur' \/ h \in Range(actionCh')
      BY <1>2, <1>3, <2>2, <3>1 DEF IInv, CallInv, Does, Next1, Task
    <3>4. QED BY <1>3, <2>1, <3>1, <3>2, <3>3 DEF CallInv
  <2>3. CASE Head(task) # "call"
    <3>1. \A h \in Workers : Does(h, "call")' <=> h = cur' \/ h \in Range(actionCh')
      BY <1>1, <1>2, <1>3, <1>4, <2>3 DEF IInv, CallInv, Does, Next1
    <3>2. QED BY <1>1, <1>2, <1>3, <2>1, <2>3, <3>1 DEF IInv, CallInv
  <2>4. QED BY <2>2, <2>3
<1>6. HolderInv'
  <2>1. \A c \in Caches : holder[c] # g
    BY <1>2, InfinitiveAssumption DEF IInv, HolderInv, Wants
  <2>2. QED BY <1>2, <1>3, <2>1 DEF IInv, HolderInv, Wants, Next1
<1>7. HandlerInv'
  <2>1. MqttHandler \in Workers
    BY DEF Workers
  <2>2. QED BY <1>3, <2>1 DEF IInv, HandlerInv
<1>8. CountInv'
  BY <1>2 DEF IInv, CountInv
<1>9. QED BY <1>5, <1>6, <1>7, <1>8 DEF IInv

\* g has done the first of what it has to do.
LEMMA DoneEffect ==
  ASSUME CallInv, NEW g \in Workers, todo[g] # <<>>, Done(g)
  PROVE  /\ todo' \in [Workers -> Seq(Ops)]
         /\ todo'[g] = Tail(todo[g]) /\ \A h \in Workers \ {g} : todo'[h] = todo[h]
         /\ \A h \in Workers : \A i \in DOMAIN todo'[h] : i > 1 => todo'[h][i] # "call"
         /\ ~Does(g, "call")'
<1>1. todo \in [Workers -> Seq(Ops)] /\ todo' = [todo EXCEPT ![g] = Tail(@)]
  BY DEF CallInv, Done
<1>2. /\ Tail(todo[g]) \in Seq(Ops)
      /\ \A i \in DOMAIN Tail(todo[g]) :
           i + 1 \in DOMAIN todo[g] /\ i \in Nat /\ i >= 1 /\ Tail(todo[g])[i] = todo[g][i + 1]
  BY <1>1, TailElements
<1>3. \A i \in DOMAIN Tail(todo[g]) : Tail(todo[g])[i] # "call"
  BY <1>2 DEF CallInv
<1>4. todo'[g] = Tail(todo[g]) /\ \A h \in Workers \ {g} : todo'[h] = todo[h]
  BY <1>1
<1>5. ~Does(g, "call")'
  <2>1. CASE Tail(todo[g]) = <<>>
    BY <1>4, <2>1 DEF Does
  <2>2. CASE Tail(todo[g]) # <<>>
    <3>1. 1 \in DOMAIN Tail(todo[g]) /\ Head(Tail(todo[g])) = Tail(todo[g])[1]
      BY <1>2, <2>2, TailElements
    <3>2. QED BY <1>3, <1>4, <3>1 DEF Does, Next1
  <2>3. QED BY <2>1, <2>2
<1>6. QED BY <1>1, <1>2, <1>3, <1>4, <1>5 DEF CallInv

\* A thing done that was no call leaves the callers as they are.
LEMMA DoneCalls ==
  ASSUME CallInv, NEW g \in Workers, todo[g] # <<>>, Next1(g) # "call", Done(g),
         UNCHANGED <<actionCh, cur>>
  PROVE  CallInv'
<1>1. ~Does(g, "call")
  BY DEF Does
<1>2. \A h \in Workers : Does(h, "call")' <=> h = cur' \/ h \in Range(actionCh')
  BY <1>1, DoneEffect DEF CallInv, Does, Next1
<1>3. QED BY <1>2, DoneEffect DEF CallInv

\* What a goroutine that has no mutex does leaves the mutexes with those in an update.
LEMMA DoneHolders ==
  ASSUME CallInv, HolderInv, NEW g \in Workers, todo[g] # <<>>, Done(g), UNCHANGED holder,
         \A c \in Caches : holder[c] # g
  PROVE  HolderInv'
  BY DoneEffect, InfinitiveAssumption DEF HolderInv, Wants, Next1

\* The handler of messages has only its call to do.
LEMMA DoneHandler ==
  ASSUME CallInv, HandlerInv, NEW g \in Workers, todo[g] # <<>>, Done(g)
  PROVE  HandlerInv'
<1>1. MqttHandler \in Workers /\ Tail(<<"call">>) = <<>>
  BY DEF Workers
<1>2. QED BY <1>1, DoneEffect DEF HandlerInv


-----------------------------------------------------------------------------
(* The actions.                                                            *)

\* A step of the broker, or of the channels to it, that ends no action.
LEMMA BrokerWaits ==
  ASSUME IInv, BrokerAccept \/ BrokerDrop \/ BrokerOther
  PROVE  IInv'
<1>1. todo' = todo /\ holder' = holder
  BY DEF BrokerAccept, BrokerDrop, BrokerOther
<1>2. CallInv'
  <2>1. CASE BrokerAccept
    <3>1. /\ actionCh \in Seq(Workers) /\ actionCh # <<>> /\ IsInjective(actionCh)
          /\ cur = None /\ cur' = Head(actionCh) /\ actionCh' = Tail(actionCh)
      BY <2>1 DEF BrokerAccept, IInv, CallInv
    <3>2. /\ actionCh' \in Seq(Workers) /\ IsInjective(actionCh')
          /\ Range(actionCh') = Range(actionCh) \ {cur'}
          /\ cur' \in Workers /\ cur' \in Range(actionCh)
      BY <3>1, TailElements, TailInjective
    <3>3. \A h \in Workers : h = cur' \/ h \in Range(actionCh')
                               <=> h = cur \/ h \in Range(actionCh)
      BY <3>1, <3>2, InfinitiveAssumption
    <3>4. QED BY <1>1, <3>2, <3>3 DEF IInv, CallInv, Does, Next1
  <2>2. CASE BrokerDrop \/ BrokerOther
    <3>1. UNCHANGED <<todo, actionCh, cur>>
      BY <2>2 DEF BrokerDrop, BrokerOther, brokerVars
    <3>2. QED BY <3>1 DEF IInv, CallInv, Does, Next1
  <2>3. QED BY <2>1, <2>2
<1>3. HolderInv' /\ HandlerInv'
  BY <1>1 DEF IInv, HolderInv, HandlerInv, Wants, Next1
<1>4. CountInv'
  BY InfinitiveAssumption
     DEF BrokerAccept, BrokerDrop, BrokerOther, IInv, CountInv, brokerVars, socketVars
<1>5. QED BY <1>2, <1>3, <1>4 DEF IInv

\* The action ends: its caller goes on.
LEMMA ReturnStep ==
  ASSUME IInv, cur # None, Return, UNCHANGED <<holder, actionCh>>
  PROVE  CallInv' /\ HolderInv' /\ HandlerInv'
<1>1. cur \in Workers /\ Does(cur, "call") /\ Done(cur) /\ cur' = None
  BY DEF IInv, CallInv, Return
<1>2. todo[cur] # <<>> /\ Next1(cur) = "call"
  BY <1>1 DEF Does
<1>3. CallInv'
  <2>1. \A h \in Workers : Does(h, "call")' <=> h = cur' \/ h \in Range(actionCh')
    BY <1>1, <1>2, DoneEffect, InfinitiveAssumption DEF IInv, CallInv, Does, Next1
  <2>2. cur' \in (Workers \cup {None}) \ Range(actionCh')
    <3>1. Range(actionCh) \subseteq Workers
      BY DEF IInv, CallInv, Range
    <3>2. QED BY <1>1, <3>1, InfinitiveAssumption
  <2>3. QED BY <1>1, <1>2, <2>1, <2>2, DoneEffect DEF IInv, CallInv
<1>4. \A c \in Caches : holder[c] # cur
  BY <1>1, <1>2, InfinitiveAssumption DEF IInv, HolderInv, Wants
<1>5. HolderInv' /\ HandlerInv'
  BY <1>1, <1>2, <1>4, DoneHolders, DoneHandler DEF IInv
<1>6. QED BY <1>3, <1>5

LEMMA BrokerEnds ==
  ASSUME IInv, BrokerOk \/ BrokerTick
  PROVE  IInv'
<1>1. CountInv'
  BY InfinitiveAssumption
     DEF BrokerOk, BrokerTick, Return, IInv, CountInv, brokerVars, socketVars
<1>2. CASE Return
  BY <1>1, <1>2, ReturnStep DEF BrokerOk, BrokerTick, IInv
<1>3. CASE UNCHANGED <<todo, cur>>
  <2>1. UNCHANGED <<todo, cur, holder, actionCh>>
    BY <1>3 DEF BrokerOk, BrokerTick
  <2>2. QED BY <1>1, <2>1 DEF IInv, CallInv, HolderInv, HandlerInv, Does, Wants, Next1
<1>4. QED BY <1>2, <1>3 DEF BrokerOk, BrokerTick

\* A goroutine that has a mutex is not about to do anything but its update.
LEMMA NoHolder ==
  ASSUME IInv, NEW g \in Workers, todo[g] # <<>>, Next1(g) \notin {"ws", "mqtt"}
  PROVE  \A c \in Caches : holder[c] # g
  BY InfinitiveAssumption DEF IInv, HolderInv, Wants

LEMMA QueueStep ==
  ASSUME IInv, QueueResponse \/ Subscribed
  PROVE  IInv'
<1>1. PICK g \in Workers : /\ todo[g] # <<>> /\ Next1(g) \in {"queue", "subscribe"} /\ Done(g)
                           /\ UNCHANGED <<holder, actionCh, cur>>
  BY DEF QueueResponse, Subscribed, Does, Workers, brokerVars
<1>2. CallInv' /\ HolderInv' /\ HandlerInv'
  BY <1>1, NoHolder, DoneCalls, DoneHolders, DoneHandler DEF IInv
<1>3. CountInv'
  BY InfinitiveAssumption DEF QueueResponse, Subscribed, IInv, CountInv, brokerVars, socketVars
<1>4. QED BY <1>2, <1>3 DEF IInv

LEMMA CacheOps ==
  /\ DOMAIN CacheOf = {"get", "ws", "mqtt", "clear"}
  /\ \A op \in DOMAIN CacheOf : CacheOf[op] \in Caches
  /\ CacheOf["ws"] = "wsCache" /\ CacheOf["mqtt"] = "mqttCache"
  BY DEF CacheOf, Caches

\* get() and its like: the mutex is free, so that g has none.
LEMMA LookStep ==
  ASSUME IInv, NEW g \in Workers, Look(g)
  PROVE  IInv'
<1>1. /\ todo[g] # <<>> /\ Next1(g) \in DOMAIN CacheOf /\ holder[CacheOf[Next1(g)]] = None
      /\ Done(g) /\ UNCHANGED <<holder, actionCh, cur, tries, responses, broadcast, listeners, ch>>
  BY DEF Look, Wants, brokerVars, socketVars
<1>2. Next1(g) # "call"
  BY <1>1, CacheOps
<1>3. \A c \in Caches : holder[c] # g
  BY <1>1, InfinitiveAssumption DEF IInv, HolderInv
<1>4. CallInv' /\ HolderInv' /\ HandlerInv'
  BY <1>1, <1>2, <1>3, DoneCalls, DoneHolders, DoneHandler DEF IInv
<1>5. QED BY <1>1, <1>4 DEF IInv, CountInv

LEMMA LockStep ==
  ASSUME IInv, NEW g \in Workers, Lock(g)
  PROVE  IInv'
<1>1. /\ todo' = todo /\ Wants(g, {"ws", "mqtt"})
      /\ holder' = [holder EXCEPT ![CacheOf[Next1(g)]] = g]
      /\ UNCHANGED <<actionCh, cur, tries, responses, broadcast, listeners, ch>>
  BY DEF Lock, brokerVars, socketVars
<1>2. CacheOf[Next1(g)] \in Caches
  BY <1>1, CacheOps DEF Wants
<1>3. HolderInv'
  BY <1>1, <1>2, InfinitiveAssumption DEF IInv, HolderInv, Wants, Next1
<1>4. QED BY <1>1, <1>3 DEF IInv, CallInv, CountInv, HandlerInv, Does, Next1

\* The end of an update: the mutex g has is released, and g has no other.
LEMMA UnlockStep ==
  ASSUME IInv, NEW g \in Workers, Publish(g) \/ Broadcast(g)
  PROVE  IInv'
<1>1. /\ todo[g] # <<>> /\ Next1(g) \in {"ws", "mqtt"} /\ holder[CacheOf[Next1(g)]] = g
      /\ holder' = [holder EXCEPT ![CacheOf[Next1(g)]] = None] /\ Done(g)
      /\ UNCHANGED <<actionCh, cur>>
  BY DEF Publish, Broadcast, Holds, Does, Unlock, brokerVars
<1>2. CacheOf[Next1(g)] \in Caches /\ Next1(g) # "call"
  BY <1>1, CacheOps
<1>3. CallInv' /\ HandlerInv'
  BY <1>1, <1>2, DoneCalls, DoneHandler DEF IInv
<1>4. HolderInv'
  <2>1. \A c \in Caches \ {CacheOf[Next1(g)]} : holder[c] # g
    BY <1>1, InfinitiveAssumption DEF IInv, HolderInv
  <2>2. holder' \in [Caches -> Workers \cup {None}]
    BY <1>1 DEF IInv, HolderInv
  <2>3. ASSUME NEW c \in Caches, holder'[c] # None
        PROVE  /\ todo'[holder'[c]] # <<>> /\ Head(todo'[holder'[c]]) \in {"ws", "mqtt"}
               /\ CacheOf[Head(todo'[holder'[c]])] = c
    <3>1. c # CacheOf[Next1(g)] /\ holder'[c] = holder[c] /\ holder[c] # g
      BY <1>1, <1>2, <2>1, <2>3 DEF IInv, HolderInv
    <3>2. holder[c] \in Workers /\ todo'[holder[c]] = todo[holder[c]]
      BY <1>1, <2>3, <3>1, DoneEffect DEF IInv, HolderInv
    <3>3. Wants(holder[c], {"ws", "mqtt"}) /\ CacheOf[Next1(holder[c])] = c
      BY <2>3, <3>1 DEF IInv, HolderInv
    <3>4. QED BY <3>1, <3>2, <3>3 DEF Wants, Next1
  <2>4. QED BY <2>2, <2>3 DEF HolderInv, Wants, Next1
<1>5. CountInv'
  BY InfinitiveAssumption DEF Publish, Broadcast, IInv, CountInv, brokerVars, socketVars
<1>6. QED BY <1>3, <1>4, <1>5 DEF IInv

\* The dispatcher and the websockets touch none of the workers.
LEMMA SocketStep ==
  ASSUME IInv, FanOut \/ \E s \in Sockets : Open(s) \/ Write(s) \/ Leave(s)
  PROVE  IInv'
<1>1. UNCHANGED <<todo, holder, actionCh, cur, tries, responses>>
  BY DEF FanOut, Open, Write, Leave, brokerVars
<1>2. CASE FanOut
  <2>1. ch' \in [Sockets -> 0 .. ListenerCapacity]
    BY <1>2, InfinitiveAssumption DEF FanOut, IInv, CountInv
  <2>2. broadcast' \in 0 .. BroadcastCapacity /\ listeners' \subseteq Sockets
    BY <1>2, InfinitiveAssumption DEF FanOut, IInv, CountInv
  <2>3. QED
    BY <1>1, <2>1, <2>2 DEF IInv, CallInv, CountInv, HolderInv, HandlerInv, Does, Wants, Next1
<1>3. ASSUME NEW s \in Sockets, Open(s) \/ Write(s) \/ Leave(s)
      PROVE  IInv'
  <2>1. CountInv'
    BY <1>3, InfinitiveAssumption DEF Open, Write, Leave, IInv, CountInv, brokerVars
  <2>2. QED
    BY <1>1, <2>1 DEF IInv, CallInv, HolderInv, HandlerInv, Does, Wants, Next1
<1>4. QED BY <1>2, <1>3

LEMMA TaskStep ==
  ASSUME IInv, Poll \/ HandleFrame \/ MqttMessage \/ Connected \/ \E g \in Requests : Request(g)
  PROVE  IInv'
<1>1. {Poller, Reader, MqttHandler, OnConnect} \cup Requests = Workers
      /\ Poller # MqttHandler /\ Reader # MqttHandler /\ OnConnect # MqttHandler
      /\ MqttHandler \notin Requests
  BY InfinitiveAssumption DEF Workers, Poller, Reader, MqttHandler, OnConnect
<1>2. CASE Poll
  BY <1>1, <1>2, PollTasks, SetsStep DEF Poll
<1>3. CASE HandleFrame
  BY <1>1, <1>3, FrameTasks, SetsStep DEF HandleFrame
<1>4. CASE MqttMessage
  BY <1>1, <1>4, OtherTasks, SetsStep DEF MqttMessage
<1>5. CASE Connected
  BY <1>1, <1>5, OtherTasks, SetsStep DEF Connected
<1>6. ASSUME NEW g \in Requests, Request(g)
      PROVE  IInv'
  BY <1>1, <1>6, OtherTasks, SetsStep DEF Request
<1>7. QED BY <1>2, <1>3, <1>4, <1>5, <1>6

LEMMA IInvStep == IInv /\ [Next]_vars => IInv'
<1> SUFFICES ASSUME IInv, [Next]_vars
             PROVE  IInv'
  OBVIOUS
<1>1. CASE UNCHANGED vars
  BY <1>1 DEF vars, brokerVars, socketVars, IInv, CallInv, CountInv, HolderInv, HandlerInv,
              Does, Wants, Next1
<1>2. ASSUME NEW g \in Workers, Work(g)
      PROVE  IInv'
  BY <1>2, LookStep, LockStep, UnlockStep DEF Work
<1>3. QED
  BY <1>1, <1>2, TaskStep, QueueStep, BrokerWaits, BrokerEnds, SocketStep DEF Next, BrokerStep

LEMMA IInvCorrect == Spec => []IInv
<1>1. Init => IInv
  <2> SUFFICES ASSUME Init PROVE IInv
    OBVIOUS
  <2>1. <<>> \in Seq(Ops) /\ <<>> \in Seq(Workers) /\ Range(<<>>) = {} /\ IsInjective(<<>>)
    BY DEF Range, IsInjective
  <2>2. MqttHandler \in Workers
    BY DEF Workers
  <2>3. CallInv
    BY <2>1, InfinitiveAssumption DEF Init, CallInv, Does
  <2>4. QED
    BY <2>2, <2>3, InfinitiveAssumption DEF Init, IInv, CountInv, HolderInv, HandlerInv
<1>2. QED BY <1>1, IInvStep, PTL DEF Spec

\* A caller is queued once, or is the one served; the channels keep within their
\* capacities.
THEOREM TypeCorrect == Spec => []TypeOK
<1>1. IInv => TypeOK
  BY DEF IInv, CallInv, CountInv, HolderInv, TypeOK, Ops
<1>2. QED BY <1>1, IInvCorrect, PTL

\* Among any goroutines that wait for one another there is one that waits for none
\* of them: nobody waits for one who waits.  Who has a mutex waits for no other, and
\* the handler of messages waits for no mutex.
THEOREM NoCircularWaitCorrect == Spec => []NoCircularWait
<1>1. ASSUME IInv, NEW g \in Workers, NEW h \in Workers, NEW x \in Workers, WaitsFor(g, h)
      PROVE  ~WaitsFor(h, x)
  <2>1. CASE \E c \in Caches : h = holder[c]
    <3>1. PICK c \in Caches : h = holder[c]
      BY <2>1
    <3>2. todo[h] # <<>> /\ Next1(h) \in {"ws", "mqtt"} /\ holder[CacheOf[Next1(h)]] = h
      BY <1>1, <3>1, InfinitiveAssumption DEF IInv, HolderInv, Wants
    <3>3. QED BY <3>2 DEF WaitsFor, Does
  <2>2. CASE h = MqttHandler
    <3>1. todo[h] = <<>> \/ (todo[h] # <<>> /\ Next1(h) = "call")
      BY <1>1, <2>2 DEF IInv, HandlerInv, Next1
    <3>2. QED BY <3>1, CacheOps DEF WaitsFor, Wants, Does
  <2>3. QED BY <1>1, <2>1, <2>2, CacheOps DEF WaitsFor, Wants
<1>2. IInv => NoCircularWait
  <2> SUFFICES ASSUME IInv,
                      NEW G \in SUBSET {g \in Workers : \E h \in Workers : WaitsFor(g, h)},
                      G # {}
               PROVE  \E g \in G : \A h \in G : ~WaitsFor(g, h)
    BY DEF NoCircularWait
  <2>1. PICK g \in G : TRUE
    OBVIOUS
  <2>2. \A h \in G : ~WaitsFor(g, h)
    BY <1>1
  <2>3. QED BY <2>2
<1>3. QED BY <1>2, IInvCorrect, PTL

=============================================================================
