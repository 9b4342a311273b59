---------------------------- MODULE SnoopsProofs ----------------------------
(***************************************************************************)
(* Proofs about Snoops, for every set of responses and every number of     *)
(* zones: types, that the two caches hold what was heard last, and that    *)
(* the flow weights are the zones' shares.  The argument follows the       *)
(* updates of a callback: each belongs to the response being handled, what *)
(* is not to do any more has been done, and no two origins share a field   *)
(* or a topic.  That a share is at most one takes an induction over the    *)
(* zones summed up, done with least elements of sets of numbers.           *)
(***************************************************************************)
EXTENDS Snoops, SequenceTheorems, FiniteSetTheorems, WellFoundedInduction, TLAPS

-----------------------------------------------------------------------------
(* Sequences, by their elements.                                           *)

IsSeq(s) == s \in Seq(Range(s))

LEMMA TailElements ==
  ASSUME NEW s, IsSeq(s), s # <<>>
  PROVE  /\ IsSeq(Tail(s))
         /\ Range(s) = {Head(s)} \cup Range(Tail(s))
         /\ Tail(s) = <<>> => Range(Tail(s)) = {}
<1>1. /\ Len(s) \in Nat /\ DOMAIN s = 1 .. Len(s) /\ Len(s) >= 1 /\ Head(s) = s[1]
      /\ Tail(s) \in Seq(Range(s))
  BY LenProperties, EmptySeq DEF IsSeq
<1>2. DOMAIN Tail(s) = 1 .. Len(s) - 1 /\ \A i \in 1 .. Len(s) - 1 : Tail(s)[i] = s[i + 1]
  BY <1>1, HeadTailProperties, LenProperties DEF IsSeq
<1>3. \A j \in DOMAIN s : j # 1 => j - 1 \in DOMAIN Tail(s) /\ s[j] = Tail(s)[j - 1]
  BY <1>1, <1>2
<1>4. \A i \in DOMAIN Tail(s) : i + 1 \in DOMAIN s /\ Tail(s)[i] = s[i + 1]
  BY <1>1, <1>2
<1>5. Range(s) = {Head(s)} \cup Range(Tail(s))
  <2>1. ASSUME NEW j \in DOMAIN s PROVE s[j] \in {Head(s)} \cup Range(Tail(s))
    BY <1>1, <1>3 DEF Range
  <2>2. ASSUME NEW i \in DOMAIN Tail(s) PROVE Tail(s)[i] \in Range(s)
    BY <1>4 DEF Range
  <2>3. Head(s) \in Range(s)
    BY <1>1 DEF Range
  <2>4. QED BY <2>1, <2>2, <2>3 DEF Range
<1>6. Len(Tail(s)) \in Nat /\ DOMAIN Tail(s) = 1 .. Len(Tail(s))
      /\ Tail(s) \in [1 .. Len(Tail(s)) -> Range(s)]
  BY <1>1, LenProperties
<1>7. Tail(s) \in [1 .. Len(Tail(s)) -> Range(Tail(s))]
  BY <1>6 DEF Range
<1>8. IsSeq(Tail(s))
  BY <1>6, <1>7, SeqDef DEF IsSeq
<1>9. QED BY <1>5, <1>8 DEF Range

LEMMA ConcatElements ==
  ASSUME NEW s, NEW t, IsSeq(s), IsSeq(t)
  PROVE  /\ IsSeq(s \o t)
         /\ Range(s \o t) = Range(s) \cup Range(t)
<1> DEFINE U == Range(s) \cup Range(t)
<1>1. s \in Seq(U) /\ t \in Seq(U)
  BY SeqMonotonic DEF IsSeq
<1>2. /\ Len(s) \in Nat /\ DOMAIN s = 1 .. Len(s) /\ Len(t) \in Nat /\ DOMAIN t = 1 .. Len(t)
      /\ s \o t \in Seq(U) /\ Len(s \o t) = Len(s) + Len(t)
      /\ DOMAIN (s \o t) = 1 .. Len(s) + Len(t)
  BY <1>1, LenProperties, ConcatProperties
<1>3. \A i \in DOMAIN (s \o t) : (s \o t)[i] = IF i <= Len(s) THEN s[i] ELSE t[i - Len(s)]
  BY <1>1, <1>2, ConcatProperties
<1>4. \A i \in DOMAIN s : i \in DOMAIN (s \o t) /\ (s \o t)[i] = s[i]
  BY <1>2, <1>3
<1>5. \A i \in DOMAIN t : /\ i + Len(s) \in DOMAIN (s \o t)
                          /\ (s \o t)[i + Len(s)] = t[i]
  BY <1>2, <1>3
<1>6. U \subseteq Range(s \o t)
  BY <1>4, <1>5 DEF Range
<1>7. Range(s \o t) \subseteq U
  BY <1>2, ElementOfSeq DEF Range
<1>8. QED BY <1>2, <1>6, <1>7 DEF IsSeq

LEMMA FunctionElements ==
  ASSUME NEW n \in Nat, NEW s, s = [i \in 1 .. n |-> s[i]]
  PROVE  /\ IsSeq(s)
         /\ \A u : u \in Range(s) <=> \E i \in 1 .. n : u = s[i]
<1>1. DOMAIN s = 1 .. n
  OBVIOUS
<1>2. s \in [1 .. n -> Range(s)]
  BY <1>1 DEF Range
<1>3. QED BY <1>1, <1>2, SeqDef DEF IsSeq, Range

LEMMA SingletonElements ==
  ASSUME NEW u
  PROVE  IsSeq(<<u>>) /\ Range(<<u>>) = {u}
<1>1. <<u>> \in Seq({u}) /\ DOMAIN <<u>> = {1} /\ <<u>>[1] = u
  OBVIOUS
<1>2. Range(<<u>>) = {u}
  BY <1>1 DEF Range
<1>3. QED BY <1>1, <1>2 DEF IsSeq

LEMMA EmptyElements == IsSeq(<<>>) /\ Range(<<>>) = {}
<1>1. Range(<<>>) = {}
  BY DEF Range
<1>2. QED BY <1>1, EmptySeq DEF IsSeq

-----------------------------------------------------------------------------
(* Sums.                                                                   *)

LEMMA Minimum ==
  ASSUME NEW S \in SUBSET Nat, S # {}
  PROVE  \E m \in S : \A n \in S : m <= n
<1> DEFINE R == OpToRel(<, Nat)
<1>1. IsWellFoundedOn(R, Nat)
  BY NatLessThanWellFounded, Zenon
<1>2. \A x, y \in Nat : x < y => <<x, y>> \in R
  BY DEF OpToRel
<1> HIDE DEF R
<1>3. PICK m \in S : \A n \in S : ~(<<n, m>> \in R)
  BY <1>1, WFMin, Zenon
<1>4. \A n \in S : ~(n < m)
  BY <1>2, <1>3, Zenon
<1>5. QED BY <1>3, <1>4

LEMMA Upwards ==
  ASSUME NEW S, 0 \in S, \A n \in Nat : n \in S => n + 1 \in S
  PROVE  \A n \in Nat : n \in S
<1> SUFFICES ASSUME Nat \ S # {}
             PROVE  FALSE
  OBVIOUS
<1>1. Nat \ S \in SUBSET Nat
  OBVIOUS
<1>2. PICK m \in Nat \ S : \A n \in Nat \ S : m <= n
  BY <1>1, Minimum
<1>3. m # 0 /\ m - 1 \in Nat
  BY <1>2
<1>4. m - 1 \in S
  BY <1>2, <1>3
<1>5. QED BY <1>2, <1>3, <1>4

Pick(T) == CHOOSE x \in T : TRUE

\* The sum over T as SumFunction has it, one element and the others.
SumOf(f, sums, T) == IF T = {} THEN 0 ELSE f[Pick(T)] + sums[T \ {Pick(T)}]

IsSums(S, f, sums) == sums = [T \in SUBSET S |-> SumOf(f, sums, T)]

LEMMA Smaller ==
  ASSUME NEW S, IsFiniteSet(S), NEW T \in SUBSET S
  PROVE  /\ Cardinality(T) \in Nat
         /\ T # {} => /\ Pick(T) \in T /\ T \ {Pick(T)} \in SUBSET S
                      /\ Cardinality(T \ {Pick(T)}) = Cardinality(T) - 1
                      /\ Cardinality(T) # 0
<1>1. IsFiniteSet(T) /\ Cardinality(T) \in Nat
  BY FS_Subset, FS_CardinalityType
<1>2. T # {} => Pick(T) \in T
  BY DEF Pick
<1>3. QED BY <1>1, <1>2, FS_RemoveElement, FS_EmptySet

LEMMA SumsExist ==
  ASSUME NEW S, IsFiniteSet(S), NEW f
  PROVE  \E sums : IsSums(S, f, sums)
<1> DEFINE Upto(n, g) == \A T \in SUBSET S : Cardinality(T) <= n => g[T] = SumOf(f, g, T)
           N == {n \in Nat : \E g : Upto(n, g)}
<1>1. 0 \in N
  <2> DEFINE g == [T \in SUBSET S |-> 0]
  <2>1. ASSUME NEW T \in SUBSET S, Cardinality(T) <= 0
        PROVE  g[T] = SumOf(f, g, T)
    <3>1. Cardinality(T) \in Nat /\ (T # {} => Cardinality(T) # 0)
      BY Smaller
    <3>2. T = {}
      BY <2>1, <3>1
    <3>3. QED BY <3>2 DEF SumOf
  <2>2. Upto(0, g)
    BY <2>1
  <2> HIDE DEF g, Upto
  <2>3. QED BY <2>2
<1>2. ASSUME NEW n \in Nat, n \in N
      PROVE  n + 1 \in N
  <2>1. PICK g : Upto(n, g)
    BY <1>2
  <2> DEFINE h == [T \in SUBSET S |-> SumOf(f, g, T)]
  <2>2. \A T \in SUBSET S : Cardinality(T) <= n => h[T] = g[T]
    BY <2>1
  <2>3. ASSUME NEW T \in SUBSET S, Cardinality(T) <= n + 1
        PROVE  h[T] = SumOf(f, h, T)
    <3>1. h[T] = SumOf(f, g, T)
      OBVIOUS
    <3>2. T # {} => h[T \ {Pick(T)}] = g[T \ {Pick(T)}]
      <4>1. T # {} => /\ T \ {Pick(T)} \in SUBSET S /\ Cardinality(T) \in Nat
                      /\ Cardinality(T \ {Pick(T)}) = Cardinality(T) - 1
        <5> HIDE DEF h, Upto, N
        <5>1. QED BY Smaller
      <4> HIDE DEF h, Upto, N
      <4>2. T # {} => Cardinality(T \ {Pick(T)}) <= n
        BY <2>3, <4>1
      <4>3. QED BY <2>2, <4>1, <4>2
    <3> HIDE DEF h
    <3>3. QED BY <3>1, <3>2 DEF SumOf
  <2>4. Upto(n + 1, h)
    BY <2>3
  <2> HIDE DEF h, Upto
  <2>5. QED BY <2>4
<1>3. Cardinality(S) \in Nat
  BY FS_CardinalityType
<1>4. \A n \in Nat : n \in N
  <2> HIDE DEF N
  <2>1. QED BY <1>1, <1>2, Upwards
<1>5. PICK g : Upto(Cardinality(S), g)
  BY <1>3, <1>4
<1> DEFINE h == [T \in SUBSET S |-> SumOf(f, g, T)]
<1>6. \A T \in SUBSET S : h[T] = g[T]
  BY <1>5, FS_Subset
<1>7. ASSUME NEW T \in SUBSET S
      PROVE  SumOf(f, g, T) = SumOf(f, h, T)
  <2>1. T # {} => h[T \ {Pick(T)}] = g[T \ {Pick(T)}]
    BY <1>6, Smaller
  <2> HIDE DEF h
  <2>2. QED BY <2>1 DEF SumOf
<1>8. IsSums(S, f, h)
  BY <1>7 DEF IsSums
<1> HIDE DEF h
<1>9. QED BY <1>8

LEMMA SumBounds ==
  ASSUME NEW S, IsFiniteSet(S), NEW f \in [S -> Nat]
  PROVE  /\ SumFunction(f) \in Nat
         /\ \A x \in S : f[x] <= SumFunction(f)
<1> DEFINE sums == CHOOSE g : IsSums(S, f, g)
<1>1. SumFunction(f) = sums[S]
  <2>1. DOMAIN f = S
    OBVIOUS
  <2>2. QED BY <2>1 DEF SumFunction, SumFunctionOnSet, FoldFunctionOnSet, MapThenFoldSet,
                        IsSums, SumOf, Pick
<1>2. \A T \in SUBSET S : sums[T] = SumOf(f, sums, T)
  <2>1. IsSums(S, f, sums)
    BY SumsExist
  <2> HIDE DEF sums
  <2>2. QED BY <2>1 DEF IsSums
<1> HIDE DEF sums
<1> DEFINE N == {n \in Nat : \A T \in SUBSET S :
                   Cardinality(T) = n => sums[T] \in Nat /\ \A x \in T : f[x] <= sums[T]}
<1>3. 0 \in N
  <2>1. ASSUME NEW T \in SUBSET S, Cardinality(T) = 0
        PROVE  sums[T] \in Nat /\ \A x \in T : f[x] <= sums[T]
    <3>1. T = {}
      BY <2>1, Smaller
    <3>2. sums[T] = 0
      BY <1>2, <3>1 DEF SumOf
    <3>3. QED BY <3>1, <3>2
  <2>2. QED BY <2>1
<1>4. ASSUME NEW n \in Nat, n \in N
      PROVE  n + 1 \in N
  <2>1. ASSUME NEW T \in SUBSET S, Cardinality(T) = n + 1
        PROVE  sums[T] \in Nat /\ \A x \in T : f[x] <= sums[T]
    <3> DEFINE U == T \ {Pick(T)}
    <3>1. T # {}
      BY <2>1, FS_EmptySet
    <3>2. Pick(T) \in T /\ U \in SUBSET S /\ Cardinality(U) = n
      BY <2>1, <3>1, Smaller
    <3>3. sums[U] \in Nat /\ \A x \in U : f[x] <= sums[U]
      BY <1>4, <3>2
    <3>4. sums[T] = f[Pick(T)] + sums[U] /\ f[Pick(T)] \in Nat
      BY <1>2, <3>1, <3>2 DEF SumOf
    <3>5. \A x \in T : f[x] \in Nat /\ (x = Pick(T) \/ x \in U)
      OBVIOUS
    <3> HIDE DEF U
    <3>6. QED BY <3>3, <3>4, <3>5
  <2>2. QED BY <2>1
<1>5. \A n \in Nat : n \in N
  <2> HIDE DEF N
  <2>1. QED BY <1>3, <1>4, Upwards
<1>6. Cardinality(S) \in Nat
  BY FS_CardinalityType
<1>7. QED BY <1>1, <1>5, <1>6

-----------------------------------------------------------------------------
(* Fields and topics.                                                      *)

Value(o, f, x) == IF HasDampers(o) THEN Percent(Carried(f)[x]) ELSE Carried(f)[x]

LEMMA Tables ==
  ASSUME NEW f \in Responses
  PROVE  /\ Origin(f) \in Origins /\ Origin(f)[2] = f.table /\ Origin(f)[1] = f.src
         /\ f.table \in {"3e01", "3e02", "0306", "0316", "0319"}
         /\ f.short \in BOOLEAN
         /\ f # None /\ Origin(f) # None
         /\ HasDampers(Origin(f)) <=> f.table = "0319"
BY SnoopsAssumption DEF Origin, Origins, HasDampers

LEMMA RecordFields ==
  /\ DOMAIN NewRecords = {"heatpump", "blower", "damperpos"}
  /\ DOMAIN NewRecords["heatpump"] = {"coilTemp", "outsideTemp", "stage"}
  /\ DOMAIN NewRecords["blower"] =
       {"blowerRPM", "airFlowCFM", "staticPressure", "heatStage", "elecHeat", "action"}
  /\ DOMAIN NewRecords["damperpos"] = Zones
BY DEF NewRecords

\* What a response carries are fields of its record.
LEMMA Fields ==
  ASSUME NEW f \in Responses
  PROVE  /\ Key(Origin(f)) \in DOMAIN NewRecords
         /\ DOMAIN Carried(f) \subseteq DOMAIN NewRecords[Key(Origin(f))]
         /\ f.table = "3e01" => DOMAIN Carried(f) = {"coilTemp", "outsideTemp"}
         /\ f.table = "3e02" => DOMAIN Carried(f) = {"stage"}
         /\ f.table = "0306" => DOMAIN Carried(f) = {"blowerRPM"}
         /\ f.table = "0316" => DOMAIN Carried(f) = {"heatStage", "airFlowCFM", "staticPressure",
                                                    "elecHeat", "action"}
         /\ f.table = "0319" => DOMAIN Carried(f) = Present(f) /\ Present(f) \subseteq Zones
<1> USE Tables, RecordFields
<1>1. CASE f.table = "3e01"
  <2>1. Carried(f) = [coilTemp |-> f.data.coil, outsideTemp |-> f.data.outside]
    BY <1>1 DEF Carried
  <2>2. Key(Origin(f)) = "heatpump"
    BY <1>1 DEF Key
  <2>3. QED BY <1>1, <2>1, <2>2
<1>2. CASE f.table = "3e02"
  <2>1. Carried(f) = [stage |-> f.data \div 2]
    BY <1>2 DEF Carried
  <2>2. Key(Origin(f)) = "heatpump"
    BY <1>2 DEF Key
  <2>3. QED BY <1>2, <2>1, <2>2
<1>3. CASE f.table = "0306"
  <2>1. Carried(f) = [blowerRPM |-> f.data]
    BY <1>3 DEF Carried
  <2>2. Key(Origin(f)) = "blower"
    BY <1>3 DEF Key
  <2>3. QED BY <1>3, <2>1, <2>2
<1>4. CASE f.table = "0316"
  <2>1. DOMAIN Carried(f) = {"heatStage", "airFlowCFM", "staticPressure", "elecHeat", "action"}
    BY <1>4 DEF Carried
  <2>2. Key(Origin(f)) = "blower"
    BY <1>4 DEF Key
  <2>3. QED BY <1>4, <2>1, <2>2
<1>5. CASE f.table = "0319"
  <2>1. DOMAIN Carried(f) = Present(f) /\ Present(f) \subseteq Zones
    BY <1>5 DEF Carried, Present
  <2>2. Key(Origin(f)) = "damperpos"
    BY <1>5 DEF Key
  <2>3. QED BY <1>5, <2>1, <2>2
<1>6. QED BY <1>1, <1>2, <1>3, <1>4, <1>5

\* No two origins share a field.
LEMMA FieldsApart ==
  ASSUME NEW f \in Responses, NEW g \in Responses, Origin(f) # Origin(g),
         NEW x \in DOMAIN Carried(f), x \in DOMAIN Carried(g)
  PROVE  ~(HasDampers(Origin(f)) <=> HasDampers(Origin(g)))
<1>1. SUFFICES ASSUME f.table = "0319" <=> g.table = "0319" PROVE FALSE
  BY Tables
<1>2. CASE f.table = g.table /\ f.table # "0319"
  BY <1>2, SnoopsAssumption DEF Origin
<1>3. CASE f.table = "0319" /\ g.table = "0319"
  <2>1. f.src # g.src
    BY <1>3 DEF Origin
  <2>2. x \in Present(f) /\ x \in Present(g)
    BY <1>3, Fields
  <2>3. QED BY <1>3, <2>1, <2>2, SnoopsAssumption DEF Present
<1>4. CASE f.table # g.table /\ f.table # "0319" /\ g.table # "0319"
  BY <1>4, Fields, Tables
<1>5. QED BY <1>1, <1>2, <1>3, <1>4

LEMMA KeyIsDampers ==
  ASSUME NEW f \in Responses
  PROVE  Key(Origin(f)) = "damperpos" <=> HasDampers(Origin(f))
BY Tables DEF Key

LEMMA PublishedType ==
  ASSUME NEW f \in Responses, f.table # "0319"
  PROVE  \E n \in Nat : /\ DOMAIN PublishedFields(f.table) = 1 .. n
                        /\ \A i \in 1 .. n : PublishedFields(f.table)[i] \in DOMAIN Carried(f)
<1> USE Tables, Fields
<1>1. CASE f.table = "3e01"
  <2>1. PublishedFields(f.table) = <<"coilTemp", "outsideTemp">>
    BY <1>1 DEF PublishedFields
  <2>2. DOMAIN PublishedFields(f.table) = 1 .. 2
    BY <2>1
  <2>3. \A i \in 1 .. 2 : PublishedFields(f.table)[i] \in DOMAIN Carried(f)
    BY <1>1, <2>1
  <2>4. QED BY <2>2, <2>3
<1>2. CASE f.table = "3e02"
  <2>1. PublishedFields(f.table) = <<"stage">>
    BY <1>2 DEF PublishedFields
  <2>2. DOMAIN PublishedFields(f.table) = 1 .. 1
    BY <2>1
  <2>3. \A i \in 1 .. 1 : PublishedFields(f.table)[i] \in DOMAIN Carried(f)
    BY <1>2, <2>1
  <2>4. QED BY <2>2, <2>3
<1>3. CASE f.table = "0306"
  <2>1. PublishedFields(f.table) = <<"blowerRPM">>
    BY <1>3 DEF PublishedFields
  <2>2. DOMAIN PublishedFields(f.table) = 1 .. 1
    BY <2>1
  <2>3. \A i \in 1 .. 1 : PublishedFields(f.table)[i] \in DOMAIN Carried(f)
    BY <1>3, <2>1
  <2>4. QED BY <2>2, <2>3
<1>4. CASE f.table = "0316"
  <2>1. PublishedFields(f.table) = <<"heatStage", "action", "airFlowCFM", "staticPressure">>
    BY <1>4 DEF PublishedFields
  <2>2. DOMAIN PublishedFields(f.table) = 1 .. 4
    BY <2>1
  <2>3. \A i \in 1 .. 4 : PublishedFields(f.table)[i] \in DOMAIN Carried(f)
    BY <1>4, <2>1
  <2>4. QED BY <2>2, <2>3
<1>5. QED BY <1>1, <1>2, <1>3, <1>4

-----------------------------------------------------------------------------
(* The updates of a callback.                                              *)

\* The caches have the keys, the fields and the topics they began with.
Shape ==
  /\ DOMAIN wsCache = DOMAIN NewRecords
  /\ \A k \in DOMAIN NewRecords : DOMAIN wsCache[k] = DOMAIN NewRecords[k]
  /\ wsCache["damperpos"] \in [Zones -> 0 .. NoDamper - 1]
  /\ DOMAIN mqttCache = Topics

FlowTopics == {"flowWeight"} \X Zones
FlowTopic(z) == <<"flowWeight", z>>

\* The flow through the dampers that f reports, and a zone's share of it.
FlowOf(f) == [z \in Present(f) |-> zoneWeight[z] * Carried(f)[z]]
Share(f, z) == <<FlowOf(f)[z], SumFunction(FlowOf(f))>>

IsWeight(w) == w[2] > 0 /\ w[1] \in 0 .. w[2]

\* u publishes the share of a zone that f reports.
IsFlowUpdate(u, f) ==
  /\ HasDampers(Origin(f)) /\ SumFunction(FlowOf(f)) > 0
  /\ \E z \in Present(f) : u.name = FlowTopic(z) /\ u.value = Share(f, z)

\* r is a cached record of f's kind with what f carries in its place.
RecordOf(r, f) ==
  /\ DOMAIN r = DOMAIN NewRecords[Key(Origin(f))]
  /\ HasDampers(Origin(f)) => r \in [Zones -> 0 .. NoDamper - 1]
  /\ \A x \in DOMAIN r : r[x] = IF x \in DOMAIN Carried(f) THEN Carried(f)[x]
                               ELSE wsCache[Key(Origin(f))][x]

\* u is one of the updates for response f.
UpdateOf(u, f) ==
  /\ u.to \in {"ws", "mqtt", "nothing", "panic"}
  /\ u.to = "ws" => u.name = Key(Origin(f)) /\ RecordOf(u.value, f) /\ ~f.short
  /\ u.to = "mqtt" =>
       \/ IsFlowUpdate(u, f)
       \/ \E x \in DOMAIN Carried(f) :
            /\ IsPublished(Origin(f), x)
            /\ u.name = TopicOf(Origin(f), x) /\ u.value = Value(Origin(f), f, x)

HasRecord(s) == \E u \in Range(s) : u.to = "ws"
HasTopic(s, t) == \E u \in Range(s) : u.to = "mqtt" /\ u.name = t
HasPanic(s) == \E u \in Range(s) : u.to = "panic"

\* s publishes the share of every zone that f reports, if there is any flow.
HasShares(s, f) ==
  ~f.short /\ HasDampers(Origin(f)) /\ SumFunction(FlowOf(f)) > 0 =>
    \A z \in Present(f) : HasTopic(s, FlowTopic(z))

LEMMA RecordIs ==
  ASSUME Shape, NEW f \in Responses
  PROVE  RecordOf(Record(f), f)
<1> DEFINE k == Key(Origin(f))
<1>1. /\ DOMAIN Record(f) = DOMAIN NewRecords[k]
      /\ \A x \in DOMAIN Record(f) :
           Record(f)[x] = IF x \in DOMAIN Carried(f) THEN Carried(f)[x] ELSE wsCache[k][x]
  BY Fields DEF Shape, Record, Merge
<1>2. ASSUME HasDampers(Origin(f)) PROVE Record(f) \in [Zones -> 0 .. NoDamper - 1]
  <2>1. k = "damperpos" /\ f.table = "0319" /\ DOMAIN Carried(f) = Present(f)
    BY <1>2, Tables, Fields, KeyIsDampers
  <2>2. Carried(f) = [z \in Present(f) |-> f.data[z]]
    BY <2>1 DEF Carried
  <2>3. \A z \in Present(f) : f.data[z] \in 0 .. NoDamper - 1
    <3>1. f.data \in Seq(0 .. 255)
      BY <2>1, SnoopsAssumption
    <3>2. \A z \in DOMAIN f.data : f.data[z] \in 0 .. 255
      <4>1. DOMAIN f.data = 1 .. Len(f.data)
        BY <3>1, LenProperties
      <4>2. QED BY <3>1, <4>1, ElementOfSeq
    <3>3. QED BY <3>2 DEF Present, NoDamper
  <2>4. Record(f) = [z \in Zones |-> IF z \in DOMAIN Carried(f) THEN Carried(f)[z]
                                    ELSE wsCache[k][z]]
    BY <2>1, RecordFields DEF Shape, Record, Merge
  <2>5. \A z \in Zones : wsCache[k][z] \in 0 .. NoDamper - 1
    BY <2>1 DEF Shape
  <2>6. QED BY <2>1, <2>2, <2>3, <2>4, <2>5
<1>3. QED BY <1>1, <1>2 DEF RecordOf

LEMMA ForPresentElements ==
  ASSUME NEW f \in Responses, NEW m
  PROVE  /\ IsSeq(ForPresent(f, m))
         /\ \A u \in Range(ForPresent(f, m)) :
              u = Skip \/ \E z \in Present(f) : u = m[z]
         /\ \A z \in Present(f) : m[z] \in Range(ForPresent(f, m))
<1> DEFINE s == ForPresent(f, m)
<1>1. s = [z \in 1 .. NZones |-> s[z]]
  BY DEF ForPresent, Zones
<1>2. \A z \in Zones : s[z] = IF z \in Present(f) THEN m[z] ELSE Skip
  BY DEF ForPresent
<1>3. NZones \in Nat /\ Present(f) \subseteq Zones
  BY SnoopsAssumption DEF Present
<1> HIDE DEF s
<1>4. IsSeq(s) /\ \A u : u \in Range(s) <=> \E z \in Zones : u = s[z]
  BY <1>1, <1>3, FunctionElements DEF Zones
<1>5. QED BY <1>2, <1>3, <1>4 DEF s

LEMMA DamperUpdates ==
  ASSUME Shape, NEW f \in Responses, f.table = "0319"
  PROVE  /\ IsSeq(Callback(f))
         /\ \A u \in Range(Callback(f)) : UpdateOf(u, f)
         /\ f.short => HasPanic(Callback(f))
         /\ ~f.short => HasRecord(Callback(f))
         /\ HasShares(Callback(f), f)
         /\ \A x \in DOMAIN Carried(f) :
              IsPublished(Origin(f), x) => HasTopic(Callback(f), TopicOf(Origin(f), x))
<1> DEFINE m == [z \in Present(f) |-> Mqtt(<<"damperPos", z>>, Percent(Record(f)[z]))]
           positions == ForPresent(f, m)
           weights == FlowWeights(f, Record(f))
           rest == IF f.short THEN <<Panic>> ELSE weights \o <<Ws("damperpos", Record(f))>>
<1>1. /\ Key(Origin(f)) = "damperpos" /\ HasDampers(Origin(f))
      /\ DOMAIN Carried(f) = Present(f) /\ f.short \in BOOLEAN
  BY Tables, Fields, KeyIsDampers
<1>2. Callback(f) = positions \o rest
  BY <1>1 DEF Callback, DamperCallback
<1>3. ASSUME NEW z \in Present(f)
      PROVE  /\ m[z].to = "mqtt" /\ m[z].name = TopicOf(Origin(f), z)
             /\ m[z].value = Value(Origin(f), f, z) /\ IsPublished(Origin(f), z)
  <2>1. Record(f)[z] = Carried(f)[z]
    BY <1>1, RecordIs, Fields DEF RecordOf
  <2>2. QED BY <1>1, <2>1 DEF Mqtt, TopicOf, Value, IsPublished
<1>4. /\ IsSeq(positions)
      /\ \A u \in Range(positions) : u = Skip \/ \E z \in Present(f) : u = m[z]
      /\ \A z \in Present(f) : m[z] \in Range(positions)
  <2> HIDE DEF m
  <2>1. QED BY ForPresentElements
<1>5. \A u \in Range(positions) : UpdateOf(u, f)
  <2> HIDE DEF m
  <2>1. UpdateOf(Skip, f)
    BY DEF UpdateOf, Skip
  <2>2. ASSUME NEW z \in Present(f) PROVE UpdateOf(m[z], f)
    BY <1>1, <1>3 DEF UpdateOf
  <2>3. QED BY <1>4, <2>1, <2>2
<1>6. /\ IsSeq(weights)
      /\ \A u \in Range(weights) : u = Skip \/ (u.to = "mqtt" /\ IsFlowUpdate(u, f))
      /\ SumFunction(FlowOf(f)) > 0 =>
           \A z \in Present(f) : \E u \in Range(weights) : u.to = "mqtt" /\ u.name = FlowTopic(z)
  <2> DEFINE total == SumFunction(FlowOf(f))
             w == [z \in Present(f) |-> Mqtt(<<"flowWeight", z>>, <<FlowOf(f)[z], total>>)]
  <2>1. Flow(f, Record(f)) = FlowOf(f)
    <3>1. \A z \in Present(f) : Record(f)[z] = Carried(f)[z]
      BY <1>1, RecordIs, Fields DEF RecordOf
    <3>2. QED BY <3>1 DEF Flow, FlowOf
  <2>2. \A z \in Present(f) : /\ w[z].to = "mqtt" /\ w[z].name = FlowTopic(z)
                              /\ w[z].value = Share(f, z)
    BY DEF Mqtt, FlowTopic, Share
  <2>3. Weights(f, Record(f)) = ForPresent(f, w)
    BY <2>1 DEF Weights
  <2>4. weights = IF total > 0 THEN ForPresent(f, w) ELSE <<>>
    BY <2>1, <2>3 DEF FlowWeights
  <2> HIDE DEF w, weights
  <2>5. CASE total > 0
    <3>1. /\ weights = ForPresent(f, w)
          /\ \A z \in Present(f) : IsFlowUpdate(w[z], f)
      BY <1>1, <2>2, <2>4, <2>5 DEF IsFlowUpdate
    <3>2. QED BY <2>2, <3>1, ForPresentElements
  <2>6. CASE ~(total > 0)
    BY <2>4, <2>6, EmptyElements
  <2>7. QED BY <2>5, <2>6
<1>7. UpdateOf(Panic, f) /\ Panic.to = "panic"
  BY DEF UpdateOf, Panic
<1>8. ~f.short => /\ UpdateOf(Ws("damperpos", Record(f)), f)
                  /\ Ws("damperpos", Record(f)).to = "ws"
  BY <1>1, RecordIs DEF UpdateOf, Ws
<1>9. /\ IsSeq(rest) /\ \A u \in Range(rest) : UpdateOf(u, f)
      /\ f.short => HasPanic(rest)
      /\ ~f.short => HasRecord(rest)
      /\ HasShares(rest, f)
  <2>1. CASE f.short
    BY <1>7, <2>1, SingletonElements DEF HasPanic, HasShares
  <2>2. CASE ~f.short
    <3>1. rest = weights \o <<Ws("damperpos", Record(f))>>
      BY <2>2
    <3>2. \A u \in Range(weights) : UpdateOf(u, f)
      BY <1>6 DEF UpdateOf, Skip
    <3>3. IsSeq(rest) /\ Range(rest) = Range(weights) \cup {Ws("damperpos", Record(f))}
      <4> HIDE DEF weights, rest
      <4>1. QED BY <1>6, <3>1, ConcatElements, SingletonElements
    <3>4. HasShares(rest, f)
      <4> HIDE DEF weights, rest
      <4>1. QED BY <1>6, <3>3 DEF HasShares, HasTopic
    <3>5. QED BY <1>8, <2>2, <3>2, <3>3, <3>4 DEF HasRecord
  <2>3. QED BY <1>1, <2>1, <2>2
<1>10. IsSeq(Callback(f)) /\ Range(Callback(f)) = Range(positions) \cup Range(rest)
  <2> HIDE DEF positions, rest
  <2>1. QED BY <1>2, <1>4, <1>9, ConcatElements
<1> HIDE DEF positions, rest, m
<1>11. \A x \in Present(f) : HasTopic(Callback(f), TopicOf(Origin(f), x))
  BY <1>3, <1>4, <1>10 DEF HasTopic
<1>12. HasShares(Callback(f), f)
  BY <1>9, <1>10 DEF HasShares, HasTopic
<1>13. QED BY <1>1, <1>5, <1>9, <1>10, <1>11, <1>12 DEF HasPanic, HasRecord

LEMMA SensorUpdates ==
  ASSUME Shape, NEW f \in Responses, f.table # "0319"
  PROVE  /\ IsSeq(Callback(f))
         /\ \A u \in Range(Callback(f)) : UpdateOf(u, f)
         /\ f.short => HasPanic(Callback(f))
         /\ ~f.short => HasRecord(Callback(f))
         /\ HasShares(Callback(f), f)
         /\ ~f.short => \A x \in DOMAIN Carried(f) :
              IsPublished(Origin(f), x) => HasTopic(Callback(f), TopicOf(Origin(f), x))
<1> DEFINE fields == PublishedFields(f.table)
           r == Ws(Key(Origin(f)), Record(f))
           topics == [i \in DOMAIN fields |-> Mqtt(<<fields[i]>>, Record(f)[fields[i]])]
<1>1. ~HasDampers(Origin(f)) /\ Origin(f)[2] = f.table /\ f.short \in BOOLEAN
  BY Tables
<1>2. /\ f.short => Callback(f) = <<Panic>>
      /\ ~f.short => Callback(f) = <<r>> \o topics
  BY <1>1 DEF Callback, SensorCallback
<1>3. HasShares(Callback(f), f)
  BY <1>1 DEF HasShares
<1>4. CASE f.short
  <2>1. UpdateOf(Panic, f) /\ Panic.to = "panic"
    BY DEF UpdateOf, Panic
  <2>2. QED BY <1>2, <1>3, <1>4, <2>1, SingletonElements DEF HasPanic
<1>5. CASE ~f.short
  <2>1. UpdateOf(r, f) /\ r.to = "ws"
    BY <1>5, RecordIs DEF UpdateOf, Ws
  <2>2. PICK n \in Nat : /\ DOMAIN fields = 1 .. n
                         /\ \A i \in 1 .. n : fields[i] \in DOMAIN Carried(f)
    BY PublishedType
  <2>3. \A i \in 1 .. n : /\ topics[i].to = "mqtt" /\ topics[i].name = <<fields[i]>>
                          /\ topics[i].value = Record(f)[fields[i]]
    BY <2>2 DEF Mqtt
  <2>4. \A i \in 1 .. n : Record(f)[fields[i]] = Carried(f)[fields[i]]
    BY <2>2, RecordIs, Fields DEF RecordOf
  <2>5. IsSeq(topics) /\ \A u : u \in Range(topics) <=> \E i \in 1 .. n : u = topics[i]
    <3>1. topics = [i \in 1 .. n |-> topics[i]]
      BY <2>2
    <3> HIDE DEF topics
    <3>2. QED BY <3>1, FunctionElements
  <2> HIDE DEF topics, r
  <2>6. ASSUME NEW i \in 1 .. n PROVE UpdateOf(topics[i], f)
    <3>1. IsPublished(Origin(f), fields[i])
      BY <1>1, <2>2 DEF IsPublished
    <3>2. TopicOf(Origin(f), fields[i]) = <<fields[i]>>
      BY <1>1 DEF TopicOf
    <3>3. topics[i].value = Value(Origin(f), f, fields[i])
      BY <1>1, <2>3, <2>4 DEF Value
    <3>4. QED BY <2>2, <2>3, <3>1, <3>2, <3>3 DEF UpdateOf
  <2>7. IsSeq(Callback(f)) /\ Range(Callback(f)) = {r} \cup Range(topics)
    <3>1. Callback(f) = <<r>> \o topics
      BY <1>2, <1>5 DEF r, topics
    <3>2. IsSeq(<<r>>) /\ Range(<<r>>) = {r}
      BY SingletonElements
    <3>3. QED BY <2>5, <3>1, <3>2, ConcatElements
  <2>8. ASSUME NEW x \in DOMAIN Carried(f), IsPublished(Origin(f), x)
        PROVE  HasTopic(Callback(f), TopicOf(Origin(f), x))
    <3>1. PICK i \in 1 .. n : fields[i] = x
      BY <1>1, <2>2, <2>8 DEF IsPublished
    <3>2. topics[i].to = "mqtt" /\ topics[i].name = TopicOf(Origin(f), x)
      BY <1>1, <2>3, <3>1 DEF TopicOf
    <3>3. QED BY <2>5, <2>7, <3>2 DEF HasTopic
  <2>9. HasRecord(Callback(f))
    BY <2>1, <2>7 DEF HasRecord
  <2>10. QED BY <1>3, <1>5, <2>1, <2>5, <2>6, <2>7, <2>8, <2>9
<1>6. QED BY <1>1, <1>4, <1>5

LEMMA CallbackUpdates ==
  ASSUME Shape, NEW f \in Responses
  PROVE  /\ IsSeq(Callback(f)) /\ Callback(f) # <<>>
         /\ \A u \in Range(Callback(f)) : UpdateOf(u, f)
         /\ f.short => HasPanic(Callback(f))
         /\ ~f.short => HasRecord(Callback(f))
         /\ HasShares(Callback(f), f)
         /\ ~f.short => \A x \in DOMAIN Carried(f) :
              IsPublished(Origin(f), x) => HasTopic(Callback(f), TopicOf(Origin(f), x))
<1>1. f.short \in BOOLEAN
  BY Tables
<1>2. CASE f.table = "0319"
  <2>1. Callback(f) # <<>>
    BY <1>1, <1>2, DamperUpdates, EmptyElements DEF HasPanic, HasRecord
  <2>2. QED BY <1>2, <2>1, DamperUpdates
<1>3. CASE f.table # "0319"
  <2>1. Callback(f) # <<>>
    BY <1>1, <1>3, SensorUpdates, EmptyElements DEF HasPanic, HasRecord
  <2>2. QED BY <1>3, <2>1, SensorUpdates
<1>4. QED BY <1>2, <1>3

-----------------------------------------------------------------------------
(* The topics of the fields.                                               *)

LEMMA FieldTopics ==
  ASSUME NEW f \in Responses, NEW x \in DOMAIN Carried(f)
  PROVE  TopicOf(Origin(f), x) \in Topics /\ TopicOf(Origin(f), x) \notin FlowTopics
<1>1. CASE HasDampers(Origin(f))
  <2>1. x \in Zones /\ TopicOf(Origin(f), x) = <<"damperPos", x>>
    BY <1>1, Tables, Fields DEF TopicOf
  <2>2. QED BY <2>1 DEF Topics, FlowTopics
<1>2. CASE ~HasDampers(Origin(f))
  <2>1. TopicOf(Origin(f), x) = <<x>>
    BY <1>2 DEF TopicOf
  <2>2. x \in {"coilTemp", "outsideTemp", "stage", "blowerRPM", "heatStage", "action",
               "airFlowCFM", "staticPressure", "elecHeat"}
    BY <1>2, Tables, Fields
  <2>3. <<x>> \in Topics
    BY <2>2 DEF Topics
  <2>4. \A t \in FlowTopics : DOMAIN t = 1 .. 2
    BY DEF FlowTopics
  <2>5. DOMAIN <<x>> = 1 .. 1 /\ 1 .. 1 # 1 .. 2
    OBVIOUS
  <2>6. QED BY <2>1, <2>3, <2>4, <2>5
<1>3. QED BY <1>1, <1>2

LEMMA TopicsApart ==
  ASSUME NEW f \in Responses, NEW g \in Responses,
         NEW x \in DOMAIN Carried(f), NEW y \in DOMAIN Carried(g),
         TopicOf(Origin(f), x) = TopicOf(Origin(g), y)
  PROVE  Origin(f) = Origin(g) /\ x = y
<1>1. HasDampers(Origin(f)) <=> HasDampers(Origin(g))
  <2>1. \A a, b : DOMAIN <<a>> = 1 .. 1 /\ DOMAIN <<"damperPos", b>> = 1 .. 2
    OBVIOUS
  <2>2. 1 .. 1 # 1 .. 2
    OBVIOUS
  <2>3. \A a, b : <<a>> # <<"damperPos", b>>
    BY <2>1, <2>2
  <2>4. QED BY <2>3 DEF TopicOf
<1>2. x = y
  <2>1. \A a, b : <<a>> = <<b>> => a = b
    OBVIOUS
  <2>2. \A a, b : <<"damperPos", a>> = <<"damperPos", b>> => a = b
    OBVIOUS
  <2>3. CASE HasDampers(Origin(f))
    <3>1. <<"damperPos", x>> = <<"damperPos", y>>
      BY <1>1, <2>3 DEF TopicOf
    <3>2. QED BY <2>2, <3>1
  <2>4. CASE ~HasDampers(Origin(f))
    <3>1. <<x>> = <<y>>
      BY <1>1, <2>4 DEF TopicOf
    <3>2. QED BY <2>1, <3>1
  <2>5. QED BY <2>3, <2>4
<1>3. QED BY <1>1, <1>2, FieldsApart

LEMMA FlowTopicIs ==
  ASSUME NEW z \in Zones
  PROVE  FlowTopic(z) \in Topics /\ FlowTopic(z) \in FlowTopics
BY DEF FlowTopic, FlowTopics, Topics

LEMMA FlowTopicsApart ==
  ASSUME NEW y, NEW z, FlowTopic(y) = FlowTopic(z)
  PROVE  y = z
BY DEF FlowTopic

\* An update is about a flow or about a field, not about both.
LEMMA FlowUpdates ==
  ASSUME NEW f \in Responses, NEW u, UpdateOf(u, f), u.to = "mqtt"
  PROVE  u.name \in FlowTopics <=> IsFlowUpdate(u, f)
<1>1. ASSUME u.name \in FlowTopics PROVE IsFlowUpdate(u, f)
  BY <1>1, FieldTopics DEF UpdateOf
<1>2. ASSUME IsFlowUpdate(u, f) PROVE u.name \in FlowTopics
  <2>1. PICK z \in Present(f) : u.name = FlowTopic(z)
    BY <1>2 DEF IsFlowUpdate
  <2>2. z \in Zones
    BY DEF Present
  <2>3. QED BY <2>1, <2>2, FlowTopicIs
<1>3. QED BY <1>1, <1>2

\* A share of a positive flow is a weight.
LEMMA SharesAreWeights ==
  ASSUME NEW f \in Responses, HasDampers(Origin(f)), SumFunction(FlowOf(f)) > 0,
         NEW z \in Present(f)
  PROVE  IsWeight(Share(f, z))
<1>1. f.table = "0319" /\ Present(f) \subseteq Zones
  BY Tables, Fields
<1>2. IsFiniteSet(Present(f))
  <2>1. NZones \in Nat
    BY SnoopsAssumption
  <2>2. IsFiniteSet(Zones)
    BY <2>1, FS_Interval DEF Zones
  <2>3. QED BY <1>1, <2>2, FS_Subset
<1>3. ASSUME NEW y \in Present(f) PROVE zoneWeight[y] * Carried(f)[y] \in Nat
  <2>1. Carried(f) = [x \in Present(f) |-> f.data[x]]
    BY <1>1 DEF Carried
  <2>2. f.data \in Seq(0 .. 255) /\ y \in DOMAIN f.data
    BY <1>1, SnoopsAssumption DEF Present
  <2>3. f.data[y] \in 0 .. 255
    <3>1. DOMAIN f.data = 1 .. Len(f.data)
      BY <2>2, LenProperties
    <3>2. QED BY <2>2, <3>1, ElementOfSeq
  <2>4. zoneWeight[y] \in Nat
    BY <1>1, SnoopsAssumption
  <2>5. Carried(f)[y] \in Nat
    BY <2>1, <2>3
  <2>6. QED BY <2>4, <2>5
<1>4. FlowOf(f) \in [Present(f) -> Nat]
  BY <1>3 DEF FlowOf
<1>5. /\ SumFunction(FlowOf(f)) \in Nat /\ FlowOf(f)[z] \in Nat
      /\ FlowOf(f)[z] <= SumFunction(FlowOf(f))
  BY <1>2, <1>4, SumBounds
<1>6. QED BY <1>5 DEF Share, IsWeight

-----------------------------------------------------------------------------
(* The invariant.                                                          *)

\* A response is kept under its origin.
HeardInv ==
  /\ heard \in [Origins -> Responses \cup {None}]
  /\ \A o \in Origins : heard[o] # None => heard[o] \in Responses /\ Origin(heard[o]) = o

\* What the callback has still to do is about the response it handles.
TodoInv ==
  /\ running \in BOOLEAN
  /\ handling \in Origins \cup {None}
  /\ fresh \in SUBSET Origins
  /\ handling = None <=> todo = <<>>
  /\ IsSeq(todo)
  /\ handling # None =>
       /\ heard[handling] # None
       /\ \A u \in Range(todo) : UpdateOf(u, heard[handling])
       /\ running /\ heard[handling].short => HasPanic(todo)

\* What it has not to do any more has been done.
RecordDone(o, x) ==
  \/ wsCache[Key(o)][x] = Carried(heard[o])[x]
  \/ o = handling /\ HasRecord(todo)

TopicDone(o, x) ==
  \/ mqttCache[TopicOf(o, x)] = Value(o, heard[o], x)
  \/ mqttCache[TopicOf(o, x)] = None /\ o \notin fresh
  \/ o = handling /\ HasTopic(todo, TopicOf(o, x))

DoneInv ==
  running => \A o \in Origins : heard[o] # None =>
    /\ o # handling => ~heard[o].short
    /\ ~heard[o].short => \A x \in DOMAIN Carried(heard[o]) :
         RecordDone(o, x) /\ (IsPublished(o, x) => TopicDone(o, x))

Inv == Shape /\ HeardInv /\ TodoInv /\ DoneInv

LEMMA InitInv == Init => Inv
<1>1. SUFFICES ASSUME Init PROVE Inv
  OBVIOUS
<1>2. Shape
  <2>1. wsCache["damperpos"] = [z \in Zones |-> 0]
    BY <1>1 DEF Init, NewRecords
  <2>2. wsCache["damperpos"] \in [Zones -> 0 .. NoDamper - 1]
    BY <2>1 DEF NoDamper
  <2>3. QED BY <1>1, <2>2 DEF Init, Shape
<1>3. HeardInv /\ DoneInv
  BY <1>1 DEF Init, HeardInv, DoneInv
<1>4. TodoInv
  BY <1>1, EmptyElements DEF Init, TodoInv
<1>5. QED BY <1>2, <1>3, <1>4 DEF Inv

LEMMA HandleFrameInv ==
  ASSUME Inv, NEW f \in Responses, HandleFrame(f)
  PROVE  Inv'
<1> DEFINE h == Origin(f)
<1>1. /\ Shape /\ HeardInv /\ TodoInv /\ DoneInv
      /\ h \in Origins /\ h # None /\ f # None /\ f.short \in BOOLEAN
  BY Tables DEF Inv
<1>2. /\ IsSeq(Callback(f)) /\ Callback(f) # <<>>
      /\ \A u \in Range(Callback(f)) : UpdateOf(u, f)
      /\ f.short => HasPanic(Callback(f))
      /\ ~f.short => HasRecord(Callback(f))
      /\ ~f.short => \A x \in DOMAIN Carried(f) :
           IsPublished(h, x) => HasTopic(Callback(f), TopicOf(h, x))
  BY <1>1, CallbackUpdates
<1>3. /\ running /\ todo = <<>> /\ todo' = Callback(f) /\ handling' = h
      /\ heard' = [heard EXCEPT ![h] = f] /\ fresh' = fresh \cup {h}
      /\ wsCache' = wsCache /\ mqttCache' = mqttCache /\ running' = running
  BY <1>2 DEF HandleFrame
<1>4. heard'[h] = f /\ \A o \in Origins : o # h => heard'[o] = heard[o]
  BY <1>1, <1>3 DEF HeardInv
<1>5. Shape'
  BY <1>1, <1>3 DEF Shape
<1>6. HeardInv'
  BY <1>1, <1>3, <1>4 DEF HeardInv
<1>7. \A u : UpdateOf(u, f)' <=> UpdateOf(u, f)
  BY <1>3 DEF UpdateOf, RecordOf
<1>8. TodoInv'
  <2>1. \A u \in Range(todo') : UpdateOf(u, f)'
    BY <1>2, <1>3, <1>7
  <2>2. f.short => HasPanic(todo')
    BY <1>2, <1>3
  <2>3. fresh' \in SUBSET Origins
    BY <1>1, <1>3 DEF TodoInv
  <2>4. IsSeq(todo') /\ todo' # <<>>
    BY <1>2, <1>3
  <2>5. QED BY <1>1, <1>3, <1>4, <2>1, <2>2, <2>3, <2>4 DEF TodoInv
<1>9. DoneInv'
  <2>1. SUFFICES ASSUME NEW o \in Origins, heard'[o] # None
                 PROVE  /\ o # h => ~heard'[o].short
                        /\ ~heard'[o].short => \A x \in DOMAIN Carried(heard'[o]) :
                             RecordDone(o, x)' /\ (IsPublished(o, x) => TopicDone(o, x)')
    BY <1>3 DEF DoneInv
  <2>2. CASE o = h
    BY <1>2, <1>3, <1>4, <2>2 DEF RecordDone, TopicDone
  <2>3. CASE o # h
    <3>1. heard'[o] = heard[o] /\ handling = None /\ o # None
      BY <1>1, <1>3, <1>4, <2>3, Tables DEF TodoInv, Origins
    <3>2. /\ ~heard[o].short
          /\ \A x \in DOMAIN Carried(heard[o]) :
               RecordDone(o, x) /\ (IsPublished(o, x) => TopicDone(o, x))
      BY <1>1, <1>3, <2>1, <3>1 DEF DoneInv
    <3>3. ASSUME NEW x \in DOMAIN Carried(heard[o]) PROVE RecordDone(o, x)'
      BY <1>3, <3>1, <3>2 DEF RecordDone
    <3>4. ASSUME NEW x \in DOMAIN Carried(heard[o]), IsPublished(o, x) PROVE TopicDone(o, x)'
      BY <1>3, <2>3, <3>1, <3>2, <3>4 DEF TopicDone
    <3>5. QED BY <3>1, <3>2, <3>3, <3>4
  <2>4. QED BY <2>2, <2>3
<1>10. QED BY <1>5, <1>6, <1>8, <1>9 DEF Inv

LEMMA UpdateInv ==
  ASSUME Inv, Update
  PROVE  Inv'
<1>1. /\ Shape /\ HeardInv /\ TodoInv /\ DoneInv /\ running /\ todo # <<>>
  BY DEF Inv, Update
<1>2. PICK h \in Origins, g \in Responses :
        /\ h = handling /\ g = heard[handling] /\ Origin(g) = h /\ h # None
        /\ \A v \in Range(todo) : UpdateOf(v, g)
        /\ g.short \in BOOLEAN /\ g.short => HasPanic(todo)
  BY <1>1, Tables DEF TodoInv, HeardInv
<1>u. PICK u : u = Head(todo)
  OBVIOUS
<1>3. /\ IsSeq(todo') /\ Range(todo) = {u} \cup Range(todo')
      /\ todo' = <<>> => Range(todo') = {}
  BY <1>1, <1>u, TailElements DEF TodoInv, Update
<1>4. /\ UpdateOf(u, g)
      /\ \A v \in Range(todo') : UpdateOf(v, g)
  BY <1>2, <1>3
<1>5. /\ handling' = (IF todo' = <<>> THEN None ELSE h)
      /\ heard' = heard /\ fresh' = fresh
      /\ running' = (u.to # "panic")
      /\ wsCache' = IF u.to = "ws" THEN [wsCache EXCEPT ![u.name] = u.value] ELSE wsCache
      /\ mqttCache' = IF u.to = "mqtt" THEN [mqttCache EXCEPT ![u.name] = u.value] ELSE mqttCache
  BY <1>2, <1>u DEF Update
<1>6. /\ Key(h) \in DOMAIN NewRecords
      /\ DOMAIN Carried(g) \subseteq DOMAIN NewRecords[Key(h)]
  BY <1>2, Fields
\* The record, after a step that updates it and after one that does not.
<1>7. u.to = "ws" => /\ wsCache'[Key(h)] = u.value /\ RecordOf(u.value, g) /\ ~g.short
                     /\ \A k \in DOMAIN NewRecords : k # Key(h) => wsCache'[k] = wsCache[k]
                     /\ DOMAIN wsCache' = DOMAIN NewRecords
  BY <1>1, <1>2, <1>4, <1>5, <1>6 DEF UpdateOf, Shape
<1>8. u.to # "ws" => wsCache' = wsCache
  BY <1>5
<1>9. u.to # "mqtt" => mqttCache' = mqttCache
  BY <1>5
<1>10. u.to = "mqtt" => /\ u.name \in DOMAIN mqttCache => mqttCache'[u.name] = u.value
                        /\ \A t \in Topics : t # u.name => mqttCache'[t] = mqttCache[t]
  BY <1>1, <1>5 DEF Shape
<1>11. Shape'
  <2>1. DOMAIN mqttCache' = Topics
    BY <1>1, <1>5 DEF Shape
  <2>2. CASE u.to = "ws"
    <3>1. \A k \in DOMAIN NewRecords : DOMAIN wsCache'[k] = DOMAIN NewRecords[k]
      BY <1>1, <1>2, <1>7, <2>2 DEF Shape, RecordOf
    <3>2. wsCache'["damperpos"] \in [Zones -> 0 .. NoDamper - 1]
      BY <1>1, <1>2, <1>7, <2>2, KeyIsDampers, RecordFields DEF Shape, RecordOf
    <3>3. QED BY <1>7, <2>1, <2>2, <3>1, <3>2 DEF Shape
  <2>3. CASE u.to # "ws"
    BY <1>1, <1>8, <2>1, <2>3 DEF Shape
  <2>4. QED BY <2>2, <2>3
<1>12. HeardInv'
  BY <1>1, <1>5 DEF HeardInv
\* What is still to do is still about the response.
<1>13. ASSUME NEW v \in Range(todo') PROVE UpdateOf(v, g)'
  <2>1. CASE u.to # "ws"
    BY <1>4, <1>8, <2>1 DEF UpdateOf, RecordOf
  <2>2. CASE u.to = "ws"
    <3>1. \A x \in DOMAIN u.value :
            x \notin DOMAIN Carried(g) => wsCache'[Key(h)][x] = wsCache[Key(h)][x]
      BY <1>2, <1>7, <2>2 DEF RecordOf
    <3>2. ASSUME RecordOf(v.value, g) PROVE RecordOf(v.value, g)'
      BY <1>2, <1>7, <2>2, <3>1, <3>2 DEF RecordOf
    <3>3. QED BY <1>4, <3>2 DEF UpdateOf
  <2>3. QED BY <2>1, <2>2
<1>14. TodoInv'
  <2>1. running' \in BOOLEAN /\ handling' \in Origins \cup {None} /\ fresh' \in SUBSET Origins
    BY <1>1, <1>2, <1>5 DEF TodoInv
  <2>2. handling' = None <=> todo' = <<>>
    BY <1>2, <1>5
  <2>3. IsSeq(todo')
    BY <1>3
  <2>4. running' /\ g.short => HasPanic(todo')
    BY <1>2, <1>3, <1>5 DEF HasPanic
  <2>5. handling' # None => handling' = h /\ heard'[h] = g
    BY <1>2, <1>5
  <2>6. g # None
    BY <1>2, Tables
  <2>7. QED BY <1>13, <2>1, <2>2, <2>3, <2>4, <2>5, <2>6 DEF TodoInv
\* What is to do no more has been done.
<1>15. ASSUME NEW o \in Origins, o # h, heard[o] # None,
              NEW x \in DOMAIN Carried(heard[o]), wsCache[Key(o)][x] = Carried(heard[o])[x]
       PROVE  wsCache'[Key(o)][x] = Carried(heard[o])[x]
  <2>1. heard[o] \in Responses /\ Origin(heard[o]) = o
    BY <1>1, <1>15 DEF HeardInv
  <2>2. Key(o) \in DOMAIN NewRecords /\ x \in DOMAIN NewRecords[Key(o)]
    BY <2>1, Fields
  <2>3. CASE u.to = "ws" /\ Key(o) = Key(h)
    <3>1. x \notin DOMAIN Carried(g)
      BY <1>2, <1>15, <2>1, <2>3, FieldsApart, KeyIsDampers
    <3>2. u.value[x] = wsCache[Key(h)][x]
      BY <1>2, <1>7, <2>2, <2>3, <3>1 DEF RecordOf
    <3>3. QED BY <1>7, <1>15, <2>3, <3>2
  <2>4. CASE u.to = "ws" /\ Key(o) # Key(h)
    BY <1>7, <1>15, <2>2, <2>4
  <2>5. CASE u.to # "ws"
    BY <1>8, <1>15, <2>5
  <2>6. QED BY <2>3, <2>4, <2>5
<1>16. ASSUME NEW x \in DOMAIN Carried(g), ~g.short, RecordDone(h, x)
       PROVE  \/ wsCache'[Key(h)][x] = Carried(g)[x]
              \/ todo' # <<>> /\ HasRecord(todo')
  <2>1. CASE u.to = "ws"
    BY <1>2, <1>6, <1>7, <2>1 DEF RecordOf
  <2>2. CASE u.to # "ws"
    BY <1>2, <1>3, <1>8, <1>16, <2>2 DEF RecordDone, HasRecord
  <2>3. QED BY <2>1, <2>2
<1>17. ASSUME NEW o \in Origins, heard[o] # None,
              NEW x \in DOMAIN Carried(heard[o]),
              mqttCache[TopicOf(o, x)] = Value(o, heard[o], x)
                \/ (mqttCache[TopicOf(o, x)] = None /\ o \notin fresh)
       PROVE  mqttCache'[TopicOf(o, x)] = Value(o, heard[o], x)
                \/ (mqttCache'[TopicOf(o, x)] = None /\ o \notin fresh)
  <2>1. heard[o] \in Responses /\ Origin(heard[o]) = o
    BY <1>1, <1>17 DEF HeardInv
  <2>2. TopicOf(o, x) \in Topics /\ TopicOf(o, x) \notin FlowTopics
    BY <2>1, FieldTopics
  <2>3. CASE u.to = "mqtt" /\ TopicOf(o, x) = u.name
    <3>1. PICK y \in DOMAIN Carried(g) : u.name = TopicOf(h, y) /\ u.value = Value(h, g, y)
      BY <1>2, <1>4, <2>2, <2>3, FlowUpdates DEF UpdateOf
    <3>2. o = h /\ x = y
      BY <1>2, <2>1, <2>3, <3>1, TopicsApart
    <3>3. u.name \in DOMAIN mqttCache
      BY <1>1, <2>2, <2>3 DEF Shape
    <3>4. QED BY <1>2, <1>10, <2>3, <3>1, <3>2, <3>3
  <2>4. CASE u.to = "mqtt" /\ TopicOf(o, x) # u.name
    BY <1>10, <1>17, <2>2, <2>4
  <2>5. CASE u.to # "mqtt"
    BY <1>9, <1>17, <2>5
  <2>6. QED BY <2>3, <2>4, <2>5
<1>18. ASSUME NEW x \in DOMAIN Carried(g), HasTopic(todo, TopicOf(h, x))
       PROVE  \/ mqttCache'[TopicOf(h, x)] = Value(h, g, x)
              \/ todo' # <<>> /\ HasTopic(todo', TopicOf(h, x))
  <2>1. CASE u.to = "mqtt" /\ u.name = TopicOf(h, x)
    <3>1. u.name \in Topics /\ u.name \notin FlowTopics
      BY <1>2, <2>1, FieldTopics
    <3>2. PICK y \in DOMAIN Carried(g) : u.name = TopicOf(h, y) /\ u.value = Value(h, g, y)
      BY <1>2, <1>4, <2>1, <3>1, FlowUpdates DEF UpdateOf
    <3>3. TopicOf(Origin(g), x) = TopicOf(Origin(g), y)
      BY <1>2, <2>1, <3>2
    <3>4. x = y
      BY <3>3, TopicsApart
    <3>5. QED BY <1>1, <1>10, <2>1, <3>1, <3>2, <3>4 DEF Shape
  <2>2. CASE ~(u.to = "mqtt" /\ u.name = TopicOf(h, x))
    BY <1>3, <1>18, <2>2 DEF HasTopic
  <2>3. QED BY <2>1, <2>2
<1>19. DoneInv'
  <2>1. SUFFICES ASSUME running', NEW o \in Origins, heard[o] # None
                 PROVE  /\ o # handling' => ~heard[o].short
                        /\ ~heard[o].short => \A x \in DOMAIN Carried(heard[o]) :
                             RecordDone(o, x)' /\ (IsPublished(o, x) => TopicDone(o, x)')
    BY <1>5 DEF DoneInv
  <2>2. /\ o # h => ~heard[o].short
        /\ ~heard[o].short => \A x \in DOMAIN Carried(heard[o]) :
             RecordDone(o, x) /\ (IsPublished(o, x) => TopicDone(o, x))
    BY <1>1, <1>2, <2>1 DEF DoneInv
  <2>3. CASE o # h
    <3>1. ~heard[o].short /\ o # handling
      BY <1>2, <2>2, <2>3
    <3>2. ASSUME NEW x \in DOMAIN Carried(heard[o]) PROVE RecordDone(o, x)'
      <4>1. wsCache[Key(o)][x] = Carried(heard[o])[x]
        BY <2>2, <3>1 DEF RecordDone
      <4>2. QED BY <1>5, <1>15, <2>1, <2>3, <4>1 DEF RecordDone
    <3>3. ASSUME NEW x \in DOMAIN Carried(heard[o]), IsPublished(o, x) PROVE TopicDone(o, x)'
      <4>1. mqttCache[TopicOf(o, x)] = Value(o, heard[o], x)
              \/ (mqttCache[TopicOf(o, x)] = None /\ o \notin fresh)
        BY <2>2, <3>1, <3>3 DEF TopicDone
      <4>2. QED BY <1>5, <1>17, <2>1, <4>1 DEF TopicDone
    <3>4. QED BY <3>1, <3>2, <3>3
  <2>4. CASE o = h
    <3>1. heard[o] = g /\ heard'[o] = g
      BY <1>2, <1>5, <2>4
    <3>2. todo' # <<>> => handling' = o
      BY <1>5, <2>4
    <3>3. todo' = <<>> => ~g.short
      BY <1>2, <1>3, <1>5, <2>1 DEF HasPanic
    <3>4. ASSUME NEW x \in DOMAIN Carried(g), ~g.short PROVE RecordDone(o, x)'
      <4>1. RecordDone(h, x)
        BY <2>2, <2>4, <3>1, <3>4
      <4>2. QED BY <1>16, <2>4, <3>1, <3>2, <3>4, <4>1 DEF RecordDone
    <3>5. ASSUME NEW x \in DOMAIN Carried(g), ~g.short, IsPublished(o, x) PROVE TopicDone(o, x)'
      <4>1. TopicDone(h, x)
        BY <2>2, <2>4, <3>1, <3>5
      <4>2. CASE HasTopic(todo, TopicOf(h, x))
        BY <1>18, <2>4, <3>1, <3>2, <4>2 DEF TopicDone
      <4>3. CASE ~HasTopic(todo, TopicOf(h, x))
        <5>1. mqttCache[TopicOf(h, x)] = Value(h, g, x)
                \/ (mqttCache[TopicOf(h, x)] = None /\ h \notin fresh)
          BY <2>4, <3>1, <4>1, <4>3 DEF TopicDone
        <5>2. QED BY <1>5, <1>17, <2>1, <2>4, <3>1, <5>1 DEF TopicDone
      <4>4. QED BY <4>2, <4>3
    <3>6. QED BY <2>4, <3>1, <3>2, <3>3, <3>4, <3>5
  <2>5. QED BY <2>3, <2>4
<1>20. QED BY <1>11, <1>12, <1>14, <1>19 DEF Inv

LEMMA ClearCacheInv ==
  ASSUME Inv, ClearCache
  PROVE  Inv'
<1>1. /\ Shape /\ HeardInv /\ TodoInv /\ DoneInv
      /\ mqttCache' = [t \in Topics |-> None] /\ fresh' = {}
      /\ wsCache' = wsCache /\ todo' = todo /\ running' = running
      /\ handling' = handling /\ heard' = heard
  BY DEF Inv, ClearCache
<1>2. Shape' /\ HeardInv'
  BY <1>1 DEF Shape, HeardInv
<1>3. \A u, f : UpdateOf(u, f)' <=> UpdateOf(u, f)
  BY <1>1 DEF UpdateOf, RecordOf
<1>4. TodoInv'
  BY <1>1, <1>3 DEF TodoInv
<1>5. DoneInv'
  <2>1. SUFFICES ASSUME running, NEW o \in Origins, heard[o] # None
                 PROVE  /\ o # handling => ~heard[o].short
                        /\ ~heard[o].short => \A x \in DOMAIN Carried(heard[o]) :
                             RecordDone(o, x)' /\ (IsPublished(o, x) => TopicDone(o, x)')
    BY <1>1 DEF DoneInv
  <2>2. heard[o] \in Responses /\ Origin(heard[o]) = o
    BY <1>1, <2>1 DEF HeardInv
  <2>3. ASSUME NEW x \in DOMAIN Carried(heard[o]) PROVE TopicDone(o, x)'
    BY <1>1, <2>2, FieldTopics DEF TopicDone
  <2>4. ASSUME NEW x \in DOMAIN Carried(heard[o]), ~heard[o].short PROVE RecordDone(o, x)'
    BY <1>1, <2>1, <2>4 DEF DoneInv, RecordDone
  <2>5. o # handling => ~heard[o].short
    BY <1>1, <2>1 DEF DoneInv
  <2>6. QED BY <2>3, <2>4, <2>5
<1>6. QED BY <1>2, <1>4, <1>5 DEF Inv

THEOREM Invariance == Spec => []Inv
<1>1. ASSUME Inv, [Next]_vars PROVE Inv'
  <2>1. CASE Update
    BY <1>1, <2>1, UpdateInv
  <2>2. CASE ClearCache
    BY <1>1, <2>2, ClearCacheInv
  <2>3. CASE \E f \in Responses : HandleFrame(f)
    BY <1>1, <2>3, HandleFrameInv
  <2>4. CASE UNCHANGED vars
    BY <1>1, <2>4 DEF vars, Inv, Shape, HeardInv, TodoInv, DoneInv, UpdateOf, RecordOf,
                      RecordDone, TopicDone
  <2>5. QED BY <1>1, <2>1, <2>2, <2>3, <2>4 DEF Next
<1>2. QED BY <1>1, InitInv, PTL DEF Spec

-----------------------------------------------------------------------------
(* The flow weights.                                                       *)

\* Every weight in the cache is one, and those of the zones of a controller are
\* the shares of its last response, or will be when the callback is through.
FlowInv ==
  /\ \A z \in Zones : mqttCache[FlowTopic(z)] # None => IsWeight(mqttCache[FlowTopic(z)])
  /\ \A o \in fresh : heard[o] # None
  /\ running => \A o \in fresh :
       HasDampers(o) /\ ~heard[o].short /\ SumFunction(FlowOf(heard[o])) > 0 =>
         \A z \in Present(heard[o]) :
           \/ mqttCache[FlowTopic(z)] = Share(heard[o], z)
           \/ o = handling /\ HasTopic(todo, FlowTopic(z))

LEMMA InitFlow == Init => FlowInv
<1>1. SUFFICES ASSUME Init PROVE FlowInv
  OBVIOUS
<1>2. \A z \in Zones : mqttCache[FlowTopic(z)] = None
  BY <1>1, FlowTopicIs DEF Init
<1>3. QED BY <1>1, <1>2 DEF Init, FlowInv

LEMMA HandleFrameFlow ==
  ASSUME Inv, FlowInv, NEW f \in Responses, HandleFrame(f)
  PROVE  FlowInv'
<1> DEFINE h == Origin(f)
<1>1. /\ Shape /\ HeardInv /\ TodoInv /\ h \in Origins /\ f # None
  BY Tables DEF Inv
<1>2. Callback(f) # <<>> /\ HasShares(Callback(f), f)
  BY <1>1, CallbackUpdates
<1>3. /\ running /\ todo = <<>> /\ todo' = Callback(f) /\ handling' = h
      /\ heard' = [heard EXCEPT ![h] = f] /\ fresh' = fresh \cup {h}
      /\ mqttCache' = mqttCache /\ handling = None
  BY <1>1, <1>2 DEF HandleFrame, TodoInv
<1>4. /\ heard'[h] = f /\ \A o \in Origins : o # h => heard'[o] = heard[o]
      /\ fresh \in SUBSET Origins /\ None \notin Origins
  BY <1>1, <1>3, SnoopsAssumption DEF HeardInv, TodoInv
<1>5. \A o \in fresh' : heard'[o] # None
  BY <1>1, <1>3, <1>4 DEF FlowInv
<1>6. ASSUME NEW o \in fresh', HasDampers(o), ~heard'[o].short,
             SumFunction(FlowOf(heard'[o])) > 0, NEW z \in Present(heard'[o])
      PROVE  \/ mqttCache'[FlowTopic(z)] = Share(heard'[o], z)
             \/ o = handling' /\ HasTopic(todo', FlowTopic(z))
  <2>1. CASE o = h
    BY <1>2, <1>3, <1>4, <1>6, <2>1 DEF HasShares
  <2>2. CASE o # h
    <3>1. o \in fresh /\ heard'[o] = heard[o] /\ o # handling
      BY <1>3, <1>4, <2>2
    <3>2. mqttCache[FlowTopic(z)] = Share(heard[o], z)
      BY <1>3, <1>6, <3>1 DEF FlowInv
    <3>3. QED BY <1>3, <3>1, <3>2
  <2>3. QED BY <2>1, <2>2
<1>7. \A z \in Zones : mqttCache'[FlowTopic(z)] # None => IsWeight(mqttCache'[FlowTopic(z)])
  BY <1>3 DEF FlowInv
<1>8. QED BY <1>5, <1>6, <1>7 DEF FlowInv

LEMMA UpdateFlow ==
  ASSUME Inv, FlowInv, Update
  PROVE  FlowInv'
<1>1. /\ Shape /\ HeardInv /\ TodoInv /\ running /\ todo # <<>>
  BY DEF Inv, Update
<1>2. PICK h \in Origins, g \in Responses :
        /\ h = handling /\ g = heard[handling] /\ Origin(g) = h
        /\ \A v \in Range(todo) : UpdateOf(v, g)
  BY <1>1 DEF TodoInv, HeardInv
<1>u. PICK u : u = Head(todo)
  OBVIOUS
<1>3. /\ Range(todo) = {u} \cup Range(todo')
      /\ todo' = <<>> => Range(todo') = {}
  BY <1>1, <1>u, TailElements DEF TodoInv, Update
<1>4. UpdateOf(u, g)
  BY <1>2, <1>3
<1>5. /\ handling' = (IF todo' = <<>> THEN None ELSE h)
      /\ heard' = heard /\ fresh' = fresh
      /\ mqttCache' = IF u.to = "mqtt" THEN [mqttCache EXCEPT ![u.name] = u.value] ELSE mqttCache
  BY <1>2, <1>u DEF Update
\* A topic of a flow, after a step that updates it and after one that does not.
<1>6. ASSUME NEW z \in Zones, u.to = "mqtt", u.name = FlowTopic(z)
      PROVE  /\ HasDampers(h) /\ SumFunction(FlowOf(g)) > 0 /\ z \in Present(g)
             /\ mqttCache'[FlowTopic(z)] = Share(g, z)
  <2>1. FlowTopic(z) \in Topics /\ FlowTopic(z) \in FlowTopics
    BY FlowTopicIs
  <2>2. IsFlowUpdate(u, g)
    BY <1>4, <1>6, <2>1, FlowUpdates
  <2>3. PICK y \in Present(g) : u.name = FlowTopic(y) /\ u.value = Share(g, y)
    BY <2>2 DEF IsFlowUpdate
  <2>4. y = z
    BY <1>6, <2>3, FlowTopicsApart
  <2>5. mqttCache'[FlowTopic(z)] = u.value
    BY <1>1, <1>5, <1>6, <2>1 DEF Shape
  <2>6. QED BY <1>2, <2>2, <2>3, <2>4, <2>5 DEF IsFlowUpdate
<1>7. ASSUME NEW z \in Zones, ~(u.to = "mqtt" /\ u.name = FlowTopic(z))
      PROVE  mqttCache'[FlowTopic(z)] = mqttCache[FlowTopic(z)]
  <2>1. FlowTopic(z) \in Topics
    BY FlowTopicIs
  <2>2. QED BY <1>1, <1>5, <1>7, <2>1 DEF Shape
<1>8. ASSUME NEW z \in Zones, mqttCache'[FlowTopic(z)] # None
      PROVE  IsWeight(mqttCache'[FlowTopic(z)])
  <2>1. CASE u.to = "mqtt" /\ u.name = FlowTopic(z)
    BY <1>2, <1>6, <2>1, SharesAreWeights
  <2>2. CASE ~(u.to = "mqtt" /\ u.name = FlowTopic(z))
    BY <1>7, <1>8, <2>2 DEF FlowInv
  <2>3. QED BY <2>1, <2>2
<1>9. ASSUME NEW o \in fresh, HasDampers(o), ~heard[o].short,
             SumFunction(FlowOf(heard[o])) > 0, NEW z \in Present(heard[o])
      PROVE  \/ mqttCache'[FlowTopic(z)] = Share(heard[o], z)
             \/ o = handling' /\ HasTopic(todo', FlowTopic(z))
  <2>1. /\ o \in Origins /\ heard[o] \in Responses /\ Origin(heard[o]) = o
        /\ z \in Zones
    BY <1>1, <1>9 DEF HeardInv, TodoInv, FlowInv, Present
  <2>2. \/ mqttCache[FlowTopic(z)] = Share(heard[o], z)
        \/ o = handling /\ HasTopic(todo, FlowTopic(z))
    BY <1>1, <1>9 DEF FlowInv
  <2>3. CASE u.to = "mqtt" /\ u.name = FlowTopic(z)
    <3>1. z \in Present(g) /\ HasDampers(h) /\ mqttCache'[FlowTopic(z)] = Share(g, z)
      BY <1>6, <2>1, <2>3
    <3>2. z \in DOMAIN Carried(g) /\ z \in DOMAIN Carried(heard[o])
      BY <1>2, <1>9, <2>1, <3>1, Tables, Fields
    <3>3. o = h
      BY <1>2, <1>9, <2>1, <3>1, <3>2, FieldsApart
    <3>4. QED BY <1>2, <3>1, <3>3
  <2>4. CASE ~(u.to = "mqtt" /\ u.name = FlowTopic(z))
    <3>1. mqttCache'[FlowTopic(z)] = mqttCache[FlowTopic(z)]
      BY <1>7, <2>1, <2>4
    <3>2. ASSUME o = handling, HasTopic(todo, FlowTopic(z))
          PROVE  o = handling' /\ HasTopic(todo', FlowTopic(z))
      <4>1. HasTopic(todo', FlowTopic(z))
        BY <1>3, <2>4, <3>2 DEF HasTopic
      <4>2. todo' # <<>>
        BY <1>3, <4>1 DEF HasTopic
      <4>3. QED BY <1>2, <1>5, <3>2, <4>1, <4>2
    <3>3. QED BY <2>2, <3>1, <3>2
  <2>5. QED BY <2>3, <2>4
<1>10. QED BY <1>1, <1>5, <1>8, <1>9 DEF FlowInv

LEMMA ClearCacheFlow ==
  ASSUME ClearCache
  PROVE  FlowInv'
<1>1. mqttCache' = [t \in Topics |-> None] /\ fresh' = {}
  BY DEF ClearCache
<1>2. \A z \in Zones : mqttCache'[FlowTopic(z)] = None
  BY <1>1, FlowTopicIs
<1>3. QED BY <1>1, <1>2 DEF FlowInv

THEOREM FlowInvariance == Spec => []FlowInv
<1>1. ASSUME Inv, FlowInv, [Next]_vars PROVE FlowInv'
  <2>1. CASE Update
    BY <1>1, <2>1, UpdateFlow
  <2>2. CASE ClearCache
    BY <2>2, ClearCacheFlow
  <2>3. CASE \E f \in Responses : HandleFrame(f)
    BY <1>1, <2>3, HandleFrameFlow
  <2>4. CASE UNCHANGED vars
    BY <1>1, <2>4 DEF vars, FlowInv
  <2>5. QED BY <1>1, <2>1, <2>2, <2>3, <2>4 DEF Next
<1>2. QED BY <1>1, InitFlow, Invariance, PTL DEF Spec

-----------------------------------------------------------------------------
(* The theorems.                                                           *)

\* For any set of responses: the records keep their fields, a damper position
\* is never the "no damper" byte, and the reader is handling a response
\* exactly while it has something to do about it (infinitive.go:474-558).
THEOREM TypesAreKept == Spec => []TypeOK
<1>1. ASSUME Inv PROVE TypeOK
  <2>1. \A i \in DOMAIN todo : todo[i] \in Range(todo)
    BY DEF Range
  <2>2. ASSUME NEW i \in DOMAIN todo PROVE todo[i].to \in {"ws", "mqtt", "nothing", "panic"}
    <3>1. handling # None
      BY <1>1, <2>2 DEF Inv, TodoInv
    <3>2. QED BY <1>1, <2>1, <3>1 DEF Inv, TodoInv, UpdateOf
  <2>3. QED BY <1>1, <2>2 DEF Inv, Shape, HeardInv, TodoInv, TypeOK
<1>2. QED BY <1>1, Invariance, PTL

\* For any set of responses: what was heard last of each table is in its record
\* when the callback is through, whatever was heard of the record's other
\* tables before or since (infinitive.go:474-558).
THEOREM RecordsHoldTheLatest == Spec => []RecordsAreLatest
<1>1. ASSUME Inv PROVE RecordsAreLatest
  BY <1>1 DEF Inv, DoneInv, RecordDone, RecordsAreLatest, Settled
<1>2. QED BY <1>1, Invariance, PTL

\* For any set of responses, and the MQTT cache cleared at any time: every
\* published value is the same in the two caches, or missing from the cleared
\* one until its table is heard again (infinitive.go:474-558, cache.go:33-42).
THEOREM CachesStayInAgreement == Spec => []CachesAgree
<1>1. ASSUME Inv PROVE CachesAgree
  <2>1. SUFFICES ASSUME NEW o \in Origins, Settled(o),
                        NEW x \in DOMAIN Carried(heard[o]), IsPublished(o, x)
                 PROVE  Agrees(o, x)
    BY DEF CachesAgree
  <2>2. RecordDone(o, x) /\ TopicDone(o, x) /\ o # handling
    BY <1>1, <2>1 DEF Inv, DoneInv, Settled
  <2>3. wsCache[Key(o)][x] = Carried(heard[o])[x]
    BY <2>2 DEF RecordDone
  <2>4. QED BY <2>2, <2>3 DEF TopicDone, Agrees, Shown, Value
<1>2. QED BY <1>1, Invariance, PTL

\* For any number of zones, any weights and any set of responses: each flow
\* weight is a fraction of a positive flow, at most one, and after a response of
\* a zone controller with any damper open, the weights of its zones are their
\* shares of the flow through its dampers (infinitive.go:527-553).
THEOREM FlowSharedCorrect == Spec => []FlowIsShared
<1>1. ASSUME Inv, FlowInv PROVE FlowIsShared
  <2>1. ASSUME NEW z \in Zones, mqttCache[<<"flowWeight", z>>] # None
        PROVE  IsWeight(mqttCache[<<"flowWeight", z>>])
    BY <1>1, <2>1 DEF FlowInv, FlowTopic
  <2>2. ASSUME NEW o \in fresh, HasDampers(o), Settled(o)
        PROVE  /\ ~heard[o].short /\ running /\ o # handling
               /\ [z \in Present(heard[o]) |-> zoneWeight[z] * wsCache["damperpos"][z]]
                    = FlowOf(heard[o])
    <3>1. o \in Origins /\ heard[o] \in Responses /\ Origin(heard[o]) = o
      BY <1>1, <2>2 DEF Inv, HeardInv, TodoInv, Settled
    <3>2. /\ ~heard[o].short
          /\ \A x \in DOMAIN Carried(heard[o]) : RecordDone(o, x)
      BY <1>1, <2>2, <3>1 DEF Inv, DoneInv, Settled
    <3>3. Key(o) = "damperpos" /\ DOMAIN Carried(heard[o]) = Present(heard[o])
      BY <2>2, <3>1, Tables, Fields, KeyIsDampers
    <3>4. \A z \in Present(heard[o]) : wsCache["damperpos"][z] = Carried(heard[o])[z]
      BY <2>2, <3>2, <3>3 DEF RecordDone, Settled
    <3>5. QED BY <2>2, <3>2, <3>4 DEF Settled, FlowOf
  <2>3. ASSUME NEW o \in fresh, HasDampers(o), Settled(o),
               SumFunction(FlowOf(heard[o])) > 0, NEW z \in Present(heard[o])
        PROVE  mqttCache[<<"flowWeight", z>>]
                 = <<FlowOf(heard[o])[z], SumFunction(FlowOf(heard[o]))>>
    BY <1>1, <2>2, <2>3 DEF FlowInv, FlowTopic, Share
  <2>4. QED BY <2>1, <2>2, <2>3 DEF FlowIsShared, IsWeight
<1>2. QED BY <1>1, Invariance, FlowInvariance, PTL
=============================================================================
