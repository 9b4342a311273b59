--------------------------- MODULE CommandsProofs ---------------------------
(***************************************************************************)
(* Theorems about commands and what the API shows, for any commands,       *)
(* settings at the panel and contents of the thermostat, and any number of *)
(* handlers.                                                               *)
(***************************************************************************)
EXTENDS Commands, SequenceTheorems, TLAPS

-----------------------------------------------------------------------------
(* Conversions there and back.                                             *)

LEMMA ModeThereAndBack ==
  ASSUME NEW word
  PROVE  /\ rawModeToString(stringModeToRaw(word).raw) = IF word \in ModeWords THEN word ELSE "off"
         /\ stringModeToRaw(word).ok <=> word \in ModeWords
  BY DEF stringModeToRaw, rawModeToString, ModeWords

LEMMA ModeRaw == \A word : stringModeToRaw(word).raw \in Byte
  BY DEF stringModeToRaw, Byte

LEMMA FanModeThereAndBack ==
  ASSUME NEW word
  PROVE  /\ stringFanModeToRaw(word).raw \in Byte
         /\ rawFanModeToString(stringFanModeToRaw(word).raw) =
              IF word \in FanWords THEN word ELSE "auto"
         /\ stringFanModeToRaw(word).ok <=> word \in FanWords
  BY DEF stringFanModeToRaw, rawFanModeToString, Byte, FanWords

\* Days become hours and hours become days again.
LEMMA DaysThereAndBack ==
  ASSUME NEW days \in Byte
  PROVE  HoursOf(days) = 24 * days /\ HoursOf(days) \in TwoBytes /\ DaysOf(HoursOf(days)) = days
<1>1. HoursOf(days) = 24 * days
  BY DEF HoursOf, Byte
<1> DEFINE hours == 24 * days
<1>2. (hours + 23) % 65536 = hours + 23 /\ (hours + 23) \div 24 = days /\ days % 256 = days
  BY DEF Byte
<1>3. hours \in TwoBytes
  BY DEF TwoBytes, Byte
<1> HIDE DEF hours
<1>4. DaysOf(hours) = days
  BY <1>2 DEF DaysOf
<1>5. QED BY <1>1, <1>3, <1>4 DEF hours

\* The days of hours that can be shown are the hours rounded up.
LEMMA DaysRoundUp ==
  ASSUME NEW hours \in Nat, hours <= ShowableHours
  PROVE  RoundedUp(DaysOf(hours), hours)
<1>1. (hours + 23) % 65536 = hours + 23
  BY DEF ShowableHours
<1> DEFINE d == (hours + 23) \div 24
<1>2. d \in Int /\ d * 24 <= hours + 23 /\ hours + 23 < d * 24 + 24
  OBVIOUS
<1>3. d \in 0 .. 255
  <2> HIDE DEF d
  <2>1. QED BY <1>2 DEF ShowableHours
<1>4. DaysOf(hours) = d
  <2>1. DaysOf(hours) = d % 256
    BY <1>1 DEF DaysOf
  <2> HIDE DEF d
  <2>2. QED BY <1>3, <2>1
<1> HIDE DEF d
<1>5. QED BY <1>2, <1>3, <1>4 DEF RoundedUp

-----------------------------------------------------------------------------
(* The writes of a command.                                                *)

\* How a zone's field is shown.
ShownZone(f, raw) ==
  CASE f = "fanMode" -> rawFanModeToString(raw) [] f = "hold" -> raw = 1 [] OTHER -> raw

IsModeWrite(w, cmd) ==
  /\ w.table = "current" /\ w.params.mode \in Byte
  /\ "mode" \in DOMAIN Document(cmd)
  /\ rawModeToString(w.params.mode) =
       IF Document(cmd).mode \in ModeWords THEN Document(cmd).mode ELSE "off"

IsZoneWrite(w, cmd) ==
  /\ w.table = "zone" /\ w.zone = cmd.zone
  /\ w.params \in [ZoneFields -> Byte] /\ w.flags = ZoneFields \cap DOMAIN Document(cmd)
  /\ ForZone(cmd)
  /\ \A f \in w.flags : Document(cmd)[f] = ShownZone(f, w.params[f])

IsDocument(args) ==
  /\ DOMAIN args \subseteq VacationFields \cup {"days"}
  /\ "active" \in DOMAIN args => args.active \in BOOLEAN
  /\ \A f \in DOMAIN args \ {"active", "fanMode"} : args[f] \in Width(f)

IsVacationWrite(w, cmd) ==
  /\ ForVacation(cmd)
  /\ IsDocument(Document(cmd)) /\ w = fromAPI(Document(cmd))

IsWriteOf(w, cmd) == IsModeWrite(w, cmd) \/ IsZoneWrite(w, cmd) \/ IsVacationWrite(w, cmd)

\* s is a sequence of at most two writes of cmd.
AreWritesOf(s, cmd) ==
  \/ s = <<>>
  \/ \E w : s = <<w>> /\ IsWriteOf(w, cmd)
  \/ \E v, w : s = <<v, w>> /\ IsWriteOf(v, cmd) /\ IsWriteOf(w, cmd)

LEMMA ModeWritten ==
  ASSUME NEW cmd, NEW word, "mode" \in DOMAIN Document(cmd), Document(cmd).mode = word
  PROVE  IsWriteOf(ModeWrite(stringModeToRaw(word).raw), cmd)
<1>1. stringModeToRaw(word).raw \in Byte
  BY ModeRaw
<1>2. QED BY <1>1, ModeThereAndBack DEF ModeWrite, IsModeWrite, IsWriteOf

LEMMA ZoneWritten ==
  ASSUME NEW cmd, ForZone(cmd),
         NEW flags, flags = ZoneFields \cap DOMAIN Document(cmd), NEW params, DOMAIN params = flags,
         \A f \in flags : params[f] \in Byte /\ Document(cmd)[f] = ShownZone(f, params[f])
  PROVE  IsWriteOf(ZoneWrite(cmd.zone, params, flags), cmd)
<1> DEFINE w == ZoneWrite(cmd.zone, params, flags)
<1>1. /\ w.table = "zone" /\ w.zone = cmd.zone /\ w.flags = flags
      /\ w.params = [f \in ZoneFields |-> IF f \in DOMAIN params THEN params[f] ELSE 0]
  BY DEF ZoneWrite
<1>2. w.params \in [ZoneFields -> Byte]
  <2>1. \A f \in DOMAIN params : params[f] \in Byte
    OBVIOUS
  <2>2. 0 \in Byte
    BY DEF Byte
  <2> HIDE DEF w
  <2>3. QED BY <1>1, <2>1, <2>2
<1>3. \A f \in flags : w.params[f] = params[f]
  BY <1>1
<1> HIDE DEF w
<1>4. IsZoneWrite(w, cmd)
  BY <1>1, <1>2, <1>3 DEF IsZoneWrite
<1>5. QED BY <1>4 DEF w, IsWriteOf

\* A zone's setting is understood as the document of the command says.
LEMMA SettingUnderstood ==
  ASSUME NEW param, NEW value, value.number \in Nat, value.tail = FALSE,
         ZoneSetting(param, value).ok
  PROVE  LET set == ZoneSetting(param, value) IN
         /\ set.field \in ZoneFields /\ set.raw \in Byte
         /\ set.field = IF param = "preset" THEN "hold" ELSE param
         /\ param \in {"fanMode", "heatSetpoint", "coolSetpoint", "hold", "preset"}
         /\ ShownZone(set.field, set.raw) =
              CASE param = "preset" -> value.word = "hold"
                [] param = "hold" -> value.word = "true"
                [] param \in {"fanMode", "mode"} -> value.word
                [] OTHER -> value.number
<1> USE DEF ZoneFields
<1>1. CASE param = "fanMode"
  <2>1. /\ ZoneSetting(param, value).ok = stringFanModeToRaw(value.word).ok
        /\ ZoneSetting(param, value).raw = stringFanModeToRaw(value.word).raw
        /\ ZoneSetting(param, value).field = "fanMode"
    BY <1>1 DEF ZoneSetting
  <2>2. QED BY <1>1, <2>1, FanModeThereAndBack DEF ShownZone
<1>2. CASE param \in {"heatSetpoint", "coolSetpoint"}
  <2>1. /\ ZoneSetting(param, value).ok = ParseUint(value, 256)
        /\ ZoneSetting(param, value).field = param
        /\ ZoneSetting(param, value).raw = value.number
    BY <1>2 DEF ZoneSetting
  <2>2. ParseUint(value, 256)
    BY <2>1, Zenon
  <2>3. value.number \in Byte
    BY <2>2 DEF ParseUint, Byte
  <2>4. QED BY <1>2, <2>1, <2>3 DEF ShownZone
<1>3. CASE param = "hold"
  <2>1. ZoneSetting(param, value) =
          [ok |-> value.word \in {"true", "false"}, field |-> "hold",
           raw |-> IF value.word = "true" THEN 1 ELSE 0]
    BY <1>3 DEF ZoneSetting
  <2>2. QED BY <1>3, <2>1 DEF ShownZone, Byte
<1>4. CASE param = "preset"
  <2>1. ZoneSetting(param, value) =
          [ok |-> value.word \in {"hold", "none"}, field |-> "hold",
           raw |-> IF value.word = "hold" THEN 1 ELSE 0]
    BY <1>4 DEF ZoneSetting
  <2>2. QED BY <1>4, <2>1 DEF ShownZone, Byte
<1>5. CASE param \notin {"fanMode", "heatSetpoint", "coolSetpoint", "hold", "preset"}
  BY <1>5 DEF ZoneSetting
<1>6. QED BY <1>1, <1>2, <1>3, <1>4, <1>5

LEMMA MqttZoneWrites ==
  ASSUME NEW cmd, IsCommand(cmd), cmd.kind = "mqttZone"
  PROVE  AreWritesOf(WritesOf(cmd), cmd)
<1> DEFINE v == WithoutTail(cmd.value)
           set == ZoneSetting(cmd.param, v)
           mode == stringModeToRaw(v.word)
<1>1. v.word = cmd.value.word /\ v.number = cmd.value.number /\ v.number \in Nat /\ v.tail = FALSE
  BY DEF IsCommand, WithoutTail
<1>2. WritesOf(cmd) = putConfig(cmd.zone, cmd.param, v)
  BY DEF WritesOf
<1>3. Document(cmd) =
        [f \in {IF cmd.param = "preset" THEN "hold" ELSE cmd.param} |->
           CASE cmd.param = "preset" -> v.word = "hold"
             [] cmd.param = "hold" -> v.word = "true"
             [] cmd.param \in {"fanMode", "mode"} -> v.word
             [] OTHER -> v.number]
  BY <1>1 DEF Document
<1> HIDE DEF v
<1>4. CASE cmd.zone \in 1 .. 8 /\ set.ok
  <2> DEFINE params == [f \in {set.field} |-> set.raw]
  <2>1. putConfig(cmd.zone, cmd.param, v) = <<ZoneWrite(cmd.zone, params, {set.field})>>
    BY <1>4 DEF putConfig
  <2>2. /\ set.field \in ZoneFields /\ set.raw \in Byte
        /\ DOMAIN Document(cmd) = {set.field}
        /\ Document(cmd)[set.field] = ShownZone(set.field, set.raw)
    <3>1. /\ set.field \in ZoneFields /\ set.raw \in Byte
          /\ set.field = IF cmd.param = "preset" THEN "hold" ELSE cmd.param
          /\ ShownZone(set.field, set.raw) =
               CASE cmd.param = "preset" -> v.word = "hold"
                 [] cmd.param = "hold" -> v.word = "true"
                 [] cmd.param \in {"fanMode", "mode"} -> v.word
                 [] OTHER -> v.number
      <4>1. v.number \in Nat /\ v.tail = FALSE /\ ZoneSetting(cmd.param, v).ok
        BY <1>1, <1>4
      <4>2. QED BY <4>1, SettingUnderstood, Zenon
    <3> HIDE DEF set
    <3>2. QED BY <1>3, <3>1
  <2>3. DOMAIN params = {set.field} /\ params[set.field] = set.raw
    OBVIOUS
  <2> HIDE DEF set, params
  <2>4. IsWriteOf(ZoneWrite(cmd.zone, params, {set.field}), cmd)
    BY <2>2, <2>3, ZoneWritten DEF ForZone
  <2>5. QED BY <1>2, <2>1, <2>4 DEF AreWritesOf
<1>5. CASE ~(cmd.zone \in 1 .. 8 /\ set.ok) /\ cmd.zone = 0 /\ cmd.param = "mode" /\ mode.ok
  <2>1. putConfig(cmd.zone, cmd.param, v) = <<ModeWrite(mode.raw)>>
    BY <1>1, <1>5 DEF putConfig
  <2>2. "mode" \in DOMAIN Document(cmd) /\ Document(cmd).mode = v.word
    BY <1>3, <1>5
  <2>3. IsWriteOf(ModeWrite(mode.raw), cmd)
    BY <1>5, <2>2, ModeWritten
  <2>4. QED BY <1>2, <2>1, <2>3 DEF AreWritesOf
<1>6. CASE ~(cmd.zone \in 1 .. 8 /\ set.ok) /\ ~(cmd.zone = 0 /\ cmd.param = "mode" /\ mode.ok)
  BY <1>2, <1>6 DEF putConfig, AreWritesOf
<1>7. QED BY <1>4, <1>5, <1>6

LEMMA MqttWrites ==
  ASSUME NEW cmd, IsCommand(cmd), cmd.kind = "mqtt"
  PROVE  AreWritesOf(WritesOf(cmd), cmd)
<1> DEFINE mode == stringModeToRaw(cmd.value.word)
<1>1. WritesOf(cmd) = putConfig(0, cmd.param, cmd.value)
  BY DEF WritesOf
<1>2. WritesOf(cmd) = IF cmd.param = "mode" /\ mode.ok /\ ~cmd.value.tail
                      THEN <<ModeWrite(mode.raw)>> ELSE <<>>
  BY <1>1 DEF putConfig
<1>3. CASE cmd.param = "mode" /\ mode.ok /\ ~cmd.value.tail
  <2>1. "mode" \in DOMAIN Document(cmd) /\ Document(cmd).mode = cmd.value.word
    BY <1>3 DEF Document
  <2>2. IsWriteOf(ModeWrite(mode.raw), cmd)
    BY <1>3, <2>1, ModeWritten
  <2>3. QED BY <1>2, <1>3, <2>2 DEF AreWritesOf
<1>4. QED BY <1>2, <1>3 DEF AreWritesOf

LEMMA VacationWrites ==
  ASSUME NEW cmd, IsCommand(cmd), cmd.kind \in {"mqttVacation", "putVacation"}
  PROVE  AreWritesOf(WritesOf(cmd), cmd)
<1>1. CASE cmd.kind = "mqttVacation"
  <2>1. WritesOf(cmd) = putVacationConfig(cmd.param, cmd.value)
    BY <1>1 DEF WritesOf
  <2>2. Document(cmd) = [f \in {cmd.param} |-> cmd.value.number] /\ cmd.value.number \in Nat
    BY <1>1 DEF Document, IsCommand
  <2> DEFINE understood == \/ cmd.param = "days" /\ ParseUint(cmd.value, 256)
                           \/ cmd.param = "hours" /\ ParseUint(cmd.value, 65536)
  <2>3. CASE understood
    <3>1. WritesOf(cmd) = <<fromAPI(Document(cmd))>>
      BY <2>1, <2>2, <2>3 DEF putVacationConfig
    <3>2. IsDocument(Document(cmd))
      <4>1. CASE cmd.param = "days" /\ ParseUint(cmd.value, 256)
        BY <2>2, <4>1 DEF IsDocument, ParseUint, Width, Byte
      <4>2. CASE cmd.param = "hours" /\ ParseUint(cmd.value, 65536)
        <5>1. DOMAIN Document(cmd) = {"hours"} /\ Document(cmd)["hours"] \in TwoBytes
          <6>1. Document(cmd) = [f \in {"hours"} |-> cmd.value.number]
            BY <2>2, <4>2
          <6>2. cmd.value.number \in TwoBytes
            BY <2>2, <4>2 DEF ParseUint, TwoBytes
          <6>3. QED BY <6>1, <6>2
        <5>2. "hours" \in VacationFields
          BY DEF VacationFields
        <5>3. QED BY <5>1, <5>2 DEF IsDocument, Width
      <4>3. QED BY <2>3, <4>1, <4>2
    <3>3. QED BY <1>1, <3>1, <3>2 DEF AreWritesOf, IsWriteOf, IsVacationWrite, ForVacation
  <2>4. CASE ~understood
    BY <2>1, <2>4 DEF putVacationConfig, AreWritesOf
  <2>5. QED BY <2>3, <2>4
<1>2. CASE cmd.kind = "putVacation"
  <2>1. WritesOf(cmd) = <<fromAPI(cmd.args)>> /\ Document(cmd) = cmd.args
    BY <1>2 DEF WritesOf, Document
  <2>2. IsDocument(cmd.args)
    BY <1>2 DEF IsCommand, IsDocument
  <2>3. QED BY <1>2, <2>1, <2>2 DEF AreWritesOf, IsWriteOf, IsVacationWrite, ForVacation
<1>3. QED BY <1>1, <1>2

LEMMA Concats ==
  ASSUME NEW a, NEW b
  PROVE  /\ <<>> \o <<>> = <<>> /\ <<a>> \o <<>> = <<a>> /\ <<>> \o <<b>> = <<b>>
         /\ <<a>> \o <<b>> = <<a, b>>
<1>1. <<>> \o <<>> = <<>>
  OBVIOUS
<1>2. <<a>> \o <<>> = <<a>>
  OBVIOUS
<1>3. <<>> \o <<b>> = <<b>>
  OBVIOUS
<1>4. <<a>> \o <<b>> = <<a, b>>
  <2>1. PICK s, t : s = <<a>> /\ t = <<b>>
    OBVIOUS
  <2> DEFINE U == {a, b}
  <2>2. s \in Seq(U) /\ t \in Seq(U) /\ Len(s) = 1 /\ Len(t) = 1 /\ s[1] = a /\ t[1] = b
    BY <2>1
  <2> HIDE DEF U
  <2>3. /\ s \o t \in Seq(U) /\ Len(s \o t) = 1 + 1
        /\ \A i \in 1 .. 2 : (s \o t)[i] = IF i <= 1 THEN s[i] ELSE t[i - 1]
    BY <2>2, ConcatProperties
  <2>4. PICK r : r = s \o t
    OBVIOUS
  <2>5. r \in Seq(U) /\ Len(r) = 2 /\ r[1] = a /\ r[2] = b
    BY <2>2, <2>3, <2>4
  <2>6. DOMAIN r = 1 .. 2 /\ r = [i \in 1 .. 2 |-> r[i]]
    BY <2>5
  <2>7. r = <<a, b>>
    BY <2>5, <2>6
  <2>8. QED BY <2>1, <2>4, <2>7
<1>5. QED BY <1>1, <1>2, <1>3, <1>4

LEMMA PutZoneWrites ==
  ASSUME NEW cmd, IsCommand(cmd), cmd.kind = "putZone"
  PROVE  AreWritesOf(WritesOf(cmd), cmd)
<1> DEFINE args == cmd.args
           fan == IF "fanMode" \in DOMAIN args THEN stringFanModeToRaw(args.fanMode)
                  ELSE [raw |-> 0, ok |-> TRUE]
           flags == {f \in DOMAIN args \cap ZoneFields :
                       f \in {"heatSetpoint", "coolSetpoint"} => args[f] > 0}
           params == [f \in flags |-> CASE f = "fanMode" -> fan.raw
                                        [] f = "hold" -> IF args.hold THEN 1 ELSE 0
                                        [] OTHER -> args[f]]
           zoneWrites == IF flags = {} THEN <<>> ELSE <<ZoneWrite(cmd.zone, params, flags)>>
           modeWrites == IF "mode" \in DOMAIN args
                         THEN <<ModeWrite(stringModeToRaw(args.mode).raw)>> ELSE <<>>
<1>1. WritesOf(cmd) = IF cmd.zone \in 1 .. 8 /\ fan.ok THEN zoneWrites \o modeWrites ELSE <<>>
  <2>1. WritesOf(cmd) = putZoneConfig(cmd.zone, args)
    BY DEF WritesOf
  <2>2. QED BY <2>1 DEF putZoneConfig
<1>2. /\ DOMAIN Document(cmd) = {f \in DOMAIN args :
                                f \in {"heatSetpoint", "coolSetpoint"} => args[f] > 0}
      /\ \A f \in DOMAIN Document(cmd) : Document(cmd)[f] = args[f]
  BY DEF Document
<1>3. ASSUME fan.ok
      PROVE  IsWriteOf(ZoneWrite(cmd.zone, params, flags), cmd)
  <2>1. ASSUME NEW f \in flags
        PROVE  params[f] \in Byte /\ f \in DOMAIN args /\ args[f] = ShownZone(f, params[f])
    <3>1. f \in DOMAIN args /\ f \in ZoneFields
      OBVIOUS
    <3>2. CASE f = "fanMode"
      <4>1. params[f] = stringFanModeToRaw(args.fanMode).raw /\ stringFanModeToRaw(args.fanMode).ok
        BY <1>3, <3>1, <3>2
      <4> HIDE DEF params, flags
      <4>2. QED BY <3>1, <3>2, <4>1, FanModeThereAndBack DEF ShownZone
    <3>3. CASE f = "hold"
      <4>1. args.hold \in BOOLEAN
        BY <3>1, <3>3 DEF IsCommand
      <4>2. params[f] = IF args.hold THEN 1 ELSE 0
        BY <3>3
      <4> HIDE DEF params, flags
      <4>3. QED BY <3>1, <3>3, <4>1, <4>2 DEF ShownZone, Byte
    <3>4. CASE f \in {"heatSetpoint", "coolSetpoint"}
      <4>1. args[f] \in Byte
        BY <3>1, <3>4 DEF IsCommand
      <4>2. params[f] = args[f]
        BY <3>4
      <4> HIDE DEF params, flags
      <4>3. QED BY <3>1, <3>4, <4>1, <4>2 DEF ShownZone
    <3>5. QED BY <3>1, <3>2, <3>3, <3>4 DEF ZoneFields
  <2>2. flags = ZoneFields \cap DOMAIN Document(cmd) /\ DOMAIN params = flags
    BY <1>2
  <2> HIDE DEF params, flags
  <2>3. QED BY <1>2, <2>1, <2>2, ZoneWritten DEF ForZone
<1>4. ASSUME "mode" \in DOMAIN args
      PROVE  IsWriteOf(ModeWrite(stringModeToRaw(args.mode).raw), cmd)
  <2>1. "mode" \in DOMAIN Document(cmd) /\ Document(cmd).mode = args.mode
    BY <1>2, <1>4
  <2>2. QED BY <2>1, ModeWritten
<1> DEFINE z == ZoneWrite(cmd.zone, params, flags)
           m == ModeWrite(stringModeToRaw(args.mode).raw)
<1>5. zoneWrites = IF flags = {} THEN <<>> ELSE <<z>>
  OBVIOUS
<1>6. modeWrites = IF "mode" \in DOMAIN args THEN <<m>> ELSE <<>>
  OBVIOUS
<1>7. /\ fan.ok => IsWriteOf(z, cmd)
      /\ "mode" \in DOMAIN args => IsWriteOf(m, cmd)
  BY <1>3, <1>4
<1> HIDE DEF z, m, zoneWrites, modeWrites, fan, flags, args
<1>8. CASE cmd.zone \in 1 .. 8 /\ fan.ok
  BY <1>1, <1>5, <1>6, <1>7, <1>8, Concats DEF AreWritesOf
<1>9. CASE ~(cmd.zone \in 1 .. 8 /\ fan.ok)
  BY <1>1, <1>9 DEF AreWritesOf
<1>10. QED BY <1>8, <1>9

LEMMA WritesAre ==
  ASSUME NEW cmd \in Commands
  PROVE  AreWritesOf(WritesOf(cmd), cmd)
<1>1. IsCommand(cmd)
  BY CommandsAssumption
<1>2. cmd.kind \in {"mqttZone", "mqttVacation", "mqtt", "putZone", "putVacation"}
  BY <1>1 DEF IsCommand
<1>3. QED BY <1>1, <1>2, MqttZoneWrites, MqttWrites, VacationWrites, PutZoneWrites

-----------------------------------------------------------------------------
(* What the API shows, name by name.                                       *)

LEMMA ViewIs ==
  ASSUME NEW r
  PROVE  /\ View(r)[<<"mode">>] = rawModeToString(r.mode)
         /\ \A z \in Zones, f \in ZoneFields \cup {"preset"} :
              View(r)[<<"zone", z, f>>] = zoneToAPI(r.zone[z])[f]
         /\ \A f \in VacationFields \cup {"days"} :
              View(r)[<<"vacation", f>>] = toAPI(r.vacation)[f]
<1>1. /\ <<"mode">> \in Names /\ <<"mode">>[1] = "mode"
      /\ \A z \in Zones, f \in ZoneFields \cup {"preset"} : <<"zone", z, f>> \in Names
      /\ \A f \in VacationFields \cup {"days"} : <<"vacation", f>> \in Names
  BY DEF Names
<1>2. /\ \A z, f : <<"zone", z, f>>[1] = "zone" /\ <<"zone", z, f>>[2] = z
                  /\ <<"zone", z, f>>[3] = f
      /\ \A f : <<"vacation", f>>[1] = "vacation" /\ <<"vacation", f>>[2] = f
  OBVIOUS
<1>3. View(r)[<<"mode">>] = rawModeToString(r.mode)
  BY <1>1 DEF View
<1>4. ASSUME NEW z \in Zones, NEW f \in ZoneFields \cup {"preset"}
      PROVE  View(r)[<<"zone", z, f>>] = zoneToAPI(r.zone[z])[f]
  BY <1>1, <1>2 DEF View
<1>5. ASSUME NEW f \in VacationFields \cup {"days"}
      PROVE  View(r)[<<"vacation", f>>] = toAPI(r.vacation)[f]
  BY <1>1, <1>2 DEF View
<1>6. QED BY <1>3, <1>4, <1>5

\* What Mentions, Asks and InTable say of each form of name.
LEMMA OfMode ==
  ASSUME NEW cmd, NEW w, NEW v
  PROVE  LET n == <<"mode">> IN
         /\ Mentions(cmd, n) <=> "mode" \in DOMAIN Document(cmd)
         /\ Asks(cmd, n, v) <=>
              v = IF Document(cmd).mode \in ModeWords THEN Document(cmd).mode ELSE "off"
         /\ ~NoVacationShows(n, v)
         /\ InTable(n, w) <=> w.table \in {"current", "mode"}
  BY DEF Mentions, Asks, NoVacationShows, InTable

LEMMA OfZone ==
  ASSUME NEW cmd, NEW w, NEW v, NEW z, NEW f
  PROVE  LET n == <<"zone", z, f>> IN
         /\ Mentions(cmd, n) <=>
              /\ ForZone(cmd) /\ z = cmd.zone
              /\ (IF f = "preset" THEN "hold" ELSE f) \in DOMAIN Document(cmd)
         /\ Asks(cmd, n, v) <=>
              IF f = "preset" THEN v = IF Document(cmd).hold THEN "hold" ELSE "none"
              ELSE v = Document(cmd)[f]
         /\ ~NoVacationShows(n, v)
         /\ InTable(n, w) <=> w.table = "zone"
<1> DEFINE n == <<"zone", z, f>>
<1>1. n[1] = "zone" /\ n[2] = z /\ n[3] = f
  OBVIOUS
<1> HIDE DEF n
<1>2. QED BY <1>1 DEF n, Mentions, Asks, NoVacationShows, InTable

LEMMA OfVacation ==
  ASSUME NEW w, NEW v, NEW f
  PROVE  /\ NoVacationShows(<<"vacation", f>>, v) <=>
              (f = "active" /\ v = FALSE) \/ (f \in {"days", "hours"} /\ v = 0)
         /\ InTable(<<"vacation", f>>, w) <=> w.table = "vacation"
<1> DEFINE n == <<"vacation", f>>
<1>1. n[1] = "vacation" /\ n[2] = f
  OBVIOUS
<1> HIDE DEF n
<1>2. NoVacationShows(n, v) <=>
        (f = "active" /\ v = FALSE) \/ (f \in {"days", "hours"} /\ v = 0)
  BY <1>1, Zenon DEF NoVacationShows
<1>3. InTable(n, w) <=> w.table = "vacation"
  BY <1>1 DEF InTable
<1>4. QED BY <1>2, <1>3 DEF n

LEMMA VacationMentioned ==
  ASSUME NEW cmd, NEW f
  PROVE  Mentions(cmd, <<"vacation", f>>) <=>
           /\ ForVacation(cmd)
           /\ IF f \in {"days", "hours"}
              THEN "days" \in DOMAIN Document(cmd) \/ "hours" \in DOMAIN Document(cmd)
              ELSE f \in DOMAIN Document(cmd)
<1> DEFINE n == <<"vacation", f>>
<1>1. n[1] = "vacation" /\ n[2] = f
  OBVIOUS
<1> HIDE DEF n
<1>2. QED BY <1>1 DEF n, Mentions

LEMMA VacationAsked ==
  ASSUME NEW cmd, NEW v, NEW f, NEW doc, doc = Document(cmd)
  PROVE  /\ f = "hours" /\ v = (IF "days" \in DOMAIN doc THEN 24 * doc.days ELSE doc.hours) =>
              Asks(cmd, <<"vacation", f>>, v)
         /\ f = "days" /\ "days" \in DOMAIN doc /\ v = doc.days =>
              Asks(cmd, <<"vacation", f>>, v)
         /\ /\ f = "days" /\ "days" \notin DOMAIN doc
            /\ doc.hours <= ShowableHours => RoundedUp(v, doc.hours)
            => Asks(cmd, <<"vacation", f>>, v)
         /\ f = "fanMode" /\ v = (IF doc.fanMode \in FanWords THEN doc.fanMode ELSE "auto") =>
              Asks(cmd, <<"vacation", f>>, v)
         /\ f \notin {"hours", "days", "fanMode"} /\ v = doc[f] =>
              Asks(cmd, <<"vacation", f>>, v)
<1> DEFINE n == <<"vacation", f>>
<1>1. n[1] = "vacation" /\ n[2] = f
  OBVIOUS
<1> HIDE DEF n
<1>2. Asks(cmd, n, v) <=>
        CASE f = "hours" -> v = IF "days" \in DOMAIN doc THEN 24 * doc.days ELSE doc.hours
          [] f = "days" -> IF "days" \in DOMAIN doc THEN v = doc.days
                           ELSE doc.hours <= ShowableHours => RoundedUp(v, doc.hours)
          [] f = "fanMode" -> v = IF doc.fanMode \in FanWords THEN doc.fanMode ELSE "auto"
          [] OTHER -> v = doc[f]
  BY <1>1 DEF Asks
<1>3. CASE f = "hours"
  BY <1>2, <1>3 DEF n
<1>4. CASE f = "days"
  BY <1>2, <1>4 DEF n
<1>5. CASE f = "fanMode"
  BY <1>2, <1>5 DEF n
<1>6. CASE f \notin {"hours", "days", "fanMode"}
  BY <1>2, <1>6 DEF n
<1>7. QED BY <1>3, <1>4, <1>5, <1>6

\* What Obeys says of the name n, shown as u before and as v after.
Done(cmd, w, n, u, v) ==
  \/ Mentions(cmd, n) /\ Asks(cmd, n, v)
  \/ EndsVacation(cmd) /\ NoVacationShows(n, v)
  \/ v = u /\ ~(Mentions(cmd, n) /\ InTable(n, w))

AllDone(cmd, w, r, s) == \A n \in Names : Done(cmd, w, n, View(r)[n], View(s)[n])

LEMMA ByName ==
  ASSUME NEW cmd, NEW w, NEW r, NEW s,
         Done(cmd, w, <<"mode">>, rawModeToString(r.mode), rawModeToString(s.mode)),
         \A z \in Zones, f \in ZoneFields \cup {"preset"} :
           Done(cmd, w, <<"zone", z, f>>, zoneToAPI(r.zone[z])[f], zoneToAPI(s.zone[z])[f]),
         \A f \in VacationFields \cup {"days"} :
           Done(cmd, w, <<"vacation", f>>, toAPI(r.vacation)[f], toAPI(s.vacation)[f])
  PROVE  AllDone(cmd, w, r, s)
<1>1. SUFFICES ASSUME NEW n \in Names
               PROVE  Done(cmd, w, n, View(r)[n], View(s)[n])
  BY DEF AllDone
<1>2. CASE n = <<"mode">>
  BY <1>2, ViewIs
<1>3. ASSUME NEW z \in Zones, NEW f \in ZoneFields \cup {"preset"}, n = <<"zone", z, f>>
      PROVE  Done(cmd, w, n, View(r)[n], View(s)[n])
  BY <1>3, ViewIs
<1>4. ASSUME NEW f \in VacationFields \cup {"days"}, n = <<"vacation", f>>
      PROVE  Done(cmd, w, n, View(r)[n], View(s)[n])
  BY <1>4, ViewIs
<1>5. QED BY <1>2, <1>3, <1>4 DEF Names

-----------------------------------------------------------------------------
(* The effect of a write.                                                  *)

LEMMA ModeEffect ==
  ASSUME NEW r, IsRegisters(r), NEW cmd, NEW w, IsModeWrite(w, cmd)
  PROVE  AllDone(cmd, w, r, Applied(r, w))
<1> DEFINE s == Applied(r, w)
<1>1. s.mode = w.params.mode /\ s.zone = r.zone /\ s.vacation = r.vacation
  BY DEF Applied, IsModeWrite, IsRegisters
<1> HIDE DEF s
<1>2. w.table = "current"
  BY DEF IsModeWrite
<1>3. Done(cmd, w, <<"mode">>, rawModeToString(r.mode), rawModeToString(s.mode))
  BY <1>1, OfMode DEF IsModeWrite, Done
<1>4. \A z, f : Done(cmd, w, <<"zone", z, f>>, zoneToAPI(r.zone[z])[f], zoneToAPI(s.zone[z])[f])
  BY <1>1, <1>2, OfZone DEF Done
<1>5. \A f : Done(cmd, w, <<"vacation", f>>, toAPI(r.vacation)[f], toAPI(s.vacation)[f])
  BY <1>1, <1>2, OfVacation DEF Done
<1>6. AllDone(cmd, w, r, s)
  BY <1>3, <1>4, <1>5, ByName
<1>7. QED BY <1>6 DEF s

LEMMA ZoneShown ==
  ASSUME NEW z
  PROVE  /\ \A f \in ZoneFields : zoneToAPI(z)[f] = ShownZone(f, z[f])
         /\ zoneToAPI(z)["preset"] = IF z.hold = 1 THEN "hold" ELSE "none"
  BY DEF zoneToAPI, ShownZone, ZoneFields

LEMMA ZoneEffect ==
  ASSUME NEW r, IsRegisters(r), NEW cmd, NEW w, IsZoneWrite(w, cmd)
  PROVE  AllDone(cmd, w, r, Applied(r, w))
<1> DEFINE s == Applied(r, w)
           new == Merge(r.zone[w.zone], w)
<1>1. s.mode = r.mode /\ s.vacation = r.vacation
  BY DEF Applied, IsZoneWrite, IsRegisters
<1>2. \A z \in Zones : s.zone[z] = IF z = w.zone THEN new ELSE r.zone[z]
  BY DEF Applied, IsZoneWrite, IsRegisters
<1>3. w.zone \in Zones =>
        \A f \in ZoneFields : new[f] = IF f \in w.flags THEN w.params[f] ELSE r.zone[w.zone][f]
  BY DEF Merge, IsRegisters
<1>4. /\ w.table = "zone" /\ w.zone = cmd.zone /\ ForZone(cmd)
      /\ w.flags = ZoneFields \cap DOMAIN Document(cmd)
      /\ \A f \in w.flags : Document(cmd)[f] = ShownZone(f, w.params[f])
  BY DEF IsZoneWrite
<1> HIDE DEF s, new
<1>5. ASSUME NEW z \in Zones, NEW f \in ZoneFields \cup {"preset"}
      PROVE  Done(cmd, w, <<"zone", z, f>>, zoneToAPI(r.zone[z])[f], zoneToAPI(s.zone[z])[f])
  <2>1. CASE z # w.zone
    <3>1. s.zone[z] = r.zone[z] /\ z # cmd.zone
      BY <1>2, <1>4, <2>1
    <3>2. QED BY <3>1, OfZone DEF Done
  <2>2. CASE z = w.zone /\ f = "preset"
    <3>1. "hold" \in ZoneFields /\ s.zone[z] = new
      BY <1>2, <2>2 DEF ZoneFields
    <3>2. zoneToAPI(new)["preset"] = IF new.hold = 1 THEN "hold" ELSE "none"
      BY ZoneShown
    <3>3. CASE "hold" \in DOMAIN Document(cmd)
      <4>1. Document(cmd)["hold"] = ShownZone("hold", new["hold"])
        BY <1>3, <1>4, <2>2, <3>1, <3>3
      <4>2. Document(cmd)["hold"] = (new.hold = 1)
        BY <4>1 DEF ShownZone
      <4>3. zoneToAPI(s.zone[z])[f] = IF Document(cmd).hold THEN "hold" ELSE "none"
        BY <2>2, <3>1, <3>2, <4>2
      <4>4. /\ Mentions(cmd, <<"zone", z, f>>)
            /\ Asks(cmd, <<"zone", z, f>>, zoneToAPI(s.zone[z])[f])
        BY <1>4, <2>2, <3>3, <4>3, OfZone
      <4>5. QED BY <4>4 DEF Done
    <3>4. CASE "hold" \notin DOMAIN Document(cmd)
      <4>1. new["hold"] = r.zone[z]["hold"]
        BY <1>3, <1>4, <2>2, <3>1, <3>4
      <4>2. zoneToAPI(new)["preset"] = zoneToAPI(r.zone[z])["preset"]
        BY <4>1, ZoneShown
      <4>3. QED BY <2>2, <3>1, <3>4, <4>2, OfZone DEF Done
    <3>5. QED BY <3>3, <3>4
  <2>3. CASE z = w.zone /\ f # "preset"
    <3>1. f \in ZoneFields /\ s.zone[z] = new
      BY <1>2, <2>3
    <3>2. zoneToAPI(new)[f] = ShownZone(f, new[f])
      BY <3>1, ZoneShown
    <3>3. CASE f \in DOMAIN Document(cmd)
      <4>1. Document(cmd)[f] = ShownZone(f, new[f])
        BY <1>3, <1>4, <2>3, <3>1, <3>3
      <4>2. QED BY <1>4, <2>3, <3>1, <3>2, <3>3, <4>1, OfZone DEF Done
    <3>4. CASE f \notin DOMAIN Document(cmd)
      <4>1. new[f] = r.zone[z][f]
        BY <1>3, <1>4, <2>3, <3>1, <3>4
      <4>2. zoneToAPI(new)[f] = zoneToAPI(r.zone[z])[f]
        BY <3>1, <4>1, ZoneShown
      <4>3. QED BY <2>3, <3>1, <3>4, <4>2, OfZone DEF Done
    <3>5. QED BY <3>3, <3>4
  <2>4. QED BY <2>1, <2>2, <2>3
<1>6. Done(cmd, w, <<"mode">>, rawModeToString(r.mode), rawModeToString(s.mode))
  BY <1>1, <1>4, OfMode DEF Done
<1>7. \A f : Done(cmd, w, <<"vacation", f>>, toAPI(r.vacation)[f], toAPI(s.vacation)[f])
  BY <1>1, <1>4, OfVacation DEF Done
<1>8. AllDone(cmd, w, r, s)
  BY <1>5, <1>6, <1>7, ByName
<1>9. QED BY <1>8 DEF s

\* The fields that a document sets.
Sets(args, f) == f \in DOMAIN args \/ (f = "hours" /\ "days" \in DOMAIN args)

LEMMA FromAPI ==
  ASSUME NEW args, IsDocument(args)
  PROVE  LET w == fromAPI(args) IN
         /\ w.table = "vacation" /\ IsVacation(w.params)
         /\ w.flags = {f \in VacationFields : Sets(args, f)}
         /\ \A f \in w.flags : w.params[f] = Raw(args, f)
<1> DEFINE w == fromAPI(args)
           named == {IF f = "days" THEN "hours" ELSE f : f \in DOMAIN args}
<1>1. named = {f \in VacationFields : Sets(args, f)}
  <2>1. "hours" \in VacationFields /\ "days" \notin VacationFields
    BY DEF VacationFields
  <2>2. DOMAIN args \subseteq VacationFields \cup {"days"}
    BY DEF IsDocument
  <2>3. QED BY <2>1, <2>2 DEF Sets
<1>2. /\ w.table = "vacation" /\ w.flags = named
      /\ w.params = [f \in VacationFields |-> IF f \in named THEN Raw(args, f) ELSE 0]
  BY DEF fromAPI, VacationWrite, Raw
<1>3. ASSUME NEW f \in named
      PROVE  Raw(args, f) \in Width(f)
  <2>1. f \in VacationFields /\ Sets(args, f)
    BY <1>1
  <2>2. CASE f = "active"
    BY <2>2 DEF Raw, Width, Byte
  <2>3. CASE f = "hours"
    <3>1. CASE "days" \in DOMAIN args
      <4>1. args.days \in Byte
        BY <3>1 DEF IsDocument, Width
      <4>2. QED BY <2>3, <3>1, <4>1, DaysThereAndBack DEF Raw, Width
    <3>2. CASE "days" \notin DOMAIN args
      BY <2>1, <2>3, <3>2 DEF Raw, Sets, IsDocument
    <3>3. QED BY <3>1, <3>2
  <2>4. CASE f = "fanMode"
    BY <2>4, FanModeThereAndBack DEF Raw, Width
  <2>5. CASE f \notin {"active", "hours", "fanMode"}
    BY <2>1, <2>5 DEF Raw, Sets, IsDocument
  <2>6. QED BY <2>2, <2>3, <2>4, <2>5
<1>4. \A f \in VacationFields : 0 \in Width(f)
  BY DEF Width, Byte, TwoBytes
<1> HIDE DEF w, named
<1>5. IsVacation(w.params)
  BY <1>2, <1>3, <1>4 DEF IsVacation
<1>6. \A f \in w.flags : w.params[f] = Raw(args, f)
  BY <1>1, <1>2
<1>7. QED BY <1>1, <1>2, <1>5, <1>6 DEF w

LEMMA VacationShown ==
  ASSUME NEW v
  PROVE  \A f \in VacationFields \cup {"days"} :
           toAPI(v)[f] = CASE f = "active" -> v.active = 1
                           [] f = "days" -> DaysOf(v.hours)
                           [] f = "fanMode" -> rawFanModeToString(v.fanMode)
                           [] OTHER -> v[f]
  BY DEF toAPI

LEMMA VacationEffect ==
  ASSUME NEW r, IsRegisters(r), NEW cmd, NEW w, IsVacationWrite(w, cmd)
  PROVE  AllDone(cmd, w, r, Applied(r, w))
<1> DEFINE s == Applied(r, w)
           doc == Document(cmd)
           old == r.vacation
           new == Merge(r.vacation, w)
<1>1. ForVacation(cmd) /\ IsDocument(doc) /\ w = fromAPI(doc)
  BY DEF IsVacationWrite
<1>2. /\ w.table = "vacation" /\ w.flags = {f \in VacationFields : Sets(doc, f)}
      /\ \A f \in w.flags : w.params[f] = Raw(doc, f)
  BY <1>1, FromAPI
<1>3. s.mode = r.mode /\ s.zone = r.zone /\ s.vacation = new
  BY <1>2 DEF Applied, IsRegisters
<1>4. \A f \in VacationFields : new[f] = IF Sets(doc, f) THEN Raw(doc, f) ELSE old[f]
  BY <1>2 DEF Merge, IsRegisters, IsVacation
<1> HIDE DEF s, doc, old, new
<1>5. "hours" \in VacationFields
  BY DEF VacationFields
<1>6. ASSUME NEW f \in VacationFields \cup {"days"}
      PROVE  Done(cmd, w, <<"vacation", f>>, toAPI(old)[f], toAPI(new)[f])
  <2> DEFINE n == <<"vacation", f>>
             v == toAPI(new)[f]
  <2>1. CASE f = "days" /\ Sets(doc, "hours")
    <3>1. v = DaysOf(new["hours"]) /\ new["hours"] = Raw(doc, "hours")
      BY <1>4, <1>5, <2>1, VacationShown
    <3>2. Mentions(cmd, n)
      BY <1>1, <2>1, VacationMentioned DEF Sets, doc
    <3>3. Asks(cmd, n, v)
      <4>1. CASE "days" \in DOMAIN doc
        <5>1. doc.days \in Byte
          BY <1>1, <4>1 DEF IsDocument, Width
        <5>2. v = doc.days
          BY <3>1, <4>1, <5>1, DaysThereAndBack DEF Raw
        <5>3. QED BY <2>1, <4>1, <5>2, VacationAsked DEF doc
      <4>2. CASE "days" \notin DOMAIN doc
        <5>1. v = DaysOf(doc.hours) /\ doc.hours \in Nat
          BY <1>1, <2>1, <3>1, <4>2 DEF Raw, Sets, IsDocument, Width, TwoBytes
        <5>2. doc.hours <= ShowableHours => RoundedUp(v, doc.hours)
          BY <5>1, DaysRoundUp
        <5> HIDE DEF v
        <5>3. QED BY <2>1, <4>2, <5>2, VacationAsked DEF doc
      <4>3. QED BY <4>1, <4>2
    <3>4. QED BY <3>2, <3>3 DEF Done
  <2>2. CASE f = "days" /\ ~Sets(doc, "hours")
    <3>1. v = toAPI(old)[f]
      BY <1>4, <1>5, <2>2, VacationShown
    <3>2. ~Mentions(cmd, n)
      BY <2>2, VacationMentioned DEF Sets, doc
    <3>3. QED BY <3>1, <3>2 DEF Done
  <2>3. ASSUME f # "days", ~Sets(doc, f)
        PROVE  Done(cmd, w, <<"vacation", f>>, toAPI(old)[f], toAPI(new)[f])
    <3>1. new[f] = old[f]
      BY <1>4, <2>3
    <3>2. v = toAPI(old)[f]
      BY <2>3, <3>1, VacationShown
    <3>3. ~Mentions(cmd, n)
      BY <2>3, VacationMentioned DEF Sets, doc
    <3>4. QED BY <3>2, <3>3 DEF Done
  <2>4. ASSUME f # "days", Sets(doc, f)
        PROVE  Done(cmd, w, <<"vacation", f>>, toAPI(old)[f], toAPI(new)[f])
    <3>1. f \in VacationFields /\ new[f] = Raw(doc, f)
      BY <1>4, <2>4
    <3>2. Mentions(cmd, n)
      BY <1>1, <2>4, VacationMentioned DEF Sets, doc
    <3>3. v = CASE f = "active" -> new.active = 1
                [] f = "fanMode" -> rawFanModeToString(new.fanMode)
                [] OTHER -> new[f]
      BY <2>4, VacationShown
    <3> HIDE DEF v
    <3>4. Asks(cmd, n, v)
      <4>1. CASE f = "hours"
        <5>1. v = Raw(doc, "hours")
          BY <3>1, <3>3, <4>1
        <5>2. "days" \in DOMAIN doc => v = 24 * doc.days
          <6>1. "days" \in DOMAIN doc => doc.days \in Byte
            BY <1>1 DEF IsDocument, Width
          <6>2. QED BY <5>1, <6>1, DaysThereAndBack DEF Raw
        <5>3. "days" \notin DOMAIN doc => v = doc.hours
          BY <5>1 DEF Raw
        <5>4. QED BY <4>1, <5>2, <5>3, VacationAsked DEF doc
      <4>2. CASE f = "active"
        <5>1. "active" \in DOMAIN doc /\ new["active"] = (IF doc.active THEN 1 ELSE 0)
          BY <2>4, <3>1, <4>2 DEF Raw, Sets
        <5>2. doc.active \in BOOLEAN
          BY <1>1, <5>1 DEF IsDocument
        <5>3. v = doc.active
          BY <3>3, <4>2, <5>1, <5>2
        <5>4. QED BY <4>2, <5>3, VacationAsked DEF doc
      <4>3. CASE f = "fanMode"
        <5>1. v = rawFanModeToString(stringFanModeToRaw(doc.fanMode).raw)
          BY <3>1, <3>3, <4>3 DEF Raw
        <5>2. v = IF doc.fanMode \in FanWords THEN doc.fanMode ELSE "auto"
          BY <5>1, FanModeThereAndBack
        <5>3. QED BY <4>3, <5>2, VacationAsked DEF doc
      <4>4. CASE f \notin {"hours", "active", "fanMode"}
        <5>1. v = doc[f]
          BY <3>1, <3>3, <4>4 DEF Raw
        <5>2. QED BY <2>4, <4>4, <5>1, VacationAsked DEF doc
      <4>5. QED BY <4>1, <4>2, <4>3, <4>4
    <3>5. QED BY <3>2, <3>4 DEF Done, v
  <2>5. QED BY <2>1, <2>2, <2>3, <2>4
<1>7. Done(cmd, w, <<"mode">>, rawModeToString(r.mode), rawModeToString(s.mode))
  BY <1>2, <1>3, OfMode DEF Done
<1>8. \A z, f : Done(cmd, w, <<"zone", z, f>>, zoneToAPI(r.zone[z])[f], zoneToAPI(s.zone[z])[f])
  BY <1>2, <1>3, OfZone DEF Done
<1>9. AllDone(cmd, w, r, s)
  BY <1>3, <1>6, <1>7, <1>8, ByName DEF old
<1>10. QED BY <1>9 DEF s

\* A write after which the thermostat may end the vacation is one of a command
\* that ends it.
LEMMA EndIsAsked ==
  ASSUME NEW cmd, NEW w, IsWriteOf(w, cmd), MayEndVacation(w)
  PROVE  EndsVacation(cmd)
<1> DEFINE doc == Document(cmd)
<1>1. CASE IsModeWrite(w, cmd)
  BY <1>1 DEF IsModeWrite, MayEndVacation
<1>2. CASE IsZoneWrite(w, cmd)
  <2>1. "hold" \in w.flags /\ w.params.hold = 1
    BY <1>2 DEF IsZoneWrite, MayEndVacation
  <2>2. ForZone(cmd) /\ "hold" \in DOMAIN doc /\ doc["hold"] = ShownZone("hold", w.params["hold"])
    BY <1>2, <2>1 DEF IsZoneWrite
  <2>3. doc.hold = TRUE
    BY <2>1, <2>2 DEF ShownZone
  <2>4. QED BY <2>2, <2>3 DEF EndsVacation
<1>3. CASE IsVacationWrite(w, cmd)
  <2>1. ForVacation(cmd) /\ IsDocument(doc) /\ w = fromAPI(doc)
    BY <1>3 DEF IsVacationWrite
  <2>2. /\ w.table = "vacation" /\ w.flags = {f \in VacationFields : Sets(doc, f)}
        /\ \A f \in w.flags : w.params[f] = Raw(doc, f)
    BY <2>1, FromAPI
  <2>3. Sets(doc, "hours") /\ Raw(doc, "hours") = 0
    BY <2>2 DEF MayEndVacation
  <2> HIDE DEF doc
  <2>4. CASE "days" \in DOMAIN doc
    <3>1. doc.days \in Byte
      BY <2>1, <2>4 DEF IsDocument, Width
    <3>2. 24 * doc.days = 0
      BY <2>3, <2>4, <3>1, DaysThereAndBack DEF Raw
    <3>3. doc.days = 0
      BY <3>1, <3>2 DEF Byte
    <3>4. QED BY <2>1, <2>4, <3>3 DEF EndsVacation, doc
  <2>5. CASE "days" \notin DOMAIN doc
    BY <2>1, <2>3, <2>5 DEF EndsVacation, Raw, Sets, doc
  <2>6. QED BY <2>4, <2>5
<1>4. QED BY <1>1, <1>2, <1>3 DEF IsWriteOf

LEMMA EndedToo ==
  ASSUME NEW r, NEW s, IsRegisters(s), NEW cmd, NEW w, EndsVacation(cmd), AllDone(cmd, w, r, s)
  PROVE  AllDone(cmd, w, r, WithoutVacation(s))
<1> DEFINE e == WithoutVacation(s)
<1>1. /\ e.mode = s.mode /\ e.zone = s.zone
      /\ \A f \in VacationFields :
           e.vacation[f] = IF f \in {"active", "hours"} THEN 0 ELSE s.vacation[f]
  BY DEF WithoutVacation, IsRegisters, IsVacation, VacationFields
<1> HIDE DEF e
<1>2. /\ <<"mode">> \in Names
      /\ \A z \in Zones, f \in ZoneFields \cup {"preset"} : <<"zone", z, f>> \in Names
      /\ \A f \in VacationFields \cup {"days"} : <<"vacation", f>> \in Names
  BY DEF Names
<1>3. Done(cmd, w, <<"mode">>, rawModeToString(r.mode), rawModeToString(e.mode))
  BY <1>1, <1>2, ViewIs DEF AllDone
<1>4. \A z \in Zones, f \in ZoneFields \cup {"preset"} :
        Done(cmd, w, <<"zone", z, f>>, zoneToAPI(r.zone[z])[f], zoneToAPI(e.zone[z])[f])
  <2>1. TAKE z \in Zones, f \in ZoneFields \cup {"preset"}
  <2>2. Done(cmd, w, <<"zone", z, f>>, View(r)[<<"zone", z, f>>], View(s)[<<"zone", z, f>>])
    BY <1>2 DEF AllDone
  <2>3. /\ View(r)[<<"zone", z, f>>] = zoneToAPI(r.zone[z])[f]
        /\ View(s)[<<"zone", z, f>>] = zoneToAPI(s.zone[z])[f]
    BY ViewIs
  <2>4. QED BY <1>1, <2>2, <2>3
<1>5. ASSUME NEW f \in VacationFields \cup {"days"}
      PROVE  Done(cmd, w, <<"vacation", f>>, toAPI(r.vacation)[f], toAPI(e.vacation)[f])
  <2> DEFINE v == toAPI(e.vacation)[f]
  <2>1. CASE f \in {"active", "hours", "days"}
    <3>1. e.vacation["active"] = 0 /\ e.vacation["hours"] = 0
      BY <1>1 DEF VacationFields
    <3>2. DaysOf(0) = 0
      BY DEF DaysOf
    <3>3. v = CASE f = "active" -> e.vacation.active = 1
                [] f = "days" -> DaysOf(e.vacation.hours)
                [] OTHER -> e.vacation[f]
      BY <2>1, VacationShown
    <3> HIDE DEF v
    <3>4. NoVacationShows(<<"vacation", f>>, v)
      <4>1. CASE f = "active"
        <5>1. v = (e.vacation["active"] = 1)
          BY <3>3, <4>1
        <5>2. e.vacation["active"] # 1
          BY <3>1
        <5>3. v = FALSE
          BY <5>1, <5>2
        <5>4. QED BY <4>1, <5>3, OfVacation
      <4>2. CASE f = "hours"
        BY <3>1, <3>3, <4>2, OfVacation
      <4>3. CASE f = "days"
        BY <3>1, <3>2, <3>3, <4>3, OfVacation
      <4>4. QED BY <2>1, <4>1, <4>2, <4>3
    <3>5. QED BY <3>4 DEF Done, v
  <2>2. CASE f \notin {"active", "hours", "days"}
    <3>1. e.vacation[f] = s.vacation[f]
      BY <1>1, <2>2
    <3>2. v = toAPI(s.vacation)[f]
      BY <2>2, <3>1, VacationShown
    <3>3. Done(cmd, w, <<"vacation", f>>, View(r)[<<"vacation", f>>], View(s)[<<"vacation", f>>])
      BY <1>2 DEF AllDone
    <3>4. QED BY <3>2, <3>3, ViewIs
  <2>3. QED BY <2>1, <2>2
<1>6. AllDone(cmd, w, r, e)
  BY <1>3, <1>4, <1>5, ByName
<1>7. QED BY <1>6 DEF e

-----------------------------------------------------------------------------
(* The types of what is written.                                           *)

LEMMA WriteTypes ==
  ASSUME NEW cmd, NEW w, IsWriteOf(w, cmd)
  PROVE  IsWrite(w)
<1>1. CASE IsModeWrite(w, cmd)
  BY <1>1 DEF IsModeWrite, IsWrite
<1>2. CASE IsZoneWrite(w, cmd)
  BY <1>2 DEF IsZoneWrite, IsWrite
<1>3. CASE IsVacationWrite(w, cmd)
  <2>1. IsDocument(Document(cmd)) /\ w = fromAPI(Document(cmd))
    BY <1>3 DEF IsVacationWrite
  <2>2. w.table = "vacation" /\ IsVacation(w.params)
    BY <2>1, FromAPI
  <2>3. QED BY <2>2 DEF IsWrite
<1>4. QED BY <1>1, <1>2, <1>3 DEF IsWriteOf

LEMMA AppliedTypes ==
  ASSUME NEW r, IsRegisters(r), NEW w, IsWrite(w)
  PROVE  IsRegisters(Applied(r, w))
<1> DEFINE s == Applied(r, w)
<1>1. CASE w.table = "zone" /\ w.params \in [ZoneFields -> Byte]
  <2>1. CASE w.zone \in Zones
    <3>1. s = [r EXCEPT !.zone[w.zone] = Merge(r.zone[w.zone], w)]
      BY <1>1, <2>1 DEF Applied
    <3>2. r.zone[w.zone] \in [ZoneFields -> Byte]
      BY <2>1 DEF IsRegisters
    <3>3. Merge(r.zone[w.zone], w) \in [ZoneFields -> Byte]
      BY <1>1, <3>2 DEF Merge
    <3>4. QED BY <3>1, <3>3 DEF IsRegisters
  <2>2. CASE w.zone \notin Zones
    BY <1>1, <2>2 DEF Applied
  <2>3. QED BY <2>1, <2>2
<1>2. CASE w.table = "current" /\ w.params.mode \in Byte
  BY <1>2 DEF Applied, IsRegisters
<1>3. CASE w.table = "vacation" /\ IsVacation(w.params)
  <2>1. s = [r EXCEPT !.vacation = Merge(r.vacation, w)]
    BY <1>3 DEF Applied
  <2>2. IsVacation(Merge(r.vacation, w))
    BY <1>3 DEF Merge, IsRegisters, IsVacation
  <2>3. QED BY <2>1, <2>2 DEF IsRegisters
<1>4. QED BY <1>1, <1>2, <1>3 DEF IsWrite

LEMMA OutcomeTypes ==
  ASSUME NEW r, IsRegisters(r), NEW w, IsWrite(w), NEW s \in Outcomes(r, w)
  PROVE  IsRegisters(s)
<1> DEFINE a == Applied(r, w)
<1>1. IsRegisters(a)
  BY AppliedTypes
<1>2. s = a \/ s = WithoutVacation(a)
  BY DEF Outcomes
<1> HIDE DEF a
<1>3. IsVacation([a.vacation EXCEPT !.active = 0, !.hours = 0])
  <2> DEFINE v == a.vacation
             u == [v EXCEPT !.active = 0, !.hours = 0]
  <2>1. DOMAIN v = VacationFields /\ \A f \in VacationFields : v[f] \in Width(f)
    BY <1>1 DEF IsRegisters, IsVacation
  <2> HIDE DEF v
  <2>2. /\ DOMAIN u = VacationFields
        /\ \A f \in VacationFields : u[f] = 0 \/ u[f] = v[f]
    BY <2>1
  <2>3. \A f \in VacationFields : 0 \in Width(f)
    BY DEF Width, Byte, TwoBytes
  <2> HIDE DEF u
  <2>4. IsVacation(u)
    BY <2>1, <2>2, <2>3 DEF IsVacation
  <2>5. QED BY <2>4 DEF u, v
<1>4. IsRegisters(WithoutVacation(a))
  BY <1>1, <1>3 DEF WithoutVacation, IsRegisters
<1>5. QED BY <1>1, <1>2, <1>4

-----------------------------------------------------------------------------
(* The invariant: what is pending or late are writes of the command beside *)
(* it, the tables keep their types, and the vacation that is shown was     *)
(* made from one that the thermostat had.                                  *)

LEMMA WritesInTurn ==
  ASSUME NEW cmd, NEW s, AreWritesOf(s, cmd), s # <<>>
  PROVE  /\ IsWriteOf(Head(s), cmd) /\ AreWritesOf(Tail(s), cmd)
         /\ Len(s) \in 1 .. 2 /\ Len(Tail(s)) = Len(s) - 1
         /\ Len(s) = 1 <=> Tail(s) = <<>>
<1>1. CASE \E w : s = <<w>> /\ IsWriteOf(w, cmd)
  <2>1. PICK w : s = <<w>> /\ IsWriteOf(w, cmd)
    BY <1>1
  <2>2. Head(s) = w /\ Tail(s) = <<>> /\ Len(s) = 1 /\ Len(Tail(s)) = 0
    BY <2>1
  <2>3. QED BY <2>1, <2>2 DEF AreWritesOf
<1>2. CASE \E v, w : s = <<v, w>> /\ IsWriteOf(v, cmd) /\ IsWriteOf(w, cmd)
  <2>1. PICK v, w : s = <<v, w>> /\ IsWriteOf(v, cmd) /\ IsWriteOf(w, cmd)
    BY <1>2
  <2>2. Head(s) = v /\ Tail(s) = <<w>> /\ Len(s) = 2 /\ Len(Tail(s)) = 1
    BY <2>1
  <2>3. Tail(s) # <<>>
    BY <2>2
  <2>4. QED BY <2>1, <2>2, <2>3 DEF AreWritesOf
<1>3. QED BY <1>1, <1>2 DEF AreWritesOf

LEMMA NoCommandIsNone == NoCommand \notin Commands
  BY CommandsAssumption DEF NoCommand, IsCommand

PendingInv ==
  /\ DOMAIN pending = Handlers /\ command \in [Handlers -> Commands \cup {NoCommand}]
  /\ \A h \in Handlers :
       \/ pending[h] = <<>> /\ command[h] = NoCommand
       \/ /\ pending[h] # <<>> /\ command[h] \in Commands
          /\ AreWritesOf(pending[h], command[h])

IsCopy(c) == c.command \in Commands /\ IsWriteOf(c.write, c.command)

LateInv == \E S : late \in Seq(S) /\ \A c \in S : IsCopy(c)

ShownInv ==
  /\ shown.vacation # Nothing => \E v : IsVacation(v) /\ shown.vacation = toAPI(v)
  /\ stray.table \in {"mode", "zone", "vacation", "none"}
  /\ stray.table = "vacation" => IsVacation(stray.content)

CountsInv ==
  /\ commands \in 0 .. MaxCommands /\ changes \in 0 .. MaxChanges
  /\ failures \in 0 .. MaxFailures /\ copies \in 0 .. MaxCopies /\ Len(late) <= copies
  /\ crashed \in BOOLEAN /\ poll.pc \in PollPCs

Inv == IsRegisters(reg) /\ PendingInv /\ LateInv /\ ShownInv /\ CountsInv

LEMMA InitInv == Init => Inv
<1> SUFFICES ASSUME Init PROVE Inv
  OBVIOUS
<1>1. IsRegisters(reg) /\ PendingInv
  BY CommandsAssumption DEF Init, PendingInv
<1>2. LateInv
  <2>1. late \in Seq({})
    BY DEF Init
  <2>2. QED BY <2>1 DEF LateInv
<1>3. ShownInv
  BY DEF Init, ShownInv, NoAnswer
<1>4. CountsInv
  <2>1. commands = 0 /\ changes = 0 /\ failures = 0 /\ copies = 0 /\ Len(late) = 0
    BY DEF Init
  <2>2. /\ 0 \in 0 .. MaxCommands /\ 0 \in 0 .. MaxChanges /\ 0 \in 0 .. MaxFailures
        /\ 0 \in 0 .. MaxCopies
    BY CommandsAssumption
  <2>3. crashed \in BOOLEAN /\ poll.pc \in PollPCs
    BY DEF Init, PollPCs
  <2>4. QED BY <2>1, <2>2, <2>3 DEF CountsInv
<1>5. QED BY <1>1, <1>2, <1>3, <1>4 DEF Inv

LEMMA BeginKeeps ==
  ASSUME Inv, NEW h \in Handlers, NEW cmd \in Commands, Begin(h, cmd)
  PROVE  Inv'
<1>1. IsRegisters(reg)' /\ LateInv' /\ ShownInv'
  BY DEF Inv, Begin, LateInv, ShownInv, deviceVars, pollVars
<1>2. PendingInv'
  <2>1. AreWritesOf(WritesOf(cmd), cmd)
    BY WritesAre
  <2>2. QED BY <2>1 DEF Inv, Begin, PendingInv
<1>3. CountsInv'
  BY CommandsAssumption DEF Inv, Begin, CountsInv, deviceVars, pollVars
<1>4. QED BY <1>1, <1>2, <1>3 DEF Inv

\* The handler's part of a write, applied or not.
LEMMA NextWriteKeeps ==
  ASSUME Inv, NEW h \in Handlers, pending[h] # <<>>, NextWrite(h), MayLeaveCopy(h)
  PROVE  /\ PendingInv' /\ LateInv' /\ Len(late') <= copies' /\ copies' \in 0 .. MaxCopies
         /\ IsWriteOf(Head(pending[h]), command[h]) /\ command[h] \in Commands
<1>1. command[h] \in Commands /\ AreWritesOf(pending[h], command[h])
  BY DEF Inv, PendingInv
<1>2. /\ IsWriteOf(Head(pending[h]), command[h]) /\ AreWritesOf(Tail(pending[h]), command[h])
      /\ Len(pending[h]) = 1 <=> Tail(pending[h]) = <<>>
  BY <1>1, WritesInTurn
<1>3. PendingInv'
  BY <1>1, <1>2 DEF Inv, PendingInv, NextWrite
<1>4. LateInv' /\ Len(late') <= copies' /\ copies' \in 0 .. MaxCopies
  <2>1. CASE UNCHANGED <<late, copies>>
    BY <2>1 DEF Inv, LateInv, CountsInv
  <2>2. CASE /\ copies < MaxCopies /\ copies' = copies + 1
             /\ late' = Append(late, [command |-> command[h], write |-> Head(pending[h])])
    <3> DEFINE c == [command |-> command[h], write |-> Head(pending[h])]
    <3>1. IsCopy(c)
      BY <1>1, <1>2 DEF IsCopy
    <3>2. PICK S : late \in Seq(S) /\ \A d \in S : IsCopy(d)
      BY DEF Inv, LateInv
    <3> HIDE DEF c
    <3>3. late \in Seq(S \cup {c})
      <4>1. S \subseteq S \cup {c}
        OBVIOUS
      <4>2. QED BY <3>2, <4>1
    <3>4. Append(late, c) \in Seq(S \cup {c}) /\ Len(Append(late, c)) = Len(late) + 1
      BY <3>3, AppendProperties
    <3>5. LateInv'
      <4>1. \A d \in S \cup {c} : IsCopy(d)
        BY <3>1, <3>2
      <4>2. late' \in Seq(S \cup {c})
        BY <2>2, <3>4 DEF c
      <4>3. QED BY <4>1, <4>2 DEF LateInv
    <3>6. Len(late') <= copies' /\ copies' \in 0 .. MaxCopies
      <4>1. Len(late') = Len(late) + 1
        BY <2>2, <3>4 DEF c
      <4>2. Len(late) \in Nat
        BY <3>2
      <4>3. QED BY <2>2, <4>1, <4>2, CommandsAssumption DEF Inv, CountsInv
    <3>7. QED BY <3>5, <3>6
  <2>3. QED BY <2>1, <2>2 DEF MayLeaveCopy
<1>5. QED BY <1>1, <1>2, <1>3, <1>4

LEMMA LateInTurn ==
  ASSUME LateInv, late # <<>>
  PROVE  /\ IsCopy(Head(late)) /\ Len(Tail(late)) = Len(late) - 1 /\ Len(late) \in Nat
         /\ \E S : Tail(late) \in Seq(S) /\ \A c \in S : IsCopy(c)
<1>1. PICK S : late \in Seq(S) /\ \A c \in S : IsCopy(c)
  BY DEF LateInv
<1>2. Head(late) \in S /\ Tail(late) \in Seq(S) /\ Len(Tail(late)) = Len(late) - 1
  BY <1>1, HeadTailProperties
<1>3. QED BY <1>1, <1>2

LEMMA PublishKeeps ==
  ASSUME Inv, NEW config, NEW vacation, Publish(config, vacation),
         vacation # Nothing => \E v : IsVacation(v) /\ vacation = toAPI(v)
  PROVE  shown'.vacation # Nothing => \E v : IsVacation(v) /\ shown'.vacation = toAPI(v)
<1>1. shown'.vacation = IF vacation = Nothing THEN shown.vacation ELSE vacation
  BY DEF Publish
<1>2. QED BY <1>1 DEF Inv, ShownInv

\* What a read leaves over has the type of its table.
LEMMA ReadKeeps ==
  ASSUME Inv, NEW t \in {"mode", "zone", "vacation"},
         Undisturbed(t) \/ LeavesAnswer(t) \/ LacksAnswer
  PROVE  /\ failures' \in 0 .. MaxFailures
         /\ stray'.table \in {"mode", "zone", "vacation", "none"}
         /\ stray'.table = "vacation" => IsVacation(stray'.content)
<1>1. failures' \in 0 .. MaxFailures
  BY CommandsAssumption DEF Inv, CountsInv, Undisturbed, LeavesAnswer, LacksAnswer, Disturbed
<1>2. CASE Undisturbed(t)
  BY <1>1, <1>2 DEF Inv, ShownInv, Undisturbed, NoAnswer
<1>3. CASE LeavesAnswer(t)
  <2>1. stray'.table = t /\ stray'.content = reg[t]
    BY <1>3 DEF LeavesAnswer
  <2>2. t = "vacation" => IsVacation(reg[t])
    BY DEF Inv, IsRegisters
  <2>3. QED BY <1>1, <2>1, <2>2
<1>4. CASE LacksAnswer
  BY <1>1, <1>4 DEF Inv, ShownInv, LacksAnswer
<1>5. QED BY <1>2, <1>3, <1>4

LEMMA NextInv == Inv /\ [Next]_vars => Inv'
<1> SUFFICES ASSUME Inv, [Next]_vars PROVE Inv'
  OBVIOUS
<1> USE CommandsAssumption
<1>1. ASSUME NEW cmd \in Commands, MqttMessage(cmd) PROVE Inv'
  BY <1>1, BeginKeeps DEF MqttMessage, Handlers
<1>2. ASSUME NEW cmd \in Commands, ShortMqttMessage(cmd) PROVE Inv'
  <2>1. CountsInv'
    BY <1>2 DEF Inv, CountsInv, ShortMqttMessage, deviceVars, pollVars
  <2>2. QED BY <1>2, <2>1
        DEF Inv, PendingInv, LateInv, ShownInv, ShortMqttMessage, deviceVars, pollVars
<1>3. ASSUME NEW h \in RestHandlers, NEW cmd \in Commands, PutRequest(h, cmd) PROVE Inv'
  BY <1>3, BeginKeeps DEF PutRequest, Handlers
<1>4. ASSUME NEW h \in Handlers, PerformWrite(h) PROVE Inv'
  <2>1. /\ PendingInv' /\ LateInv' /\ Len(late') <= copies' /\ copies' \in 0 .. MaxCopies
        /\ IsWriteOf(Head(pending[h]), command[h])
    BY <1>4, NextWriteKeeps DEF PerformWrite
  <2>2. IsRegisters(reg)'
    <3>1. IsWrite(Head(pending[h]))
      BY <2>1, WriteTypes
    <3>2. QED BY <1>4, <3>1, OutcomeTypes DEF PerformWrite, Inv
  <2>3. ShownInv'
    BY <1>4 DEF PerformWrite, Inv, ShownInv, pollVars
  <2>4. CountsInv'
    BY <1>4, <2>1 DEF PerformWrite, Inv, CountsInv, pollVars
  <2>5. QED BY <2>1, <2>2, <2>3, <2>4 DEF Inv
<1>5. ASSUME NEW h \in Handlers, LoseWrite(h) PROVE Inv'
  <2>1. /\ PendingInv' /\ LateInv' /\ Len(late') <= copies' /\ copies' \in 0 .. MaxCopies
    BY <1>5, NextWriteKeeps DEF LoseWrite
  <2>2. IsRegisters(reg)' /\ ShownInv'
    BY <1>5 DEF LoseWrite, Inv, ShownInv, pollVars
  <2>3. CountsInv'
    BY <1>5, <2>1 DEF LoseWrite, Inv, CountsInv, pollVars
  <2>4. QED BY <2>1, <2>2, <2>3 DEF Inv
<1>6. ASSUME LateWrite \/ LateLost PROVE Inv'
  <2>1. late # <<>> /\ late' = Tail(late) /\ UNCHANGED <<copies, changes, handlerVars, pollVars>>
    BY <1>6 DEF LateWrite, LateLost
  <2>2. /\ IsCopy(Head(late)) /\ Len(Tail(late)) = Len(late) - 1 /\ Len(late) \in Nat
        /\ \E S : Tail(late) \in Seq(S) /\ \A c \in S : IsCopy(c)
    BY <2>1, LateInTurn DEF Inv
  <2>3. LateInv'
    BY <2>1, <2>2 DEF LateInv
  <2>4. IsRegisters(reg)'
    <3>1. IsWrite(Head(late).write)
      BY <2>2, WriteTypes DEF IsCopy
    <3>2. \A r \in Outcomes(reg, Head(late).write) : IsRegisters(r)
      BY <3>1, OutcomeTypes DEF Inv
    <3>3. QED BY <1>6, <3>2 DEF LateWrite, LateLost, Inv
  <2>5. PendingInv' /\ ShownInv'
    BY <2>1 DEF Inv, PendingInv, ShownInv, handlerVars, pollVars
  <2>6. CountsInv'
    BY <2>1, <2>2 DEF Inv, CountsInv, handlerVars, pollVars
  <2>7. QED BY <2>3, <2>4, <2>5, <2>6 DEF Inv
<1>7. ASSUME NEW w \in Changes, PanelChange(w) PROVE Inv'
  <2>1. IsRegisters(reg)'
    BY <1>7, AppliedTypes DEF PanelChange, Inv
  <2>2. PendingInv' /\ LateInv' /\ ShownInv'
    BY <1>7 DEF PanelChange, Inv, PendingInv, LateInv, ShownInv, handlerVars, pollVars
  <2>3. CountsInv'
    BY <1>7 DEF PanelChange, Inv, CountsInv, handlerVars, pollVars
  <2>4. QED BY <2>1, <2>2, <2>3 DEF Inv
<1>8. ASSUME PollZones \/ PollCurrent PROVE Inv'
  <2>1. UNCHANGED <<deviceVars, handlerVars, shown>>
    BY <1>8 DEF PollZones, PollCurrent
  <2>2. poll'.pc \in PollPCs
    BY <1>8 DEF PollZones, PollCurrent, PollPCs
  <2>3. \E t \in {"mode", "zone", "vacation"} : Undisturbed(t) \/ LeavesAnswer(t) \/ LacksAnswer
    BY <1>8 DEF PollZones, PollCurrent
  <2>4. CountsInv'
    BY <2>1, <2>2, <2>3, ReadKeeps DEF Inv, CountsInv, deviceVars, handlerVars
  <2>5. ShownInv'
    BY <2>1, <2>3, ReadKeeps DEF Inv, ShownInv
  <2>6. QED BY <2>1, <2>4, <2>5 DEF Inv, PendingInv, LateInv, deviceVars, handlerVars
<1>9. CASE PollVacation
  <2>1. UNCHANGED <<deviceVars, handlerVars>>
    BY <1>9 DEF PollVacation
  <2>2. poll'.pc \in PollPCs
    BY <1>9 DEF PollVacation, PollPCs
  <2>3. Undisturbed("vacation") \/ LeavesAnswer("vacation") \/ LacksAnswer
    BY <1>9 DEF PollVacation
  <2>4. shown'.vacation # Nothing => \E v : IsVacation(v) /\ shown'.vacation = toAPI(v)
    <3>1. IsVacation(reg.vacation) /\ IsVacation(NoVacation)
      <4>1. \A f \in VacationFields : 0 \in Width(f)
        BY DEF Width, Byte, TwoBytes
      <4>2. IsVacation(NoVacation)
        BY <4>1 DEF IsVacation, NoVacation
      <4>3. QED BY <4>2 DEF Inv, IsRegisters
    <3>2. \A v \in Answers("vacation") : IsVacation(v)
      <4>1. stray.table = "vacation" => IsVacation(stray.content)
        BY DEF Inv, ShownInv
      <4>2. QED BY <3>1, <4>1 DEF Answers
    <3>3. \/ \E v \in Answers("vacation") : Publish(poll.config, toAPI(v))
          \/ Publish(poll.config, toAPI(NoVacation))
          \/ Publish(poll.config, Nothing)
      BY <1>9 DEF PollVacation
    <3>4. QED BY <3>1, <3>2, <3>3, PublishKeeps
  <2>5. ShownInv'
    BY <2>3, <2>4, ReadKeeps DEF ShownInv
  <2>6. CountsInv'
    BY <2>1, <2>2, <2>3, ReadKeeps DEF Inv, CountsInv, deviceVars, handlerVars
  <2>7. QED BY <2>1, <2>5, <2>6
        DEF Inv, PendingInv, LateInv, deviceVars, handlerVars
<1>10. CASE UNCHANGED vars
  BY <1>10 DEF vars, Inv, PendingInv, LateInv, ShownInv, CountsInv,
                deviceVars, handlerVars, pollVars
<1>11. QED BY <1>1, <1>2, <1>3, <1>4, <1>5, <1>6, <1>7, <1>8, <1>9, <1>10 DEF Next

LEMMA Invariance == Spec => []Inv
<1>1. QED BY InitInv, NextInv, PTL DEF Spec

-----------------------------------------------------------------------------
(* What holds at every moment.                                             *)

\* The tables, counters, handlers and poller have their types: above all, every
\* write that merge and conversions make keeps the widths of the thermostat's
\* fields, and a handler never has more than two writes to perform.
THEOREM TypeCorrect == Spec => []TypeOK
<1>1. Inv => TypeOK
  <2> SUFFICES ASSUME Inv PROVE TypeOK
    OBVIOUS
  <2>1. ASSUME NEW h \in Handlers
        PROVE  Len(pending[h]) <= 2 /\ (pending[h] = <<>> <=> command[h] = NoCommand)
    <3>1. CASE pending[h] = <<>> /\ command[h] = NoCommand
      <4>1. Len(pending[h]) = 0
        BY <3>1
      <4>2. QED BY <3>1, <4>1
    <3>2. CASE /\ pending[h] # <<>> /\ command[h] \in Commands
               /\ AreWritesOf(pending[h], command[h])
      <4>1. Len(pending[h]) \in 1 .. 2
        BY <3>2, WritesInTurn
      <4>2. command[h] # NoCommand
        BY <3>2, NoCommandIsNone
      <4>3. PICK n \in 1 .. 2 : n = Len(pending[h])
        BY <4>1, Zenon
      <4>4. n <= 2
        OBVIOUS
      <4>5. Len(pending[h]) <= 2
        BY <4>3, <4>4, Zenon
      <4>6. QED BY <3>2, <4>2, <4>5, Zenon
    <3>3. QED BY <3>1, <3>2 DEF Inv, PendingInv
  <2>2. command \in [Handlers -> Commands \cup {NoCommand}]
    BY DEF Inv, PendingInv
  <2>3. stray.table \in DOMAIN reg \cup {"none"}
    BY DEF Inv, IsRegisters, ShownInv
  <2>4. QED BY <2>1, <2>2, <2>3 DEF Inv, CountsInv, ShownInv, TypeOK
<1>2. QED BY <1>1, Invariance, PTL

\* The days the API shows of a vacation are its hours rounded up to the next
\* whole day, as long as they fit in the byte they are shown in: so toAPI()
\* makes them of whatever hours the thermostat reports (tables.go:88).
THEOREM DaysShownCorrect == Spec => []DaysShownCoverHours
<1>1. Inv => DaysShownCoverHours
  <2> SUFFICES ASSUME Inv, shown.vacation # Nothing, shown.vacation.hours <= ShowableHours
               PROVE  RoundedUp(shown.vacation.days, shown.vacation.hours)
    BY DEF DaysShownCoverHours
  <2>1. PICK v : IsVacation(v) /\ shown.vacation = toAPI(v)
    BY DEF Inv, ShownInv
  <2>2. toAPI(v)["days"] = DaysOf(v.hours) /\ toAPI(v)["hours"] = v["hours"]
    BY VacationShown DEF VacationFields
  <2>3. v.hours \in Nat
    BY <2>1 DEF IsVacation, VacationFields, Width, TwoBytes
  <2>4. QED BY <2>1, <2>2, <2>3, DaysRoundUp
<1>2. QED BY <1>1, Invariance, PTL

-----------------------------------------------------------------------------
(* What a step may do.                                                     *)

\* A write that the thermostat serves obeys its command.
LEMMA ServedObeys ==
  ASSUME Inv, NEW cmd, NEW w, IsWriteOf(w, cmd), reg' \in Outcomes(reg, w)
  PROVE  Obeys(cmd, w)
<1> DEFINE a == Applied(reg, w)
<1>1. IsRegisters(reg) /\ IsWrite(w) /\ IsRegisters(a)
  BY WriteTypes, AppliedTypes DEF Inv
<1>2. AllDone(cmd, w, reg, a)
  BY <1>1, ModeEffect, ZoneEffect, VacationEffect DEF IsWriteOf
<1>3. reg' = a \/ (MayEndVacation(w) /\ reg' = WithoutVacation(a))
  BY DEF Outcomes
<1> HIDE DEF a
<1>4. AllDone(cmd, w, reg, reg')
  <2>1. CASE reg' = a
    BY <1>2, <2>1
  <2>2. CASE MayEndVacation(w) /\ reg' = WithoutVacation(a)
    <3>1. AllDone(cmd, w, reg, WithoutVacation(a))
      BY <1>1, <1>2, <2>2, EndIsAsked, EndedToo
    <3>2. QED BY <2>2, <3>1
  <2>3. QED BY <1>3, <2>1, <2>2
<1>5. QED BY <1>4 DEF AllDone, Done, Obeys

\* s has a write for all that cmd mentions.
Covers(s, cmd) ==
  \A n \in Names : Mentions(cmd, n) => \E i \in DOMAIN s : InTable(n, s[i])

LEMMA CoversByName ==
  ASSUME NEW s, NEW cmd,
         "mode" \in DOMAIN Document(cmd) => \E i \in DOMAIN s : s[i].table = "current",
         ForZone(cmd) /\ DOMAIN Document(cmd) \cap ZoneFields # {} =>
           \E i \in DOMAIN s : s[i].table = "zone",
         ForVacation(cmd) => \E i \in DOMAIN s : s[i].table = "vacation"
  PROVE  Covers(s, cmd)
<1> SUFFICES ASSUME NEW n \in Names, Mentions(cmd, n)
             PROVE  \E i \in DOMAIN s : InTable(n, s[i])
  BY DEF Covers
<1>1. CASE n = <<"mode">>
  BY <1>1, OfMode
<1>2. ASSUME NEW z \in Zones, NEW f \in ZoneFields \cup {"preset"}, n = <<"zone", z, f>>
      PROVE  \E i \in DOMAIN s : InTable(n, s[i])
  <2>1. ForZone(cmd) /\ (IF f = "preset" THEN "hold" ELSE f) \in DOMAIN Document(cmd) \cap ZoneFields
    BY <1>2, OfZone DEF ZoneFields
  <2>2. PICK i \in DOMAIN s : s[i].table = "zone"
    BY <2>1
  <2>3. QED BY <1>2, <2>2, OfZone
<1>3. ASSUME NEW f \in VacationFields \cup {"days"}, n = <<"vacation", f>>
      PROVE  \E i \in DOMAIN s : InTable(n, s[i])
  <2>1. PICK i \in DOMAIN s : s[i].table = "vacation"
    BY <1>3, VacationMentioned
  <2>2. QED BY <1>3, <2>1, OfVacation
<1>4. QED BY <1>1, <1>2, <1>3 DEF Names

LEMMA OneOf == \A w : DOMAIN <<w>> = {1} /\ <<w>>[1] = w
  OBVIOUS

LEMMA TwoOf == \A v, w : DOMAIN <<v, w>> = {1, 2} /\ <<v, w>>[1] = v /\ <<v, w>>[2] = w
  OBVIOUS

LEMMA Table ==
  /\ \A z, params, flags : ZoneWrite(z, params, flags).table = "zone"
  /\ \A raw : ModeWrite(raw).table = "current"
  /\ \A args : fromAPI(args).table = "vacation"
  BY DEF ZoneWrite, ModeWrite, fromAPI, VacationWrite

LEMMA TakenByMqtt ==
  ASSUME NEW cmd, IsCommand(cmd), cmd.kind \in {"mqttZone", "mqtt", "mqttVacation"}, IsTaken(cmd)
  PROVE  Covers(WritesOf(cmd), cmd)
<1> DEFINE v == WithoutTail(cmd.value)
           mode == stringModeToRaw(cmd.value.word)
<1>1. CASE cmd.kind = "mqttZone"
  <2>1. /\ v.word = cmd.value.word /\ v.number = cmd.value.number /\ v.tail = FALSE
        /\ v.number \in Nat
    BY <1>1 DEF IsCommand, WithoutTail
  <2>2. cmd.zone \in 1 .. 8 /\ cmd.param \in ZoneFields \cup {"preset"} /\ IsValue(cmd.param, cmd.value)
    BY <1>1 DEF IsTaken
  <2> HIDE DEF v
  <2>3. ZoneSetting(cmd.param, v).ok
    <3>1. CASE cmd.param = "fanMode"
      BY <2>1, <2>2, <3>1, FanModeThereAndBack DEF IsValue, ZoneSetting
    <3>2. CASE cmd.param \in {"heatSetpoint", "coolSetpoint"}
      <4>1. ParseUint(v, 256)
        BY <2>1, <2>2, <3>2 DEF IsValue, ParseUint, Byte
      <4>2. QED BY <3>2, <4>1 DEF ZoneSetting
    <3>3. CASE cmd.param \in {"hold", "preset"}
      BY <2>1, <2>2, <3>3 DEF IsValue, ZoneSetting
    <3>4. QED BY <2>2, <3>1, <3>2, <3>3 DEF ZoneFields
  <2>4. PICK params, flags : WritesOf(cmd) = <<ZoneWrite(cmd.zone, params, flags)>>
    <3>1. WritesOf(cmd) = putConfig(cmd.zone, cmd.param, v)
      BY <1>1 DEF WritesOf, v
    <3>2. QED BY <2>2, <2>3, <3>1 DEF putConfig
  <2>5. "mode" \notin DOMAIN Document(cmd) /\ ~ForVacation(cmd)
    BY <1>1, <2>2 DEF Document, ForVacation, ZoneFields
  <2>6. \E i \in DOMAIN WritesOf(cmd) : WritesOf(cmd)[i].table = "zone"
    BY <2>4, OneOf, Table
  <2>7. QED BY <2>5, <2>6, CoversByName
<1>2. CASE cmd.kind = "mqtt"
  <2>1. cmd.param = "mode" /\ ~cmd.value.tail /\ cmd.value.word \in ModeWords
    BY <1>2 DEF IsTaken, IsValue
  <2>2. WritesOf(cmd) = <<ModeWrite(mode.raw)>>
    <3>1. WritesOf(cmd) = putConfig(0, cmd.param, cmd.value)
      BY <1>2 DEF WritesOf
    <3>2. mode.ok
      BY <2>1, ModeThereAndBack
    <3>3. QED BY <2>1, <3>1, <3>2 DEF putConfig
  <2>3. \E i \in DOMAIN WritesOf(cmd) : WritesOf(cmd)[i].table = "current"
    BY <2>2, OneOf, Table
  <2>4. ~ForZone(cmd) /\ ~ForVacation(cmd)
    BY <1>2 DEF ForZone, ForVacation
  <2>5. QED BY <2>3, <2>4, CoversByName
<1>3. CASE cmd.kind = "mqttVacation"
  <2>1. /\ cmd.param \in {"days", "hours"} /\ ~cmd.value.tail /\ IsValue(cmd.param, cmd.value)
        /\ cmd.value.number \in Nat
    BY <1>3 DEF IsTaken, IsCommand
  <2>2. \/ cmd.param = "days" /\ ParseUint(cmd.value, 256)
        \/ cmd.param = "hours" /\ ParseUint(cmd.value, 65536)
    <3>1. cmd.param = "days" => ParseUint(cmd.value, 256)
      BY <2>1 DEF IsValue, ParseUint, Byte
    <3>2. cmd.param = "hours" => ParseUint(cmd.value, 65536)
      BY <2>1 DEF IsValue, ParseUint, TwoBytes
    <3>3. QED BY <2>1, <3>1, <3>2
  <2>3. PICK args : WritesOf(cmd) = <<fromAPI(args)>>
    <3>1. WritesOf(cmd) = putVacationConfig(cmd.param, cmd.value)
      BY <1>3 DEF WritesOf
    <3>2. QED BY <2>2, <3>1 DEF putVacationConfig
  <2>4. \E i \in DOMAIN WritesOf(cmd) : WritesOf(cmd)[i].table = "vacation"
    BY <2>3, OneOf, Table
  <2>5. ~ForZone(cmd) /\ "mode" \notin DOMAIN Document(cmd)
    BY <1>3, <2>1 DEF ForZone, Document
  <2>6. QED BY <2>4, <2>5, CoversByName
<1>4. QED BY <1>1, <1>2, <1>3

LEMMA TakenByRequest ==
  ASSUME NEW cmd, IsCommand(cmd), cmd.kind \in {"putZone", "putVacation"}, IsTaken(cmd)
  PROVE  Covers(WritesOf(cmd), cmd)
<1> DEFINE args == cmd.args
           doc == Document(cmd)
<1>1. CASE cmd.kind = "putVacation"
  <2>1. WritesOf(cmd) = <<fromAPI(args)>>
    BY <1>1 DEF WritesOf
  <2>2. \E i \in DOMAIN WritesOf(cmd) : WritesOf(cmd)[i].table = "vacation"
    BY <2>1, OneOf, Table
  <2>3. ~ForZone(cmd) /\ "mode" \notin DOMAIN doc
    BY <1>1 DEF ForZone, Document, IsCommand, VacationFields
  <2>4. QED BY <2>2, <2>3, CoversByName
<1>2. CASE cmd.kind = "putZone"
  <2> DEFINE fan == IF "fanMode" \in DOMAIN args THEN stringFanModeToRaw(args.fanMode)
                    ELSE [raw |-> 0, ok |-> TRUE]
             flags == {f \in DOMAIN args \cap ZoneFields :
                         f \in {"heatSetpoint", "coolSetpoint"} => args[f] > 0}
             params == [f \in flags |-> CASE f = "fanMode" -> fan.raw
                                          [] f = "hold" -> IF args.hold THEN 1 ELSE 0
                                          [] OTHER -> args[f]]
             z == ZoneWrite(cmd.zone, params, flags)
             m == ModeWrite(stringModeToRaw(args.mode).raw)
  <2>1. fan.ok /\ cmd.zone \in 1 .. 8
    BY <1>2, FanModeThereAndBack DEF IsTaken
  <2>2. WritesOf(cmd) = (IF flags = {} THEN <<>> ELSE <<z>>)
                          \o (IF "mode" \in DOMAIN args THEN <<m>> ELSE <<>>)
    <3>1. WritesOf(cmd) = putZoneConfig(cmd.zone, args)
      BY <1>2 DEF WritesOf
    <3>2. QED BY <2>1, <3>1 DEF putZoneConfig
  <2>3. z.table = "zone" /\ m.table = "current"
    BY Table
  <2>4. /\ "mode" \in DOMAIN doc => "mode" \in DOMAIN args
        /\ DOMAIN doc \cap ZoneFields = flags
    BY <1>2 DEF Document
  <2>5. ~ForVacation(cmd)
    BY <1>2 DEF ForVacation
  <2> HIDE DEF z, m, flags, fan, params, doc
  <2>6. CASE flags # {} /\ "mode" \in DOMAIN args
    <3>1. WritesOf(cmd) = <<z, m>>
      BY <2>2, <2>6, Concats
    <3>2. /\ \E i \in DOMAIN WritesOf(cmd) : WritesOf(cmd)[i].table = "zone"
          /\ \E i \in DOMAIN WritesOf(cmd) : WritesOf(cmd)[i].table = "current"
      BY <2>3, <3>1, TwoOf
    <3>3. QED BY <2>5, <3>2, CoversByName
  <2>7. CASE flags # {} /\ "mode" \notin DOMAIN args
    <3>1. WritesOf(cmd) = <<z>>
      BY <2>2, <2>7, Concats
    <3>2. \E i \in DOMAIN WritesOf(cmd) : WritesOf(cmd)[i].table = "zone"
      BY <2>3, <3>1, OneOf
    <3>3. QED BY <2>4, <2>5, <2>7, <3>2, CoversByName DEF doc
  <2>8. CASE flags = {} /\ "mode" \in DOMAIN args
    <3>1. WritesOf(cmd) = <<m>>
      BY <2>2, <2>8, Concats
    <3>2. \E i \in DOMAIN WritesOf(cmd) : WritesOf(cmd)[i].table = "current"
      BY <2>3, <3>1, OneOf
    <3>3. QED BY <2>4, <2>5, <2>8, <3>2, CoversByName DEF doc
  <2>9. CASE flags = {} /\ "mode" \notin DOMAIN args
    BY <2>4, <2>5, <2>9, CoversByName DEF doc
  <2>10. QED BY <2>6, <2>7, <2>8, <2>9
<1>3. QED BY <1>1, <1>2

LEMMA TakenCovers ==
  ASSUME NEW cmd \in Commands, IsTaken(cmd)
  PROVE  Covers(WritesOf(cmd), cmd)
<1>1. IsCommand(cmd)
  BY CommandsAssumption
<1>2. cmd.kind \in {"mqttZone", "mqttVacation", "mqtt", "putZone", "putVacation"}
  BY <1>1 DEF IsCommand
<1>3. QED BY <1>1, <1>2, TakenByMqtt, TakenByRequest

LEMMA StepHasEffect == Inv => CommandStep
<1> SUFFICES ASSUME Inv PROVE CommandStep
  OBVIOUS
<1>1. ASSUME NEW h \in Handlers, NEW cmd \in Commands, Begin(h, cmd), IsTaken(cmd)
      PROVE  HasWrites(h, cmd)
  <2>1. pending'[h] = WritesOf(cmd)
    BY <1>1 DEF Begin, Inv, PendingInv
  <2>2. QED BY <1>1, <2>1, TakenCovers DEF Covers, HasWrites
<1>2. ASSUME NEW h \in Handlers, PerformWrite(h)
      PROVE  Obeys(command[h], Head(pending[h]))
  <2>1. pending[h] # <<>> /\ reg' \in Outcomes(reg, Head(pending[h]))
    BY <1>2 DEF PerformWrite
  <2>2. IsWriteOf(Head(pending[h]), command[h])
    BY <1>2, NextWriteKeeps DEF PerformWrite
  <2>3. QED BY <2>1, <2>2, ServedObeys
<1>3. ASSUME LateWrite
      PROVE  Obeys(Head(late).command, Head(late).write)
  <2>1. late # <<>> /\ reg' \in Outcomes(reg, Head(late).write)
    BY <1>3 DEF LateWrite
  <2>2. IsWriteOf(Head(late).write, Head(late).command)
    BY <2>1, LateInTurn DEF Inv, IsCopy
  <2>3. QED BY <2>1, <2>2, ServedObeys
<1>4. QED BY <1>1, <1>2, <1>3 DEF CommandStep

\* A command sets all that it mentions, to what it asks for, and nothing else:
\* every command the API takes becomes writes of all the tables it mentions, and
\* a write that is served, in time or late, sets the fields of its flags and no
\* other (putConfig(), putVacationConfig(), fromAPI(), and the PUT handlers), so
\* that the conversions back show what was asked, whatever else happens between
\* the writes.  Only a vacation may end besides, with a command that says so.
THEOREM EffectCorrect == Spec => CommandsHaveTheirEffect
<1>1. Inv => CommandStep
  BY StepHasEffect
<1>2. QED BY <1>1, Invariance, PTL DEF CommandsHaveTheirEffect

=============================================================================
