----------------------------- MODULE Commands -----------------------------
(***************************************************************************)
(* What a command changes at the thermostat, and what the API then shows:  *)
(* mqttMessageHandler() (dispatcher.go), putConfig(), putVacationConfig()  *)
(* and statePoller() (infinitive.go), the PUT handlers (webserver.go) and  *)
(* the conversions between the API and the thermostat's tables (tables.go, *)
(* conversions.go).                                                        *)
(*                                                                         *)
(* A handler turns a command into at most two writes and performs them in  *)
(* order.  Of a single write it takes from module Protocol that it is      *)
(* applied or is not, that no handler looks at which, and that its         *)
(* retransmissions may leave a copy with the thermostat that is applied    *)
(* late, but before any later write (Protocol's WritesApplyInOrder).  The  *)
(* poller reads three tables, one after the other, while handlers write; a *)
(* read may fail, may be answered with too few bytes, which leaves zeros,  *)
(* and may take an answer that is left over from an earlier read of the    *)
(* same table (Protocol's AnswerIsOurs).                                   *)
(*                                                                         *)
(* No code ends a vacation but by writing its fields.  The documentation   *)
(* says more: days or hours of zero cancel a vacation, and so does a hold  *)
(* (README.md:299, 424-425, 432).  Whether the thermostat does so of its   *)
(* own is not known here: the model lets it do so or not with each write.  *)
(*                                                                         *)
(* Texts are members of small sets.  The value of an MQTT message is a     *)
(* word, or, when the word is Number, a decimal number; either may have a  *)
(* tail of a dot and one more character.  Of the mode byte only the mode   *)
(* is kept, not the stage beside it.                                       *)
(***************************************************************************)
EXTENDS Integers, Sequences, FiniteSets

CONSTANTS
  MqttHandler,   \* the goroutine in which the MQTT client calls the handler
  RestHandlers,  \* the goroutines of PUT requests
  Zones,         \* the thermostat's zones
  Commands,      \* the commands clients send
  Changes,       \* settings made at the thermostat's own panel
  Registers0,    \* contents of the thermostat's tables at the start
  MaxCommands,   \* bound: commands in a behaviour
  MaxChanges,    \* bound: settings made at the panel
  MaxCopies,     \* bound: writes of which a copy is left over
  MaxFailures    \* bound: the poller's reads that go wrong

Number == "number"

Handlers == RestHandlers \cup {MqttHandler}

VARIABLES
  reg,       \* the thermostat's tables
  commands,  \* commands received so far
  command,   \* the command each handler works on
  pending,   \* the writes it has yet to perform
  crashed,   \* the program has stopped in a panic
  late,      \* copies of writes that the thermostat has yet to serve
  copies,    \* writes of which a copy was left over so far
  changes,   \* settings made at the panel so far
  poll,      \* where the poller is and what it has read
  failures,  \* its reads that went wrong so far
  stray,     \* an answer to one of its reads that is left over
  shown      \* what it published last

handlerVars == <<commands, command, pending, crashed>>
pollVars == <<poll, failures, stray, shown>>
deviceVars == <<reg, changes, late, copies>>
vars == <<deviceVars, handlerVars, pollVars>>

-----------------------------------------------------------------------------
(* The thermostat's tables.                                                *)

ZoneFields == {"fanMode", "hold", "heatSetpoint", "coolSetpoint"}

VacationFields ==
  {"active", "hours", "minTemperature", "maxTemperature",
   "minHumidity", "maxHumidity", "fanMode"}

Byte == 0 .. 255
TwoBytes == {n \in Nat : n < 65536}

Width(f) == IF f = "hours" THEN TwoBytes ELSE Byte

\* A write carries a whole table, zero where nothing was set, and the set of
\* the fields that count.  Zone 0 is that of the tables without zones.
ZoneWrite(z, params, flags) ==
  [table |-> "zone", zone |-> z, flags |-> flags,
   params |-> [f \in ZoneFields |-> IF f \in DOMAIN params THEN params[f] ELSE 0]]

ModeWrite(raw) ==
  [table |-> "current", zone |-> 0, flags |-> {"mode"}, params |-> [mode |-> raw]]

VacationWrite(params, flags) ==
  [table |-> "vacation", zone |-> 0, flags |-> flags,
   params |-> [f \in VacationFields |-> IF f \in DOMAIN params THEN params[f] ELSE 0]]

\* The thermostat takes the fields that count, in the zone that is named.
Merge(old, w) == [f \in DOMAIN old |-> IF f \in w.flags THEN w.params[f] ELSE old[f]]

Applied(r, w) ==
  CASE w.table = "zone" ->
         IF w.zone \in Zones THEN [r EXCEPT !.zone[w.zone] = Merge(@, w)] ELSE r
    [] w.table = "current" -> [r EXCEPT !.mode = w.params.mode]
    [] w.table = "vacation" -> [r EXCEPT !.vacation = Merge(@, w)]

\* A write that asks for a vacation's end, or for a hold.
MayEndVacation(w) ==
  \/ w.table = "vacation" /\ "hours" \in w.flags /\ w.params.hours = 0
  \/ w.table = "zone" /\ "hold" \in w.flags /\ w.params.hold = 1

WithoutVacation(r) == [r EXCEPT !.vacation = [@ EXCEPT !.active = 0, !.hours = 0]]

\* What the thermostat may make of a write of a command.
Outcomes(r, w) ==
  {Applied(r, w)} \cup IF MayEndVacation(w) THEN {WithoutVacation(Applied(r, w))} ELSE {}

IsVacation(v) == DOMAIN v = VacationFields /\ \A f \in VacationFields : v[f] \in Width(f)

IsRegisters(r) ==
  /\ DOMAIN r = {"mode", "zone", "vacation"}
  /\ r.mode \in Byte
  /\ r.zone \in [Zones -> [ZoneFields -> Byte]]
  /\ IsVacation(r.vacation)

IsWrite(w) ==
  \/ w.table = "zone" /\ w.params \in [ZoneFields -> Byte]
  \/ w.table = "current" /\ w.params.mode \in Byte
  \/ w.table = "vacation" /\ IsVacation(w.params)

\* A message, or a document as it is decoded: a setting that is not in it is not
\* in the domain, and the numbers in it have the widths of the settings.
IsCommand(cmd) ==
  \/ /\ cmd.kind \in {"mqttZone", "mqttVacation", "mqtt"}
     /\ DOMAIN cmd.value = {"word", "number", "tail"}
     /\ cmd.value.number \in Nat /\ cmd.value.tail \in BOOLEAN
  \/ /\ cmd.kind = "putZone"
     /\ DOMAIN cmd.args \subseteq ZoneFields \cup {"mode"}
     /\ "hold" \in DOMAIN cmd.args => cmd.args.hold \in BOOLEAN
     /\ \A f \in DOMAIN cmd.args \cap {"heatSetpoint", "coolSetpoint"} : cmd.args[f] \in Byte
  \/ /\ cmd.kind = "putVacation"
     /\ DOMAIN cmd.args \subseteq VacationFields \cup {"days"}
     /\ "active" \in DOMAIN cmd.args => cmd.args.active \in BOOLEAN
     /\ \A f \in DOMAIN cmd.args \ {"active", "fanMode"} : cmd.args[f] \in Width(f)

ASSUME CommandsAssumption ==
  /\ MqttHandler \notin RestHandlers
  /\ Zones \subseteq 1 .. 8
  /\ MaxCommands \in Nat /\ MaxChanges \in Nat /\ MaxFailures \in Nat
  /\ MaxCopies \in Nat
  /\ \A r \in Registers0 : IsRegisters(r)
  /\ \A w \in Changes : IsWrite(w)
  /\ \A cmd \in Commands : IsCommand(cmd)

-----------------------------------------------------------------------------
(* Conversions between the words of the API and the thermostat's numbers.  *)

rawModeToString(mode) ==
  IF mode \in 0 .. 5
  THEN <<"heat", "cool", "auto", "electric", "heatpump", "off">>[mode + 1]
  ELSE "unknown"

stringModeToRaw(word) ==
  CASE word = "heat" -> [raw |-> 0, ok |-> TRUE]
    [] word = "cool" -> [raw |-> 1, ok |-> TRUE]
    [] word = "auto" -> [raw |-> 2, ok |-> TRUE]
    [] word = "off"  -> [raw |-> 5, ok |-> TRUE]
    [] OTHER         -> [raw |-> 5, ok |-> FALSE]

rawFanModeToString(mode) ==
  IF mode \in 0 .. 3 THEN <<"auto", "low", "med", "high">>[mode + 1] ELSE "unknown"

stringFanModeToRaw(word) ==
  CASE word = "auto" -> [raw |-> 0, ok |-> TRUE]
    [] word = "low"  -> [raw |-> 1, ok |-> TRUE]
    [] word = "med"  -> [raw |-> 2, ok |-> TRUE]
    [] word = "high" -> [raw |-> 3, ok |-> TRUE]
    [] OTHER         -> [raw |-> 0, ok |-> FALSE]

\* Mutant of DaysOf: rounds down.
DaysRoundedDown(hours) == (hours \div 24) % 256

\* uint8((hours + 23) / 24), where hours is a uint16.
DaysOf(hours) == (((hours + 23) % 65536) \div 24) % 256

\* uint16(days) * 24
HoursOf(days) == (days * 24) % 65536

\* What fromAPI() makes of a setting.  Days overrides hours; a fan mode that is
\* no word of the API counts as "auto".
Raw(args, f) ==
  CASE f = "active" -> IF args.active THEN 1 ELSE 0
    [] f = "hours" -> IF "days" \in DOMAIN args THEN HoursOf(args.days) ELSE args.hours
    [] f = "fanMode" -> stringFanModeToRaw(args.fanMode).raw
    [] OTHER -> args[f]

\* Mutant of fromAPI: the flag of the hours is not set for days.
fromAPIWithoutFlag(args) ==
  LET named == DOMAIN args \ {"days"} IN VacationWrite([f \in named |-> Raw(args, f)], named)

\* fromAPI(): the fields an APIVacationConfig sets, and their values.
fromAPI(args) ==
  LET named == {IF f = "days" THEN "hours" ELSE f : f \in DOMAIN args}
  IN VacationWrite([f \in named |-> Raw(args, f)], named)

\* toAPI()
toAPI(v) ==
  [f \in VacationFields \cup {"days"} |->
     CASE f = "active" -> v.active = 1
       [] f = "days" -> DaysOf(v.hours)
       [] f = "fanMode" -> rawFanModeToString(v.fanMode)
       [] OTHER -> v[f]]

\* One zone of getZonesConfig().
zoneToAPI(z) ==
  [fanMode |-> rawFanModeToString(z.fanMode), hold |-> z.hold = 1,
   preset |-> IF z.hold = 1 THEN "hold" ELSE "none",
   heatSetpoint |-> z.heatSetpoint, coolSetpoint |-> z.coolSetpoint]

-----------------------------------------------------------------------------
(* From a command to its writes.                                           *)

\* strconv.ParseUint(value, 10, bits)
ParseUint(value, limit) == value.word = Number /\ ~value.tail /\ value.number < limit

\* putConfig() on one parameter of a zone: whether the value is understood, the
\* field it sets, and to what.
ZoneSetting(param, value) ==
  CASE param = "fanMode" ->
         LET mode == stringFanModeToRaw(value.word) IN
         [ok |-> mode.ok, field |-> "fanMode", raw |-> mode.raw]
    [] param \in {"heatSetpoint", "coolSetpoint"} ->
         [ok |-> ParseUint(value, 256), field |-> param, raw |-> value.number]
    [] param = "hold" ->
         [ok |-> value.word \in {"true", "false"}, field |-> "hold",
          raw |-> IF value.word = "true" THEN 1 ELSE 0]
    [] param = "preset" ->
         [ok |-> value.word \in {"hold", "none"}, field |-> "hold",
          raw |-> IF value.word = "hold" THEN 1 ELSE 0]
    [] OTHER -> [ok |-> FALSE, field |-> param, raw |-> 0]

\* The writes of putConfig(): none when the zone, parameter or value is not
\* understood.
putConfig(zone, param, value) ==
  LET set == ZoneSetting(param, value)
      mode == stringModeToRaw(value.word) IN
  CASE zone \in 1 .. 8 /\ set.ok ->
         <<ZoneWrite(zone, [f \in {set.field} |-> set.raw], {set.field})>>
    [] zone = 0 /\ param = "mode" /\ mode.ok /\ ~value.tail -> <<ModeWrite(mode.raw)>>
    [] OTHER -> <<>>

putVacationConfig(param, value) ==
  IF \/ param = "days" /\ ParseUint(value, 256)
     \/ param = "hours" /\ ParseUint(value, 65536)
  THEN <<fromAPI([f \in {param} |-> value.number])>>
  ELSE <<>>

\* PUT /api/zone/:zn/config, with the fields present in the document: a fan
\* mode that is no word of the API ends the request, a setpoint of zero counts
\* as absent, and a mode that is no word of the API counts as "off".
putZoneConfig(zone, args) ==
  LET fan == IF "fanMode" \in DOMAIN args THEN stringFanModeToRaw(args.fanMode)
             ELSE [raw |-> 0, ok |-> TRUE]
      flags == {f \in DOMAIN args \cap ZoneFields :
                  f \in {"heatSetpoint", "coolSetpoint"} => args[f] > 0}
      raw(f) == CASE f = "fanMode" -> fan.raw
                  [] f = "hold" -> IF args.hold THEN 1 ELSE 0
                  [] OTHER -> args[f]
      zoneWrites == IF flags = {} THEN <<>>
                    ELSE <<ZoneWrite(zone, [f \in flags |-> raw(f)], flags)>>
      modeWrites == IF "mode" \in DOMAIN args
                    THEN <<ModeWrite(stringModeToRaw(args.mode).raw)>> ELSE <<>>
  IN IF zone \in 1 .. 8 /\ fan.ok THEN zoneWrites \o modeWrites ELSE <<>>

\* The handler of a zone topic looks at the last but one character, drops the
\* tail if it is a dot, and panics on a value with fewer than two.
TooShort(value) ==
  ~value.tail /\ (value.word = "" \/ (value.word = Number /\ value.number < 10))

WithoutTail(value) == [value EXCEPT !.tail = FALSE]

WritesOf(cmd) ==
  CASE cmd.kind = "mqttZone" -> putConfig(cmd.zone, cmd.param, WithoutTail(cmd.value))
    [] cmd.kind = "mqttVacation" -> putVacationConfig(cmd.param, cmd.value)
    [] cmd.kind = "mqtt" -> putConfig(0, cmd.param, cmd.value)
    [] cmd.kind = "putZone" -> putZoneConfig(cmd.zone, cmd.args)
    [] cmd.kind = "putVacation" -> <<fromAPI(cmd.args)>>

-----------------------------------------------------------------------------

NoCommand == [kind |-> "none"]
Nothing == <<>>
NoAnswer == [table |-> "none", content |-> Nothing]

PollPCs == {"zones", "current", "vacation"}

TypeOK ==
  /\ IsRegisters(reg)
  /\ commands \in 0 .. MaxCommands
  /\ command \in [Handlers -> Commands \cup {NoCommand}]
  /\ \A h \in Handlers : Len(pending[h]) <= 2 /\ (pending[h] = <<>> <=> command[h] = NoCommand)
  /\ crashed \in BOOLEAN
  /\ Len(late) <= copies /\ copies \in 0 .. MaxCopies
  /\ changes \in 0 .. MaxChanges
  /\ poll.pc \in PollPCs
  /\ failures \in 0 .. MaxFailures
  /\ stray.table \in DOMAIN reg \cup {"none"}
  /\ stray.table = "vacation" => IsVacation(stray.content)

Init ==
  /\ reg \in Registers0
  /\ commands = 0
  /\ command = [h \in Handlers |-> NoCommand]
  /\ pending = [h \in Handlers |-> <<>>]
  /\ crashed = FALSE
  /\ late = <<>>
  /\ copies = 0
  /\ changes = 0
  /\ poll = [pc |-> "zones"]
  /\ failures = 0
  /\ stray = NoAnswer
  /\ shown = [config |-> Nothing, vacation |-> Nothing]

-----------------------------------------------------------------------------
(* Handlers.                                                               *)

Begin(h, cmd) ==
  /\ ~crashed
  /\ pending[h] = <<>>
  /\ commands < MaxCommands
  /\ commands' = commands + 1
  /\ pending' = [pending EXCEPT ![h] = WritesOf(cmd)]
  /\ command' = [command EXCEPT ![h] = IF WritesOf(cmd) = <<>> THEN NoCommand ELSE cmd]
  /\ UNCHANGED <<deviceVars, crashed, pollVars>>

\* mqttMessageHandler(), one message at a time.
MqttMessage(cmd) ==
  /\ cmd.kind \in {"mqttZone", "mqttVacation", "mqtt"}
  /\ ~(cmd.kind = "mqttZone" /\ TooShort(cmd.value))
  /\ Begin(MqttHandler, cmd)

\* The slice of a value with fewer than two characters is out of range.
ShortMqttMessage(cmd) ==
  /\ ~crashed
  /\ pending[MqttHandler] = <<>>
  /\ commands < MaxCommands
  /\ cmd.kind = "mqttZone" /\ TooShort(cmd.value)
  /\ commands' = commands + 1
  /\ crashed' = TRUE
  /\ UNCHANGED <<deviceVars, command, pending, pollVars>>

PutRequest(h, cmd) ==
  /\ cmd.kind \in {"putZone", "putVacation"}
  /\ Begin(h, cmd)

\* The handler goes on to its next write, or returns.
NextWrite(h) ==
  /\ pending' = [pending EXCEPT ![h] = Tail(@)]
  /\ command' = [command EXCEPT ![h] = IF Len(pending[h]) = 1 THEN NoCommand ELSE @]

\* A retransmission of h's write may be left over.
MayLeaveCopy(h) ==
  \/ UNCHANGED <<late, copies>>
  \/ /\ copies < MaxCopies
     /\ copies' = copies + 1
     /\ late' = Append(late, [command |-> command[h], write |-> Head(pending[h])])

\* The write is applied, after what the thermostat heard before.
PerformWrite(h) ==
  /\ ~crashed
  /\ pending[h] # <<>>
  /\ late = <<>>
  /\ reg' \in Outcomes(reg, Head(pending[h]))
  /\ MayLeaveCopy(h)
  /\ NextWrite(h)
  /\ UNCHANGED <<commands, changes, crashed, pollVars>>

\* The write is not applied while the handler waits; nobody looks.
LoseWrite(h) ==
  /\ ~crashed
  /\ pending[h] # <<>>
  /\ MayLeaveCopy(h)
  /\ NextWrite(h)
  /\ UNCHANGED <<reg, commands, changes, crashed, pollVars>>

\* The thermostat serves a copy that was left over, or never hears it.
LateWrite ==
  /\ late # <<>>
  /\ late' = Tail(late)
  /\ reg' \in Outcomes(reg, Head(late).write)
  /\ UNCHANGED <<copies, changes, handlerVars, pollVars>>

LateLost ==
  /\ late # <<>>
  /\ late' = Tail(late)
  /\ UNCHANGED <<reg, copies, changes, handlerVars, pollVars>>

\* Somebody uses the thermostat's panel.
PanelChange(w) ==
  /\ changes < MaxChanges
  /\ changes' = changes + 1
  /\ reg' = Applied(reg, w)
  /\ UNCHANGED <<late, copies, handlerVars, pollVars>>

-----------------------------------------------------------------------------
(* statePoller(), with getZonesConfig() and getVacationConfig().           *)

\* The answers a read of table t may take: that of the thermostat, which has the
\* table as it is now, or one to an earlier read.
Answers(t) == {reg[t]} \cup IF stray.table = t THEN {stray.content} ELSE {}

\* All goes well; the answer of before has been taken or was lost.
Undisturbed(t) ==
  /\ stray' = IF stray.table = t THEN NoAnswer ELSE stray
  /\ UNCHANGED failures

Disturbed ==
  /\ failures < MaxFailures
  /\ failures' = failures + 1

\* Answers are late, and a retransmission leaves one over.
LeavesAnswer(t) ==
  /\ Disturbed
  /\ stray' = [table |-> t, content |-> reg[t]]

\* Answers are lost or cut short.
LacksAnswer ==
  /\ Disturbed
  /\ UNCHANGED stray

\* What a table holds after an answer that was too short for it.
NoZones == [z \in Zones |-> [f \in ZoneFields |-> 0]]
NoVacation == [f \in VacationFields |-> 0]

\* The first table of getZonesConfig(); without it the second is not read.
PollZones ==
  /\ ~crashed
  /\ poll.pc = "zones"
  /\ \/ /\ Undisturbed("zone") \/ LeavesAnswer("zone")
        /\ \E zone \in Answers("zone") : poll' = [pc |-> "current", zone |-> zone]
     \/ /\ LacksAnswer
        /\ poll' = [pc |-> "current", zone |-> NoZones]
     \/ /\ LacksAnswer \/ LeavesAnswer("zone")
        /\ poll' = [pc |-> "vacation", config |-> Nothing]
  /\ UNCHANGED <<deviceVars, handlerVars, shown>>

\* The configuration made of the two tables.
Config(mode, zone) ==
  [mode |-> rawModeToString(mode % 16), zone |-> [z \in DOMAIN zone |-> zoneToAPI(zone[z])]]

\* Mutant of PollCurrent: what was published last is taken for the zones.
PollCurrentStale ==
  /\ ~crashed
  /\ poll.pc = "current"
  /\ poll' = [pc |-> "vacation", config |-> shown.config]
  /\ UNCHANGED <<deviceVars, handlerVars, failures, stray, shown>>

\* The second table: the configuration is complete, though its two parts were
\* read at different moments.  After a short answer no zone has a temperature,
\* and no zone is in the configuration.
PollCurrent ==
  /\ ~crashed
  /\ poll.pc = "current"
  /\ \/ /\ Undisturbed("mode") \/ LeavesAnswer("mode")
        /\ \E mode \in Answers("mode") :
             poll' = [pc |-> "vacation", config |-> Config(mode, poll.zone)]
     \/ /\ LacksAnswer
        /\ poll' = [pc |-> "vacation", config |-> Config(0, Nothing)]
     \/ /\ LacksAnswer \/ LeavesAnswer("mode")
        /\ poll' = [pc |-> "vacation", config |-> Nothing]
  /\ UNCHANGED <<deviceVars, handlerVars, shown>>

\* The preset of every zone is "vacation" while a vacation is known to be on.
WithPreset(config, vacation) ==
  IF vacation # Nothing /\ vacation.active
  THEN [config EXCEPT !.zone = [z \in DOMAIN @ |-> [@[z] EXCEPT !.preset = "vacation"]]]
  ELSE config

Publish(config, vacation) ==
  shown' = [config |-> IF config = Nothing THEN shown.config
                       ELSE WithPreset(config, vacation),
            vacation |-> IF vacation = Nothing THEN shown.vacation ELSE vacation]

\* The vacation table; what was read is published.
PollVacation ==
  /\ ~crashed
  /\ poll.pc = "vacation"
  /\ \/ /\ Undisturbed("vacation") \/ LeavesAnswer("vacation")
        /\ \E vacation \in Answers("vacation") : Publish(poll.config, toAPI(vacation))
     \/ /\ LacksAnswer
        /\ Publish(poll.config, toAPI(NoVacation))
     \/ /\ LacksAnswer \/ LeavesAnswer("vacation")
        /\ Publish(poll.config, Nothing)
  /\ poll' = [pc |-> "zones"]
  /\ UNCHANGED <<deviceVars, handlerVars>>

-----------------------------------------------------------------------------

Next ==
  \/ \E cmd \in Commands : MqttMessage(cmd) \/ ShortMqttMessage(cmd)
  \/ \E h \in RestHandlers, cmd \in Commands : PutRequest(h, cmd)
  \/ \E h \in Handlers : PerformWrite(h) \/ LoseWrite(h)
  \/ LateWrite \/ LateLost
  \/ \E w \in Changes : PanelChange(w)
  \/ PollZones \/ PollCurrent \/ PollVacation

Spec == Init /\ [][Next]_vars

\* A write ends, and the poller goes round.
Fairness ==
  /\ \A h \in Handlers : WF_vars(PerformWrite(h) \/ LoseWrite(h))
  /\ WF_vars(PollZones) /\ WF_vars(PollCurrent) /\ WF_vars(PollVacation)

FairSpec == Spec /\ Fairness

-----------------------------------------------------------------------------
(* Properties.                                                             *)

\* Everything the API shows, by name.
Names ==
  {<<"mode">>}
    \cup {<<"zone", z, f>> : z \in Zones, f \in ZoneFields \cup {"preset"}}
    \cup {<<"vacation", f>> : f \in VacationFields \cup {"days"}}

View(r) ==
  [n \in Names |->
     CASE n[1] = "mode" -> rawModeToString(r.mode)
       [] n[1] = "zone" -> zoneToAPI(r.zone[n[2]])[n[3]]
       [] n[1] = "vacation" -> toAPI(r.vacation)[n[2]]]

\* A command as the document a PUT request would carry.  A request cannot ask
\* for a setpoint of zero: it says nothing of that setpoint (webserver.go:139-147).
Document(cmd) ==
  CASE cmd.kind = "mqttZone" ->
         [f \in {IF cmd.param = "preset" THEN "hold" ELSE cmd.param} |->
            CASE cmd.param = "preset" -> cmd.value.word = "hold"
              [] cmd.param = "hold" -> cmd.value.word = "true"
              [] cmd.param \in {"fanMode", "mode"} -> cmd.value.word
              [] OTHER -> cmd.value.number]
    [] cmd.kind = "mqttVacation" -> [f \in {cmd.param} |-> cmd.value.number]
    [] cmd.kind = "mqtt" -> [f \in {cmd.param} |-> cmd.value.word]
    [] cmd.kind = "putZone" ->
         [f \in {f \in DOMAIN cmd.args :
                   f \in {"heatSetpoint", "coolSetpoint"} => cmd.args[f] > 0} |-> cmd.args[f]]
    [] OTHER -> cmd.args

ForVacation(cmd) == cmd.kind \in {"mqttVacation", "putVacation"}
ForZone(cmd) == cmd.kind \in {"mqttZone", "putZone"}

\* The command mentions what is called n.
Mentions(cmd, n) ==
  LET given(f) == f \in DOMAIN Document(cmd) IN
  CASE n[1] = "mode" -> given("mode")
    [] n[1] = "zone" ->
         ForZone(cmd) /\ n[2] = cmd.zone /\ given(IF n[3] = "preset" THEN "hold" ELSE n[3])
    [] n[1] = "vacation" ->
         /\ ForVacation(cmd)
         /\ IF n[2] \in {"days", "hours"} THEN given("days") \/ given("hours")
            ELSE given(n[2])

ModeWords == {"heat", "cool", "auto", "off"}
FanWords == {"auto", "low", "med", "high"}

\* The longest vacation whose days fit the byte they are shown in.
ShowableHours == 24 * 255

\* The days shown for a number of hours, "rounded up to next whole day"
\* (README.md:331).
RoundedUp(days, hours) == days * 24 \in hours .. hours + 23

\* The command, which mentions n, asks that it be shown as v.  A word that a
\* request may carry though the API has no such word asks for the mode "off"
\* (webserver.go:155) and for the vacation's fan mode "auto" (tables.go:139-141).
Asks(cmd, n, v) ==
  LET doc == Document(cmd)
      word(f, words, default) == IF doc[f] \in words THEN doc[f] ELSE default IN
  CASE n[1] = "mode" -> v = word("mode", ModeWords, "off")
    [] n[1] = "zone" ->
         IF n[3] = "preset" THEN v = IF doc.hold THEN "hold" ELSE "none" ELSE v = doc[n[3]]
    [] n[1] = "vacation" ->
         CASE n[2] = "hours" -> v = IF "days" \in DOMAIN doc THEN 24 * doc.days ELSE doc.hours
           [] n[2] = "days" ->
                IF "days" \in DOMAIN doc THEN v = doc.days
                ELSE doc.hours <= ShowableHours => RoundedUp(v, doc.hours)
           [] n[2] = "fanMode" -> v = word("fanMode", FanWords, "auto")
           [] OTHER -> v = doc[n[2]]

\* The documentation says that the command ends a vacation.
EndsVacation(cmd) ==
  LET doc == Document(cmd) IN
  \/ ForZone(cmd) /\ "hold" \in DOMAIN doc /\ doc.hold
  \/ /\ ForVacation(cmd)
     /\ IF "days" \in DOMAIN doc THEN doc.days = 0
        ELSE "hours" \in DOMAIN doc /\ doc.hours = 0

\* What is called n is shown as v when there is no vacation.
NoVacationShows(n, v) ==
  /\ n[1] = "vacation"
  /\ \/ n[2] = "active" /\ v = FALSE
     \/ n[2] \in {"days", "hours"} /\ v = 0

\* What is called n is in the table of the write w.
InTable(n, w) == n[1] = IF w.table = "current" THEN "mode" ELSE w.table

\* The write w of the command makes everything of its table that the command
\* mentions read as the command asks, and leaves everything else as it was, but
\* for a vacation that the command ends.
Obeys(cmd, w) ==
  LET before == View(reg)
      after == View(reg') IN
  \A n \in Names :
    \/ Mentions(cmd, n) /\ Asks(cmd, n, after[n])
    \/ EndsVacation(cmd) /\ NoVacationShows(n, after[n])
    \/ after[n] = before[n] /\ ~(Mentions(cmd, n) /\ InTable(n, w))

\* The commands the API takes: a value of a parameter it has, "same options as
\* above" (README.md:423-432), any document for a vacation, and for a zone any
\* whose fan mode is a word of the API.
IsValue(param, value) ==
  CASE param = "mode" -> value.word \in ModeWords
    [] param = "fanMode" -> value.word \in FanWords
    [] param = "hold" -> value.word \in {"true", "false"}
    [] param = "preset" -> value.word \in {"hold", "none"}
    [] param = "hours" -> value.word = Number /\ value.number \in TwoBytes
    [] OTHER -> value.word = Number /\ value.number \in Byte

IsTaken(cmd) ==
  CASE cmd.kind = "mqttZone" ->
         /\ cmd.zone \in 1 .. 8 /\ cmd.param \in ZoneFields \cup {"preset"}
         /\ IsValue(cmd.param, cmd.value)
    [] cmd.kind = "mqtt" ->
         cmd.param = "mode" /\ ~cmd.value.tail /\ IsValue("mode", cmd.value)
    [] cmd.kind = "mqttVacation" ->
         cmd.param \in {"days", "hours"} /\ ~cmd.value.tail /\ IsValue(cmd.param, cmd.value)
    [] cmd.kind = "putZone" ->
         cmd.zone \in 1 .. 8 /\ ("fanMode" \in DOMAIN cmd.args => cmd.args.fanMode \in FanWords)
    [] cmd.kind = "putVacation" -> TRUE

\* Whatever a command that is taken mentions, the handler has a write for.
HasWrites(h, cmd) ==
  \A n \in Names : Mentions(cmd, n) => \E i \in DOMAIN pending'[h] : InTable(n, pending'[h][i])

CommandStep ==
  /\ commands' # commands =>
       \A h \in Handlers, cmd \in Commands : Begin(h, cmd) /\ IsTaken(cmd) => HasWrites(h, cmd)
  /\ \A h \in Handlers : PerformWrite(h) => Obeys(command[h], Head(pending[h]))
  /\ LateWrite => Obeys(Head(late).command, Head(late).write)

\* Whatever handlers, poller and panel do meanwhile, a command sets all it
\* mentions, so that it reads back as it was asked, and nothing else ("Parameters
\* that are not mentioned are not changed", README.md:167-168): a command that is
\* taken has a write for all that it mentions, and each write that the thermostat
\* serves, in time or late, obeys its command.  Of a zone's preset this says what
\* the zone's table says; while a vacation is on, "vacation" is shown instead.
CommandsHaveTheirEffect == [][CommandStep]_vars

\* The days of the vacation are its hours rounded up, as long as they fit.
DaysShownCoverHours ==
  shown.vacation # Nothing /\ shown.vacation.hours <= ShowableHours =>
    RoundedUp(shown.vacation.days, shown.vacation.hours)

\* What the API shows of the tables when everything has been read.
Display ==
  [config |-> WithPreset(Config(reg.mode, reg.zone), toAPI(reg.vacation)),
   vacation |-> toAPI(reg.vacation)]

\* However reads, writes and the panel interleave, and whatever a read has taken
\* instead of the answer to it, in the end everything is shown as it is at the
\* thermostat (README.md:415-417, "any successful changes
\* will result in infinitive publishing a data update").
ChangesAreShown == <>[](crashed \/ shown = Display)
=============================================================================
