---------------------------- MODULE MCCommands ----------------------------
(* Commands for TLC: two zones, and commands that meet each branch of the   *)
(* handlers.                                                                *)
EXTENDS Commands

Word(w) == [word |-> w, number |-> 0, tail |-> FALSE]
Num(n) == [word |-> Number, number |-> n, tail |-> FALSE]
WithTail(value) == [value EXCEPT !.tail = TRUE]

MqttZone(z, p, v) == [kind |-> "mqttZone", zone |-> z, param |-> p, value |-> v]
Mqtt(p, v) == [kind |-> "mqtt", param |-> p, value |-> v]
MqttVacation(p, v) == [kind |-> "mqttVacation", param |-> p, value |-> v]
PutZone(z, args) == [kind |-> "putZone", zone |-> z, args |-> args]
PutVacation(args) == [kind |-> "putVacation", args |-> args]

\* Commands that change something, some of them in words the API does not have.
Effective ==
  {MqttZone(1, "heatSetpoint", WithTail(Num(70))), MqttZone(2, "preset", Word("hold")),
   Mqtt("mode", Word("cool")), MqttVacation("days", Num(0)),
   PutZone(2, [fanMode |-> "med", mode |-> "electric"]),
   PutZone(1, [hold |-> FALSE, heatSetpoint |-> 60, coolSetpoint |-> 0]),
   PutVacation([active |-> TRUE, days |-> 255, maxHumidity |-> 50]),
   PutVacation([fanMode |-> "fast", minTemperature |-> 50, hours |-> 6097])}

\* Commands that are refused; the third stops the program.
Refused ==
  {MqttZone(1, "coolSetpoint", Num(256)), MqttZone(2, "fanMode", Word("fast")),
   MqttZone(1, "heatSetpoint", Num(5)), MqttZone(9, "hold", Word("true")),
   Mqtt("mode", Word("electric")), MqttVacation("days", WithTail(Num(3))),
   PutZone(1, [fanMode |-> "fast", hold |-> TRUE])}

AllCommands == Effective \cup Refused

\* The thermostat as it is found: emergency heat, zone 1 on hold with the fan running.
Found ==
  {[mode |-> 3,
    zone |-> [z \in Zones |-> IF z = 1
                THEN [fanMode |-> 3, hold |-> 1, heatSetpoint |-> 65, coolSetpoint |-> 80]
                ELSE [fanMode |-> 0, hold |-> 0, heatSetpoint |-> 62, coolSetpoint |-> 82]],
    vacation |-> [active |-> 0, hours |-> 0, minTemperature |-> 56, maxTemperature |-> 84,
                  minHumidity |-> 15, maxHumidity |-> 60, fanMode |-> 1]]}

\* At the panel a vacation of a week begins.
AtPanel == {VacationWrite([active |-> 1, hours |-> 168], {"active", "hours"})}

=============================================================================
