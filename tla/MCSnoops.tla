------------------------------ MODULE MCSnoops ------------------------------
(* Responses for TLC: three zones, of which the first zone controller has   *)
(* two and the second one; readings that differ in each field.              *)
EXTENDS Snoops

Response(src, table, data) == [src |-> src, table |-> table, short |-> FALSE, data |-> data]

Blower(heat, cool, cfm, static) ==
  Response("air handler", "0316", [heat |-> heat, cool |-> cool, cfm |-> cfm, static |-> static])

Whole ==
  {Response("heat pump", "3e01", [coil |-> c, outside |-> 720 - c]) : c \in {320, 400}}
    \cup {Response("heat pump", "3e02", 3), Response("air handler", "0306", 600)}
    \cup {Blower(0, 0, 0, 0), Blower(2, 1, 800, 3277)}
    \cup {Response("zone controller 1", "0319", <<p[1], p[2], NoDamper>>) :
            p \in {<<0, 0>>, <<5, 15>>, <<15, 0>>}}
    \cup {Response("zone controller 2", "0319", <<NoDamper, NoDamper, 9>>)}

CutOff ==
  {[src |-> "air handler", table |-> "0316", short |-> TRUE, data |-> None],
   [src |-> "zone controller 1", table |-> "0319", short |-> TRUE, data |-> <<15>>]}

AllResponses == Whole \cup CutOff

ZoneWeights == <<5, 3, 0>>
=============================================================================
