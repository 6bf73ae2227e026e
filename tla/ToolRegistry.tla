------------------------------ MODULE ToolRegistry -----------------------------
(***************************************************************************)
(* The agent's tools (src/apps/api/tools): the allow-list, each tool's     *)
(* argument schema, and the vehicle property a validated call sets.        *)
(*                                                                         *)
(* A planned call is <<tool, zone, raw value>>, the zone being NoZone when *)
(* the arguments name none.  It comes from the router or from the model,   *)
(* whose output is not trusted: any tool name, zone and value may occur.   *)
(***************************************************************************)
EXTENDS VehicleProperties, Sequences, FiniteSets

ToolNames ==
  {"set_temperature", "set_seat_heating", "set_window", "set_door_state", "set_light",
   "set_charge"}

ToolCall(name, zone, raw) == <<name, zone, raw>>

\* A schema's number is taken from what reads as one, digits in quotes too; of a
\* choice of numbers, only a number is taken.
WholeNumber(raw, choices) == raw[1] \in {"int", "float", "numeral"} /\ raw[2] \in choices
NumberOf(raw, choices) == raw[1] \in {"int", "float"} /\ raw[2] \in choices
Literally(raw, choices) == raw[1] = "text" /\ raw[2] \in choices

\* Fault: doors may be spelled as the vehicle's own rules allow.
Accepted_AnySpelling(call) ==
  \/ call[1] = "set_door_state" /\ call[2] \in SeatZones /\ RequireChoice(call[3], Doors)
  \/ call[1] = "set_charge" /\ call[2] = NoZone /\ Literally(call[3], Charges)

\* The schemas: no choice may be spelled otherwise, no argument be left over.
Accepted(call) ==
  LET name == call[1]  zone == call[2]  raw == call[3]
  IN  \/ name = "set_temperature" /\ zone \in SeatZones /\ WholeNumber(raw, 16..30)
      \/ name = "set_seat_heating" /\ zone \in SeatZones /\ WholeNumber(raw, 0..3)
      \/ name = "set_window" /\ zone \in SeatZones /\ NumberOf(raw, {0, 25, 50, 75, 100})
      \/ name = "set_door_state" /\ zone \in SeatZones /\ Literally(raw, Doors)
      \/ name = "set_light" /\ zone = NoZone /\ Literally(raw, Lights)
      \/ name = "set_charge" /\ zone = NoZone /\ Literally(raw, Charges)

ToolProperty(name, zone) ==
  CASE name = "set_temperature" ->
         IF zone = "driver" THEN "DRIVER_TEMP" ELSE "PASSENGER_TEMP"
    [] name = "set_seat_heating" -> "SEAT_HEAT"
    [] name = "set_window"       -> "WINDOW_POSITION"
    [] name = "set_door_state"   -> "DOOR_STATE"
    [] name = "set_light"        -> "LIGHT_STATE"
    [] name = "set_charge"       -> "CHARGE_STATUS"

\* The command an accepted call becomes, with the schema's value.
Command(call) ==
  LET name == call[1]  raw == call[3]
  IN  [name |-> name, prop |-> ToolProperty(name, call[2]),
       zone |-> IF call[2] = NoZone THEN "global" ELSE call[2],
       value |-> CASE name = "set_temperature"                     -> Float(raw[2])
                   [] name \in {"set_seat_heating", "set_window"} -> Integer(raw[2])
                   [] OTHER                                        -> Text(raw[2])]

\* validate_tools: the calls that pass, in the order they were planned.
Commands(calls) ==
  LET accepted == {i \in DOMAIN calls : Accepted(calls[i])}
      nth(k) == CHOOSE i \in accepted : Cardinality({j \in accepted : j <= i}) = k
  IN  [k \in 1..Cardinality(accepted) |-> Command(calls[nth(k)])]
================================================================================
