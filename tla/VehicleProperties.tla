--------------------------- MODULE VehicleProperties ---------------------------
(***************************************************************************)
(* The property rules of a vehicle's digital twin                          *)
(* (src/apps/api/domain/vehicle/properties.py): which properties exist,    *)
(* which zone each one takes, how a raw value of a request is checked and  *)
(* normalised, and how one property is read from and written to a state.   *)
(*                                                                         *)
(* A value that passes through typing.Any (a request's value, a value read *)
(* from a state, a JSON value of an audit row) is a pair <<kind, value>>,  *)
(* the kind being its Python type: "int", "float", "bool" or "text".       *)
(* Floats are taken at whole numbers, the limits being whole numbers too.  *)
(***************************************************************************)
EXTENDS Integers

SeatZones == {"driver", "passenger"}
NoZone == "none"                               \* zone omitted from the request
ZoneNames == SeatZones \cup {"global", NoZone}

ReadOnlyProperties == {"VEHICLE_SPEED", "BATTERY_SOC", "RANGE_KM"}
ZonedProperties == {"SEAT_HEAT", "WINDOW_POSITION", "DOOR_STATE"}
TempProperties == {"DRIVER_TEMP", "PASSENGER_TEMP"}
GlobalProperties == {"GEAR", "LIGHT_STATE", "CHARGE_STATUS"}
WritableProperties == ZonedProperties \cup TempProperties \cup GlobalProperties

Gears == {"P", "R", "N", "D"}
Doors == {"OPEN", "CLOSED"}
Lights == {"OFF", "PARKING", "LOW_BEAM", "HIGH_BEAM"}
Charges == {"IDLE", "CHARGING"}

Float(x) == <<"float", x>>
Integer(x) == <<"int", x>>
Text(x) == <<"text", x>>

\* The values a writable property may hold once normalised.
ValuesOf(p) ==
  CASE p \in TempProperties     -> {"float"} \X (16..30)
    [] p = "WINDOW_POSITION"    -> {"float"} \X (0..100)
    [] p = "SEAT_HEAT"          -> {"int"} \X (0..3)
    [] p = "DOOR_STATE"         -> {"text"} \X Doors
    [] p = "GEAR"               -> {"text"} \X Gears
    [] p = "LIGHT_STATE"        -> {"text"} \X Lights
    [] p = "CHARGE_STATUS"      -> {"text"} \X Charges
WritableValues ==
  {"float"} \X (0..100) \cup {"int"} \X (0..3)
    \cup {"text"} \X (Doors \cup Gears \cup Lights \cup Charges)

\* VehicleStateData, with the bounds the columns' CHECK constraints state.
VehicleState ==
  [speed_kph : Nat, gear : Gears, battery_soc : 0..100, range_km : Nat,
   climate : [SeatZones -> 16..30], seat_heat : [SeatZones -> 0..3],
   window_position : [SeatZones -> 0..100], door_state : [SeatZones -> Doors],
   light_state : Lights, charge_status : Charges, version : Nat]

--------------------------------------------------------------------------------
\* str.upper() on the spellings the choices can be written in.
LowerSpelling ==
  [open |-> "OPEN", closed |-> "CLOSED", idle |-> "IDLE", charging |-> "CHARGING",
   p |-> "P", r |-> "R", n |-> "N", d |-> "D", off |-> "OFF",
   parking |-> "PARKING", low_beam |-> "LOW_BEAM", high_beam |-> "HIGH_BEAM"]
Upper(text) == IF text \in DOMAIN LowerSpelling THEN LowerSpelling[text] ELSE text

RequireNumber(raw, low, high) == raw[1] \in {"int", "float"} /\ raw[2] \in low..high
RequireInteger(raw, low, high) == raw[1] = "int" /\ raw[2] \in low..high
RequireChoice(raw, choices) == raw[1] = "text" /\ Upper(raw[2]) \in choices

\* normalize_property_value, in three parts: is the zone one the property
\* takes, is the value, and what zone and value come out.
ZoneAccepted(p, z) ==
  \/ p = "DRIVER_TEMP" /\ z \in {NoZone, "driver"}
  \/ p = "PASSENGER_TEMP" /\ z \in {NoZone, "passenger"}
  \/ p \in ZonedProperties /\ z \in SeatZones
  \/ p \in GlobalProperties /\ z \in {NoZone, "global"}

ValueAccepted(p, raw) ==
  \/ p \in TempProperties /\ RequireNumber(raw, 16, 30)
  \/ p = "SEAT_HEAT" /\ RequireInteger(raw, 0, 3)
  \/ p = "WINDOW_POSITION" /\ RequireNumber(raw, 0, 100)
  \/ p = "DOOR_STATE" /\ RequireChoice(raw, Doors)
  \/ p = "GEAR" /\ RequireChoice(raw, Gears)
  \/ p = "LIGHT_STATE" /\ RequireChoice(raw, Lights)
  \/ p = "CHARGE_STATUS" /\ RequireChoice(raw, Charges)

Normalizable(p, z, raw) ==
  p \notin ReadOnlyProperties /\ ZoneAccepted(p, z) /\ ValueAccepted(p, raw)

NormalZone(p, z) ==
  IF p = "DRIVER_TEMP" THEN "driver"
  ELSE IF p = "PASSENGER_TEMP" THEN "passenger"
  ELSE IF p \in ZonedProperties THEN z
  ELSE "global"

\* Fault: a choice is stored as the request spells it.
NormalValue_AsSpelled(p, raw) == IF raw[1] = "text" THEN raw ELSE Float(raw[2])

NormalValue(p, raw) ==
  CASE p \in TempProperties \cup {"WINDOW_POSITION"} -> Float(raw[2])
    [] p = "SEAT_HEAT" -> Integer(raw[2])
    [] OTHER -> Text(Upper(raw[2]))

--------------------------------------------------------------------------------
\* The cells of a twin: what read_property can address.
Cells ==
  (ReadOnlyProperties \cup GlobalProperties) \X {"global"}
    \cup ZonedProperties \X SeatZones
    \cup {<<"DRIVER_TEMP", "driver">>, <<"PASSENGER_TEMP", "passenger">>}
WritableCells == {c \in Cells : c[1] \in WritableProperties}

ReadProperty(st, p, z) ==
  CASE p = "VEHICLE_SPEED"   -> Float(st.speed_kph)
    [] p = "GEAR"            -> Text(st.gear)
    [] p = "BATTERY_SOC"     -> Float(st.battery_soc)
    [] p = "RANGE_KM"        -> Float(st.range_km)
    [] p = "DRIVER_TEMP"     -> Float(st.climate["driver"])
    [] p = "PASSENGER_TEMP"  -> Float(st.climate["passenger"])
    [] p = "SEAT_HEAT"       -> Integer(st.seat_heat[z])
    [] p = "WINDOW_POSITION" -> Float(st.window_position[z])
    [] p = "DOOR_STATE"      -> Text(st.door_state[z])
    [] p = "LIGHT_STATE"     -> Text(st.light_state)
    [] p = "CHARGE_STATUS"   -> Text(st.charge_status)

\* Fault: a seat's value lands on both seats.
ApplyProperty_BothZones(st, p, z, v) ==
  CASE p \in TempProperties -> [st EXCEPT !.climate = [x \in SeatZones |-> v[2]]]
    [] p = "DOOR_STATE"     -> [st EXCEPT !.door_state = [x \in SeatZones |-> v[2]]]
    [] OTHER                -> st

ApplyProperty(st, p, z, v) ==
  CASE p = "DRIVER_TEMP"     -> [st EXCEPT !.climate["driver"] = v[2]]
    [] p = "PASSENGER_TEMP"  -> [st EXCEPT !.climate["passenger"] = v[2]]
    [] p = "SEAT_HEAT"       -> [st EXCEPT !.seat_heat[z] = v[2]]
    [] p = "WINDOW_POSITION" -> [st EXCEPT !.window_position[z] = v[2]]
    [] p = "DOOR_STATE"      -> [st EXCEPT !.door_state[z] = v[2]]
    [] p = "GEAR"            -> [st EXCEPT !.gear = v[2]]
    [] p = "LIGHT_STATE"     -> [st EXCEPT !.light_state = v[2]]
    [] p = "CHARGE_STATUS"   -> [st EXCEPT !.charge_status = v[2]]
================================================================================
