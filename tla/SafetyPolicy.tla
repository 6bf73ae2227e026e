------------------------------ MODULE SafetyPolicy -----------------------------
(***************************************************************************)
(* SafetyPolicyEngine.evaluate: the hard rules a tool command is held      *)
(* against, on the vehicle state that was loaded and the speed the user    *)
(* stated (0 when none was).  "APPROVED" carries the permit the executor   *)
(* asks for; every other code blocks the command.                          *)
(***************************************************************************)
EXTENDS VehicleProperties

OpensDoor(c) == c.prop = "DOOR_STATE" /\ c.value = Text("OPEN")
StartsCharge(c) == c.prop = "CHARGE_STATUS" /\ c.value = Text("CHARGING")

EffectiveSpeed(speed, observed) == IF observed > speed THEN observed ELSE speed

Evaluate(c, gear, speed, observed) ==
  LET moving == EffectiveSpeed(speed, observed) > 0
  IN  CASE OpensDoor(c) /\ moving                 -> "DOOR_OPEN_WHILE_MOVING"
        [] OpensDoor(c) /\ ~moving /\ gear # "P"  -> "DOOR_OPEN_GEAR_NOT_P"
        [] StartsCharge(c) /\ gear # "P"          -> "CHARGE_GEAR_NOT_P"
        [] c.prop = "GEAR" /\ speed > 0           -> "GEAR_CHANGE_WHILE_MOVING"
        [] OTHER                                  -> "APPROVED"

SafetyCodes ==
  {"APPROVED", "DOOR_OPEN_WHILE_MOVING", "DOOR_OPEN_GEAR_NOT_P", "CHARGE_GEAR_NOT_P",
   "GEAR_CHANGE_WHILE_MOVING"}
================================================================================
