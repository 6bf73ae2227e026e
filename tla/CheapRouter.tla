------------------------------- MODULE CheapRouter -----------------------------
(***************************************************************************)
(* CheapRouter.route: the first rule whose keywords the text contains      *)
(* plans the calls; a text no rule is sure of goes to the model.           *)
(*                                                                         *)
(* A text is what the rules can tell of it: the topics whose keywords      *)
(* occur in it, the passenger it points at and how, the temperature, what  *)
(* it wants of the window, and the speed it states (0 for none).           *)
(***************************************************************************)
EXTENDS ToolRegistry

\* The rules in the order they are tried.
Topics ==
  <<"info", "cold", "temperature", "open_door", "close_door", "window", "low_beam",
    "lights_off", "start_charge", "stop_charge">>

\* Whom a text points at: nobody, mother (a word only the rule for cold
\* knows), the right-hand side (a word the temperature rules do not), or the
\* passenger seat.
Pointers == {"nobody", "mother", "right", "seat"}

Utterance(topics, who, temp, window, speed) ==
  [topics |-> topics, who |-> who, temp |-> temp, window |-> window, speed |-> speed]

Topic(u) ==
  LET hits == {i \in DOMAIN Topics : Topics[i] \in u.topics}
  IN  IF hits = {} THEN "other"
      ELSE Topics[CHOOSE i \in hits : \A j \in hits : i <= j]

SeatOf(u, words) == IF u.who \in words THEN "passenger" ELSE "driver"

RuleCalls(u) ==
  LET topic == Topic(u)
      warm == SeatOf(u, {"mother", "seat"})
      side == SeatOf(u, {"right", "seat"})
  IN  CASE topic = "cold" ->
             <<ToolCall("set_temperature", warm, Integer(IF warm = "passenger" THEN 25 ELSE 24)),
               ToolCall("set_seat_heating", warm, Integer(1))>>
        [] topic = "temperature" ->
             <<ToolCall("set_temperature", SeatOf(u, {"seat"}), Float(u.temp))>>
        [] topic = "open_door"  -> <<ToolCall("set_door_state", side, Text("OPEN"))>>
        [] topic = "close_door" -> <<ToolCall("set_door_state", side, Text("CLOSED"))>>
        [] topic = "window" ->
             <<ToolCall("set_window", side, Float(IF u.window = "shut" THEN 0 ELSE 100))>>
        [] topic = "low_beam"     -> <<ToolCall("set_light", NoZone, Text("LOW_BEAM"))>>
        [] topic = "lights_off"   -> <<ToolCall("set_light", NoZone, Text("OFF"))>>
        [] topic = "start_charge" -> <<ToolCall("set_charge", NoZone, Text("CHARGING"))>>
        [] topic = "stop_charge"  -> <<ToolCall("set_charge", NoZone, Text("IDLE"))>>

\* The route, the planned calls, and the speed handed to the safety gate: only
\* a rule's result carries the speed the user stated.
Route(u) ==
  LET topic == Topic(u)
      unsure == topic = "other" \/ (topic = "window" /\ u.window = "unclear")
  IN  CASE topic = "info" -> [route |-> "vehicle_info", calls |-> <<>>, speed |-> 0]
        [] unsure         -> [route |-> "model", calls |-> <<>>, speed |-> 0]
        [] OTHER          -> [route |-> "rule", calls |-> RuleCalls(u), speed |-> u.speed]
================================================================================
