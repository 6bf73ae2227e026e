--------------------------- MODULE MC_CockpitAgent ---------------------------
(* CockpitAgent with one chat and one other session on one vehicle, which is   *)
(* created and removed.                                                        *)
EXTENDS CockpitAgent, TLC

CONSTANTS v1, a1, s1

\* A question, a rule of one call, a rule of two, a window, and a speed with a wish
\* that no rule is sure of.
MC_Utterances ==
  {Utterance({"info"}, "nobody", 20, "unclear", 0),
   Utterance({"open_door"}, "right", 20, "unclear", 120),
   Utterance({"cold"}, "mother", 20, "unclear", 0),
   Utterance({"window"}, "seat", 20, "wide", 0),
   Utterance({}, "nobody", 20, "unclear", 120)}

\* What the model plans: to charge and open a door, with a tool that does not
\* exist and a value that is misspelled between the two.
MC_ModelPlans ==
  {<<ToolCall("set_charge", NoZone, Text("CHARGING")),
     ToolCall("set_gear", NoZone, Text("D")),
     ToolCall("set_door_state", "passenger", Text("open")),
     ToolCall("set_door_state", "driver", Text("OPEN"))>>}

\* The other session shifts the gear.
MC_ManualRequests == {<<<<"GEAR", "global">>, Text("D")>>}

==============================================================================
