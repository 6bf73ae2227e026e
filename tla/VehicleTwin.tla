------------------------------ MODULE VehicleTwin ------------------------------
(***************************************************************************)
(* What a vehicle's digital twin promises its callers, with no database in *)
(* sight: one versioned register file per vehicle.  A set names the        *)
(* version it was decided on and takes effect at one instant between its   *)
(* call and its answer, on that version and on no other; it changes one    *)
(* cell, adds one to the version and adds one entry to the history.  A     *)
(* conflict answer tells the version there was at some instant of the      *)
(* call.  Only a database error leaves the caller not knowing.             *)
(*                                                                         *)
(* VehicleHAL implements this specification (ImplementsTwin).              *)
(***************************************************************************)
EXTENDS VehicleProperties, Sequences

CONSTANTS Vehicles, DemoVehicles, Sessions, MaxVersion

VARIABLES life,      \* life[v]    : "unborn", "live" or "removed"
          cells,     \* cells[v]   : the value of each cell
          version,   \* version[v]
          history,   \* history[v] : the changes, oldest first
          op         \* op[s]      : what session s has asked and been told

twinVars == <<life, cells, version, history, op>>

Idle == [st |-> "idle"]
Answer(code, n, view) == [st |-> "done", code |-> code, version |-> n, view |-> view]
NoView == <<>>

DemoCells ==
  [c \in Cells |->
     CASE c[1] \in TempProperties -> Float(22)
       [] c[1] = "BATTERY_SOC"    -> Float(78)
       [] c[1] = "RANGE_KM"       -> Float(421)
       [] c[1] = "SEAT_HEAT"      -> Integer(0)
       [] c[1] = "DOOR_STATE"     -> Text("CLOSED")
       [] c[1] = "GEAR"           -> Text("P")
       [] c[1] = "LIGHT_STATE"    -> Text("OFF")
       [] c[1] = "CHARGE_STATUS"  -> Text("IDLE")
       [] OTHER                   -> Float(0)]
NewCells ==
  [c \in Cells |-> IF c[1] \in {"BATTERY_SOC", "RANGE_KM"} THEN Float(0) ELSE DemoCells[c]]

Init ==
  /\ life = [v \in Vehicles |-> IF v \in DemoVehicles THEN "live" ELSE "unborn"]
  /\ cells = [v \in Vehicles |-> IF v \in DemoVehicles THEN DemoCells ELSE NewCells]
  /\ version = [v \in Vehicles |-> 0]
  /\ history = [v \in Vehicles |-> <<>>]
  /\ op = [s \in Sessions |-> Idle]

Tell(s, answer) == op' = [op EXCEPT ![s] = answer]

Create(v) ==
  /\ life[v] = "unborn"
  /\ life' = [life EXCEPT ![v] = "live"]
  /\ UNCHANGED <<cells, version, history, op>>

\* A call is put: any well-formed request.
Call(s) ==
  /\ op[s] = Idle
  /\ \/ /\ op'[s] \in [st : {"setting"}, veh : Vehicles, cell : WritableCells,
                       value : WritableValues, expected : Nat]
        /\ op'[s].value \in ValuesOf(op'[s].cell[1])
     \/ op'[s] \in [st : {"removing"}, veh : Vehicles \ DemoVehicles]
  /\ Tell(s, op'[s])
  /\ UNCHANGED <<life, cells, version, history>>

\* The instant a set takes effect.  The answer is the new state, or a database
\* error when the acknowledgement is lost.
Set(s) ==
  LET r == op[s]
      next == [cells[r.veh] EXCEPT ![r.cell] = r.value]
  IN  /\ r.st = "setting"
      /\ life[r.veh] = "live"
      /\ version[r.veh] = r.expected
      /\ version[r.veh] < MaxVersion
      /\ cells' = [cells EXCEPT ![r.veh] = next]
      /\ version' = [version EXCEPT ![r.veh] = @ + 1]
      /\ history' = [history EXCEPT ![r.veh] =
                       Append(@, [by |-> s, cell |-> r.cell, old |-> cells[r.veh][r.cell],
                                  new |-> r.value, version |-> version[r.veh] + 1])]
      /\ \/ Tell(s, Answer("ok", version[r.veh] + 1, next))
         \/ Tell(s, Answer("storage", 0, NoView))
      /\ UNCHANGED life

Remove(s) ==
  LET v == op[s].veh
  IN  /\ op[s].st = "removing"
      /\ life[v] = "live"
      /\ life' = [life EXCEPT ![v] = "removed"]
      /\ history' = [history EXCEPT ![v] = <<>>]
      /\ \/ Tell(s, Answer("ok", 0, NoView))
         \/ Tell(s, Answer("storage", 0, NoView))
      /\ UNCHANGED <<cells, version>>

\* The answers that change nothing.
Conflict(s) ==
  /\ op[s].st = "setting"
  /\ life[op[s].veh] = "live"
  /\ version[op[s].veh] # op[s].expected
  /\ Tell(s, Answer("conflict", version[op[s].veh], NoView))
  /\ UNCHANGED <<life, cells, version, history>>

NotFound(s) ==
  /\ op[s].st \in {"setting", "removing"}
  /\ life[op[s].veh] # "live"
  /\ Tell(s, Answer("not_found", 0, NoView))
  /\ UNCHANGED <<life, cells, version, history>>

Fail(s) ==
  /\ op[s].st \in {"setting", "removing"}
  /\ Tell(s, Answer("storage", 0, NoView))
  /\ UNCHANGED <<life, cells, version, history>>

\* A request refused before it reaches the twin.
Refuse(s) ==
  /\ op[s] = Idle
  /\ \E code \in {"invalid", "not_found"} : Tell(s, Answer(code, 0, NoView))
  /\ UNCHANGED <<life, cells, version, history>>

\* The caller takes its answer, or is gone before there is one.
Leave(s) ==
  /\ op[s] # Idle
  /\ Tell(s, Idle)
  /\ UNCHANGED <<life, cells, version, history>>

Next ==
  \/ \E v \in Vehicles : Create(v)
  \/ \E s \in Sessions :
       \/ Call(s)
       \/ Set(s) \/ Remove(s)
       \/ Conflict(s) \/ NotFound(s) \/ Fail(s)
       \/ Refuse(s) \/ Leave(s)

Spec == Init /\ [][Next]_twinVars
================================================================================
