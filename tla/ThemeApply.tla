------------------------------- MODULE ThemeApply ------------------------------
(***************************************************************************)
(* ThemeApplyService.apply behind POST /aigc/themes/{id}/apply: a theme    *)
(* sets both temperatures of the vehicle, one tool call after the other,   *)
(* the second on the version that the first one made.  Every write between *)
(* them is a transaction of its own and nothing catches what fails: the    *)
(* run then stays "running", and a temperature that was set stays set.     *)
(*                                                                         *)
(* The vehicle is the one live VehicleTwin of the subject, which VehicleHAL *)
(* implements.  The safety policy approves every temperature and the tool  *)
(* takes every temperature a theme may have, so neither refuses.           *)
(***************************************************************************)
EXTENDS SafetyPolicy, Sequences, FiniteSets

CONSTANTS Vehicle,
          Sessions,         \* everything that calls the twin
          ThemeTemp,        \* the temperature of the theme's specification
          MaxVersion

ASSUME ThemeApplyAssumption == ThemeTemp \in 16..30 /\ MaxVersion \in Nat

VARIABLES life, cells, version, history, op,   \* the twin's
          apply,    \* apply[f] : where the request of session f is
          run       \* run[f]   : its agent run and tool calls, and mark_applied, until
                    \*            the request is answered

Twin == INSTANCE VehicleTwin WITH Vehicles <- {Vehicle}, DemoVehicles <- {Vehicle}

twinVars == <<life, cells, version, history, op>>
applyVars == <<apply, run>>

NoRun == [status |-> "none", tools |-> <<>>, marked |-> FALSE]
NoRequest == [pc |-> "none"]
Zones == <<"driver", "passenger">>
TempCell(zone) == IF zone = "driver" THEN <<"DRIVER_TEMP", "driver">>
                                     ELSE <<"PASSENGER_TEMP", "passenger">>

Seen == [version |-> version[Vehicle], cells |-> cells[Vehicle]]
Calls(f, cell, value, expected) ==
  op' = [op EXCEPT ![f] = [st |-> "setting", veh |-> Vehicle, cell |-> cell, value |-> value,
                           expected |-> expected]]
HangsUp(f) == op' = [op EXCEPT ![f] = Twin!Idle]
Returned(f, code) == op[f].st = "done" /\ op[f].code = code

ApplyInit ==
  /\ Twin!Init
  /\ apply = [f \in Sessions |-> NoRequest]
  /\ run = [f \in Sessions |-> NoRun]

Applying(f, pc) == apply[f].pc = pc
Zone(f) == Zones[apply[f].next]

\* The theme is the subject's; create_run, the first step, and the state that the
\* safety policy looks at.
CreateRun(f) ==
  /\ Applying(f, "received")
  /\ run' = [run EXCEPT ![f] = [NoRun EXCEPT !.status = "running"]]
  /\ apply' = [apply EXCEPT ![f].pc = "ready"]
  /\ UNCHANGED twinVars

\* The tool call of the next zone: the first on the version that the browser
\* named, the second on that of the state the first one returned.
ExpectedVersion_Anew(f) == version[Vehicle]                            \* fault
ExpectedVersion(f) == apply[f].version
ExecuteTool(f) ==
  /\ Applying(f, "ready")
  /\ apply[f].next \in DOMAIN Zones
  /\ Calls(f, TempCell(Zone(f)), Float(ThemeTemp), ExpectedVersion(f))
  /\ apply' = [apply EXCEPT ![f].pc = "executing"]
  /\ UNCHANGED <<life, cells, version, history, run>>

\* It returned the new state: the step and the tool call are recorded.
ToolReturned_Anyhow(f) == op[f].st = "done"                            \* fault
ToolReturned(f) == Returned(f, "ok")
RecordTool(f) ==
  /\ Applying(f, "executing")
  /\ ToolReturned(f)
  /\ run' = [run EXCEPT ![f].tools = Append(@, [zone |-> Zone(f), version |-> op[f].version])]
  /\ apply' = [apply EXCEPT ![f] = [pc |-> "ready", next |-> @.next + 1, version |-> op[f].version]]
  /\ HangsUp(f)
  /\ UNCHANGED <<life, cells, version, history>>

\* mark_applied, then complete_run, in two transactions.
MarkApplied(f) ==
  /\ Applying(f, "ready")
  /\ apply[f].next \notin DOMAIN Zones
  /\ run' = [run EXCEPT ![f].marked = TRUE]
  /\ apply' = [apply EXCEPT ![f].pc = "marked"]
  /\ UNCHANGED twinVars

CompleteApply(f) ==
  /\ Applying(f, "marked")
  /\ run' = [run EXCEPT ![f].status = "success"]
  /\ apply' = [apply EXCEPT ![f].pc = "applied"]
  /\ UNCHANGED twinVars

\* The tool call fails (a conflict, above all), or what it did cannot be recorded,
\* or another write fails: an error answer, whatever has been done.
ApplyFails(f) ==
  /\ \/ apply[f].pc \in {"received", "ready", "marked"} /\ UNCHANGED op
     \/ Applying(f, "executing") /\ op[f].st = "done" /\ HangsUp(f)
  /\ apply' = [apply EXCEPT ![f].pc = "refused"]
  /\ UNCHANGED <<life, cells, version, history, run>>

Answered(f) ==
  /\ apply' = [apply EXCEPT ![f] = NoRequest]
  /\ run' = [run EXCEPT ![f] = NoRun]

ApplyNext(f) ==
  \/ CreateRun(f) \/ ExecuteTool(f) \/ RecordTool(f)
  \/ MarkApplied(f) \/ CompleteApply(f) \/ ApplyFails(f)

\* The instant at which the twin answers a call.
TwinAnswers(f) == (Twin!Set(f) \/ Twin!Conflict(f) \/ Twin!Fail(f)) /\ UNCHANGED applyVars

--------------------------------------------------------------------------------
RunTypeOK ==
  /\ version[Vehicle] \in 0..MaxVersion
  /\ \A f \in Sessions :
       /\ run[f].status \in {"none", "running", "success"}
       /\ Len(run[f].tools) <= 2
       /\ apply[f].pc \in {"none", "received", "ready", "executing", "marked", "applied", "refused"}

\* docs/phase-3.5-report.md:32: a theme that was applied has set both temperatures
\* and the version went up by two: the changes are neighbours in the history, with
\* nobody's change between them.
AppliedIsWhole ==
  \A f \in Sessions :
    run[f].marked =>
      \E n \in DOMAIN history[Vehicle] :
        /\ n + 1 \in DOMAIN history[Vehicle]
        /\ \A k \in {1, 2} :
             LET change == history[Vehicle][n + k - 1]
             IN  /\ change.by = f /\ change.cell = TempCell(Zones[k])
                 /\ change.new = Float(ThemeTemp)
                 /\ change.version = run[f].tools[k].version

\* Each tool call on record was a change of the vehicle, and a run tells success
\* only of a theme that was marked applied.
RunTellsWhatHappened ==
  \A f \in Sessions :
    /\ run[f].status = "success" => run[f].marked
    /\ \A k \in DOMAIN run[f].tools :
         \E n \in DOMAIN history[Vehicle] :
           /\ history[Vehicle][n].by = f
           /\ history[Vehicle][n].version = run[f].tools[k].version
           /\ history[Vehicle][n].cell = TempCell(run[f].tools[k].zone)
================================================================================
