------------------------------ MODULE CockpitClient ----------------------------
(***************************************************************************)
(* The cockpit page of the web application in live mode: the store of the  *)
(* vehicle that is shown, the page's first load, the manual temperature    *)
(* buttons and the theme dialog.  Each is a chain of promises; any number  *)
(* of them run at once and their answers come in any order, those of a     *)
(* page that was left meanwhile included.  Others set the same vehicle.    *)
(*                                                                         *)
(* Left out: what a dialog must do before it may apply a theme (generate   *)
(* one), the chat's answer, which sets the store too, and a reload of the  *)
(* browser's tab, which forgets all of this.                               *)
(***************************************************************************)
EXTENDS ThemeApply

CONSTANTS Tasks,            \* the chains of promises of the page
          Presses,          \* the buttons that are pressed: <<zone, delta>>
          Others,           \* the other clients of the vehicle
          OthersTemp        \* what they set the driver's temperature to

ASSUME ClientAssumption ==
  /\ Sessions = Tasks \cup Others /\ Tasks \cap Others = {}
  /\ Presses \subseteq SeatZones \X {-1, 1}
  /\ OthersTemp \in 16..30

VARIABLES shown,    \* useVehicleStore's vehicle, which outlives the page
          status,   \* vehicleStatus of the cockpit page, or "away" while there is none
          busy,     \* the page's theme dialog applies
          alive,    \* the chains of load and dialog that the page now open has begun
          task      \* task[f] : what chain f does, where it is, and what it knows

pageVars == <<shown, status, busy, alive, task>>
vars == <<twinVars, applyVars, pageVars>>

NoTask == [kind |-> "none", pc |-> "idle"]

\* What fromBackend shows of a state, as far as temperatures decide it: both as
\* they are, and whether the air conditioning is on, which is read off them.  (Of
\* gear, windows, lights and charging it shows less than there is: B as D, the
\* nearest quarter, on or off.  No chain here changes those.)  The store keeps no
\* version; the one in shown only names its state.
Climate(temps) == IF \A zone \in SeatZones : temps[zone] = Float(22) THEN "OFF" ELSE "ON"
FromBackend(state) ==
  LET temps == [zone \in SeatZones |-> state.cells[TempCell(zone)]]
  IN  [version |-> state.version, temps |-> temps, ac |-> Climate(temps)]

Init ==
  /\ ApplyInit
  /\ shown = [version |-> 0, temps |-> [zone \in SeatZones |-> Float(22)], ac |-> "OFF"]
                                                           \* DEFAULT_VEHICLE_STATE
  /\ status = "away"
  /\ busy = FALSE
  /\ alive = {}
  /\ task = [f \in Tasks |-> NoTask]

Doing(f, kind, pc) == task[f].kind = kind /\ task[f].pc = pc
Becomes(f, t) == task' = [task EXCEPT ![f] = t]
Goto(f, pc) == task' = [task EXCEPT ![f].pc = pc]
Ends(f) == Becomes(f, NoTask) /\ alive' = alive \ {f}

--------------------------------------------------------------------------------
\* GET /vehicle/state: the answer holds the state of one instant of the request, never
\* one the browser keeps ("no-store"), and arrives later; or the request fails, which
\* each chain handles in its own way.
Served_Cached == [version |-> 0, cells |-> Twin!DemoCells]              \* fault
Served == Seen
ServeState(f) ==
  /\ task[f].pc = "get"
  /\ Becomes(f, [kind |-> task[f].kind, pc |-> "got", got |-> Served,
                 press |-> task[f].press])
  /\ UNCHANGED <<twinVars, applyVars, shown, status, busy, alive>>

Nothing == <<>>
Gets(f, kind, press) == Becomes(f, [kind |-> kind, pc |-> "get", press |-> press])

\* The page opens, with a dialog that has nothing under way.
Open(f) ==
  /\ task[f] = NoTask /\ status = "away"
  /\ status' = "loading"
  /\ alive' = alive \cup {f}
  /\ Gets(f, "load", Nothing)
  /\ UNCHANGED <<twinVars, applyVars, shown, busy>>

\* What a load brings to a page that was left meanwhile is dropped.
Loaded(f) ==
  /\ \/ /\ Doing(f, "load", "got") /\ f \in alive
        /\ shown' = FromBackend(task[f].got) /\ status' = "ready"
     \/ /\ Doing(f, "load", "get") /\ f \in alive
        /\ status' = "error" /\ UNCHANGED shown
     \/ /\ task[f].kind = "load" /\ f \notin alive
        /\ UNCHANGED <<shown, status>>
  /\ Ends(f)
  /\ UNCHANGED <<twinVars, applyVars, busy>>

\* The page is left through one of the header's links, whatever is under way: its
\* chains run on.
Leave ==
  /\ status # "away"
  /\ status' = "away" /\ busy' = FALSE /\ alive' = {}
  /\ UNCHANGED <<twinVars, applyVars, shown, task>>

--------------------------------------------------------------------------------
\* A button of the panel: one degree off what is shown.
Clamp_None(x) == x                                                     \* fault
Clamp(x) == IF x < 16 THEN 16 ELSE IF x > 30 THEN 30 ELSE x
Pressed(zone, delta) ==
  [cell |-> TempCell(zone), value |-> Float(Clamp(shown.temps[zone][2] + delta))]

ShownOnPress_Optimistic(p) == [shown EXCEPT !.temps[p.cell[2]] = p.value]   \* fault
ShownOnPress(p) == shown
Press(f) ==
  /\ task[f] = NoTask /\ status = "ready"
  /\ \E button \in Presses :
       LET press == Pressed(button[1], button[2])
       IN  Gets(f, "control", press) /\ shown' = ShownOnPress(press)
  /\ UNCHANGED <<twinVars, applyVars, status, busy, alive>>

\* controlVehicle: what was pressed, on the version that was just read.
Control(f) ==
  /\ Doing(f, "control", "got")
  /\ Calls(f, task[f].press.cell, task[f].press.value, task[f].got.version)
  /\ Becomes(f, [kind |-> "control", pc |-> "posted"])
  /\ UNCHANGED <<life, cells, version, history, applyVars, shown, status, busy, alive>>

\* The new state replaces what is shown, whatever has been shown since and whether
\* or not the page is still open: the store is the application's.  An error leaves
\* it.
Controlled(f) ==
  /\ Doing(f, "control", "posted") /\ op[f].st = "done"
  /\ shown' = IF op[f].code = "ok"
               THEN FromBackend([version |-> op[f].version, cells |-> op[f].view]) ELSE shown
  /\ HangsUp(f)
  /\ Ends(f)
  /\ UNCHANGED <<life, cells, version, history, applyVars, status, busy>>

ControlFailed(f) ==
  /\ Doing(f, "control", "get")
  /\ Ends(f)
  /\ UNCHANGED <<twinVars, applyVars, shown, status, busy>>

--------------------------------------------------------------------------------
\* The dialog's apply(): the version, the request, and, once it is applied, the
\* vehicle's state.  Its setBusy(null) is that of the dialog it was begun in.
FreesDialog_Anyones(f) == busy' = FALSE                                \* fault
FreesDialog(f) == busy' = (busy /\ f \notin alive)
ConfirmTheme(f) ==
  /\ task[f] = NoTask /\ status = "ready" /\ ~busy
  /\ busy' = TRUE
  /\ alive' = alive \cup {f}
  /\ Gets(f, "theme", Nothing)
  /\ UNCHANGED <<twinVars, applyVars, shown, status>>

PostApply(f) ==
  /\ Doing(f, "theme", "got")
  /\ apply' = [apply EXCEPT ![f] = [pc |-> "received", next |-> 1, version |-> task[f].got.version]]
  /\ Becomes(f, [kind |-> "theme", pc |-> "posted"])
  /\ UNCHANGED <<twinVars, run, shown, status, busy, alive>>

ThemeApplied(f) ==
  /\ Doing(f, "theme", "posted") /\ Applying(f, "applied")
  /\ Answered(f)
  /\ Gets(f, "refresh", Nothing)
  /\ UNCHANGED <<twinVars, shown, status, busy, alive>>

Refreshed(f) ==
  /\ Doing(f, "refresh", "got")
  /\ shown' = FromBackend(task[f].got)
  /\ FreesDialog(f)
  /\ Ends(f)
  /\ UNCHANGED <<twinVars, applyVars, status>>

\* An error is told in the dialog; the vehicle is not read again.
ThemeFails(f) ==
  \/ task[f].kind \in {"theme", "refresh"} /\ task[f].pc = "get" /\ UNCHANGED applyVars
  \/ Doing(f, "theme", "posted") /\ Applying(f, "refused") /\ Answered(f)
ThemeFailed(f) ==
  /\ ThemeFails(f)
  /\ FreesDialog(f)
  /\ Ends(f)
  /\ UNCHANGED <<twinVars, shown, status>>

\* Another client sets the driver's temperature: the instant at which its call takes
\* effect, on the version there is.
OtherSets(o) ==
  LET cell == TempCell("driver")
      n == version[Vehicle] + 1
      change == [by |-> o, cell |-> cell, old |-> cells[Vehicle][cell],
                 new |-> Float(OthersTemp), version |-> n]
  IN  /\ version[Vehicle] < MaxVersion
      /\ cells' = [cells EXCEPT ![Vehicle] = [@ EXCEPT ![cell] = Float(OthersTemp)]]
      /\ version' = [version EXCEPT ![Vehicle] = n]
      /\ history' = [history EXCEPT ![Vehicle] = Append(@, change)]
      /\ UNCHANGED <<life, op, applyVars, pageVars>>

--------------------------------------------------------------------------------
Server(f) ==
  \/ ServeState(f)
  \/ ApplyNext(f) /\ UNCHANGED pageVars
  \/ TwinAnswers(f) /\ UNCHANGED pageVars
Page(f) ==
  \/ Loaded(f) \/ Control(f) \/ Controlled(f) \/ ControlFailed(f)
  \/ PostApply(f) \/ ThemeApplied(f) \/ Refreshed(f) \/ ThemeFailed(f)
User(f) == Open(f) \/ Press(f) \/ ConfirmTheme(f)

Next ==
  \/ \E f \in Tasks : Server(f) \/ Page(f) \/ User(f)
  \/ \E o \in Others : OtherSets(o)
  \/ Leave

Spec == Init /\ [][Next]_vars

--------------------------------------------------------------------------------
\* Types; what the page and the theme ask of the vehicle is well-formed, so that
\* the server's range check has nothing to refuse.
TypeOK ==
  /\ RunTypeOK
  /\ \A f \in Sessions : op[f].st = "setting" => op[f].value \in ValuesOf(op[f].cell[1])
  /\ shown.version \in 0..MaxVersion
  /\ status \in {"away", "loading", "ready", "error"}
  /\ busy \in BOOLEAN /\ alive \subseteq Tasks
  /\ \A f \in Tasks : task[f].pc \in {"idle", "get", "got", "posted"}

\* Cell c held x after the first n of these changes.
HeldAfter(changes, c, n, x) ==
  \/ /\ x = Twin!DemoCells[c]
     /\ \A i \in 1..n : changes[i].cell # c
  \/ \E i \in 1..n :
       /\ changes[i].cell = c /\ changes[i].new = x
       /\ \A j \in (i + 1)..n : changes[j].cell # c

\* The vehicle was in this state after that many of its changes.
HadState(changes, state) ==
  /\ state.version \in 0..Len(changes)
  /\ \A c \in Cells : HeldAfter(changes, c, state.version, state.cells[c])

\* It is what the page shows of the state after that many of the changes.
Pictures(changes, picture) ==
  /\ picture.version \in 0..Len(changes)
  /\ \A zone \in SeatZones :
       HeldAfter(changes, TempCell(zone), picture.version, picture.temps[zone])
  /\ picture.ac = Climate(picture.temps)

\* vehicle-store.ts:16-18: in live mode the page shows only states that the vehicle
\* has had as a whole, never one mixed of an answer and a press, whichever chains
\* succeed, fail, or overtake each other, those of a page that was left included.
ShownWasReal == status = "ready" => Pictures(history[Vehicle], shown)

\* A dialog applies one theme at a time and is busy exactly as long: a chain whose
\* dialog was left while it applied neither blocks the dialog that is open now nor
\* frees it, although both themes are then applied to the vehicle.
OneThemePerDialog ==
  LET applying == {f \in alive : task[f].kind \in {"theme", "refresh"}}
  IN  Cardinality(applying) <= 1 /\ (busy <=> applying # {})

\* What is shown once a theme is applied is a state in which it was: the vehicle is
\* read anew after the server's answer (ai-theme-dialog.tsx:51-57), so both of the
\* theme's changes are in it, whatever was read before or changed since.
RefreshSeesTheTheme ==
  \A f \in Tasks :
    Doing(f, "refresh", "got") =>
      \E n \in 1..(task[f].got.version - 1) :
        \A k \in {1, 2} :
          LET change == history[Vehicle][n + k - 1]
          IN  change.by = f /\ change.cell = TempCell(Zones[k]) /\ change.new = Float(ThemeTemp)
================================================================================
