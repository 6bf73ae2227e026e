-------------------------- MODULE CockpitClient_proofs -------------------------
(***************************************************************************)
(* Safety of CockpitClient and ThemeApply, for any chains, other clients   *)
(* and presses.  The vehicle's history only grows, so a fact about the     *)
(* history, once true, stays: that a state was had, that a change was      *)
(* made.  Each chain carries such facts from one of its steps to the next. *)
(***************************************************************************)
EXTENDS CockpitClient, SequenceTheorems, FiniteSetTheorems, TLAPS

TempCells == {<<"DRIVER_TEMP", "driver">>, <<"PASSENGER_TEMP", "passenger">>}
Temps == {"float"} \X (16..30)

Changes == [by : Sessions, cell : TempCells, old : Temps, new : Temps, version : Nat]

\* History g continues history h.
Continues(h, g) == Len(h) <= Len(g) /\ \A n \in 1..Len(h) : g[n] = h[n]

\* The changes are numbered without a gap.
Numbered(h) == \A n \in 1..Len(h) : h[n].version = n

\* Change n of history h was made by f, and set the cell to the theme's temperature.
Made(h, f, n, cell) ==
  /\ n \in 1..Len(h)
  /\ h[n].by = f /\ h[n].cell = cell /\ h[n].new = Float(ThemeTemp) /\ h[n].version = n

--------------------------------------------------------------------------------
\* What holds of the vehicle.
TwinInv ==
  /\ life[Vehicle] = "live"
  /\ cells = [v \in {Vehicle} |-> cells[v]]
  /\ version = [v \in {Vehicle} |-> version[v]] /\ version[Vehicle] \in 0..MaxVersion
  /\ history = [v \in {Vehicle} |-> history[v]] /\ history[Vehicle] \in Seq(Changes)
  /\ version[Vehicle] = Len(history[Vehicle])
  /\ Numbered(history[Vehicle])
  /\ DOMAIN cells[Vehicle] = Cells /\ HadState(history[Vehicle], Seen)

State(n, view) == [version |-> n, cells |-> view]

\* What is asked of the twin is well-formed, and what it told was so.
Settings == [st : {"setting"}, veh : {Vehicle}, cell : TempCells, value : Temps, expected : Nat]
OpFits(h, o) ==
  \/ o = Twin!Idle
  \/ o \in Settings
  \/ o.st = "done" /\ (o.code = "ok" => HadState(h, State(o.version, o.view)))

\* The tool calls on record are changes of the vehicle, the second next to the first.
Runs == [status : {"none", "running", "success"},
         tools : Seq([zone : SeatZones, version : Nat]), marked : BOOLEAN]
RunFits(h, f, r) ==
  /\ r \in Runs
  /\ Len(r.tools) <= 2
  /\ \A k \in 1..Len(r.tools) :
       r.tools[k].zone = Zones[k] /\ Made(h, f, r.tools[k].version, TempCell(Zones[k]))
  /\ Len(r.tools) = 2 => r.tools[2].version = r.tools[1].version + 1
  /\ r.marked => Len(r.tools) = 2
  /\ r.status = "success" => r.marked

\* Where the request is, and what it knows there.
ApplyPhases == {"received", "ready", "executing", "marked", "applied", "refused"}
Applies == [pc : ApplyPhases, next : 1..3, version : Nat]
ApplyFits(h, f, o, a, r) ==
  \/ a = NoRequest /\ r = NoRun
  \/ /\ a \in Applies
     /\ a.pc = "received" => r = NoRun /\ a.next = 1
     /\ a.pc \in {"ready", "executing", "marked"} => Len(r.tools) = a.next - 1
     /\ a.pc \in {"ready", "executing"} /\ a.next = 2 => a.version = r.tools[1].version
     /\ a.pc \in {"marked", "applied"} => r.marked
     /\ a.pc = "executing" =>
          /\ a.next \in 1..2
          /\ \/ /\ o \in Settings
                /\ o.cell = TempCell(Zones[a.next]) /\ o.value = Float(ThemeTemp)
                /\ o.expected = a.version
             \/ /\ o.st = "done"
                /\ o.code = "ok" => /\ o.version = a.version + 1
                                    /\ Made(h, f, o.version, TempCell(Zones[a.next]))

\* What a chain of the page holds in its hands was a state of the vehicle; one that
\* refreshes has had its theme applied before.
Themed(h, f, n) == Made(h, f, n, TempCell(Zones[1])) /\ Made(h, f, n + 1, TempCell(Zones[2]))
Refreshes(h, f, t) ==
  /\ t.pc \in {"get", "got"}
  /\ \E n \in Nat : Themed(h, f, n) /\ (t.pc = "got" => n + 1 <= t.got.version)
Kinds == {"load", "control", "theme", "refresh"}
PressFits(p) == p.cell \in TempCells /\ p.value \in Temps
TaskFits(h, f, a, t) ==
  \/ t = NoTask /\ a = NoRequest
  \/ /\ t.kind \in Kinds /\ t.pc \in {"get", "got", "posted"}
     /\ t.pc = "posted" => t.kind \in {"control", "theme"}
     /\ t.pc = "got" => HadState(h, t.got)
     /\ t.kind = "control" /\ t.pc \in {"get", "got"} => PressFits(t.press)
     /\ t.kind = "refresh" => Refreshes(h, f, t)
     /\ a # NoRequest => t.kind = "theme" /\ t.pc = "posted"

PageFits ==
  /\ status \in {"away", "loading", "ready", "error"}
  /\ busy \in BOOLEAN /\ alive \subseteq Tasks

TaskOf(f) == IF f \in Tasks THEN task[f] ELSE NoTask
Fits(h, f, o, a, r, t) ==
  OpFits(h, o) /\ RunFits(h, f, r) /\ ApplyFits(h, f, o, a, r) /\ TaskFits(h, f, a, t)

ClientInv ==
  /\ TwinInv
  /\ op = [f \in Sessions |-> op[f]] /\ apply = [f \in Sessions |-> apply[f]]
  /\ run = [f \in Sessions |-> run[f]] /\ task = [f \in Tasks |-> task[f]]
  /\ \A f \in Sessions : Fits(history[Vehicle], f, op[f], apply[f], run[f], TaskOf(f))
  /\ Pictures(history[Vehicle], shown)
  /\ PageFits

--------------------------------------------------------------------------------
\* What was so of a history stays so.
LEMMA HadKept ==
  ASSUME NEW h \in Seq(Changes), NEW g \in Seq(Changes), Continues(h, g),
         NEW state, HadState(h, state)
  PROVE  HadState(g, state)
<1>1. Len(h) \in Nat /\ Len(g) \in Nat
  OBVIOUS
<1>2. \A i \in 1..state.version : g[i] = h[i]
  BY <1>1 DEF Continues, HadState
<1> QED BY <1>1, <1>2 DEF Continues, HadState, HeldAfter

LEMMA PictureKept ==
  ASSUME NEW h \in Seq(Changes), NEW g \in Seq(Changes), Continues(h, g),
         NEW picture, Pictures(h, picture)
  PROVE  Pictures(g, picture)
<1>1. Len(h) \in Nat /\ Len(g) \in Nat
  OBVIOUS
<1>2. \A i \in 1..picture.version : g[i] = h[i]
  BY <1>1 DEF Continues, Pictures
<1>3. ASSUME NEW zone \in SeatZones
      PROVE  HeldAfter(g, TempCell(zone), picture.version, picture.temps[zone])
  <2> DEFINE c == TempCell(zone)
             x == picture.temps[zone]
             n == picture.version
  <2>1. HeldAfter(h, c, n, x) /\ n \in 0..Len(h)
    BY DEF Pictures
  <2> HIDE DEF c, x, n
  <2>2. HeldAfter(g, c, n, x)
    BY <1>1, <1>2, <2>1 DEF HeldAfter, n
  <2> QED BY <2>2 DEF c, x, n
<1>4. picture.version \in 0..Len(g)
  BY <1>1 DEF Continues, Pictures
<1> QED BY <1>3, <1>4 DEF Pictures

LEMMA MadeKept ==
  ASSUME NEW h \in Seq(Changes), NEW g \in Seq(Changes), Continues(h, g),
         NEW f, NEW n, NEW cell, Made(h, f, n, cell)
  PROVE  Made(g, f, n, cell)
<1>1. Len(h) \in Nat /\ Len(g) \in Nat
  OBVIOUS
<1> QED BY <1>1 DEF Continues, Made

LEMMA FitsKept ==
  ASSUME NEW h \in Seq(Changes), NEW g \in Seq(Changes), Continues(h, g),
         NEW f, NEW o, NEW a, NEW r, NEW t, Fits(h, f, o, a, r, t)
  PROVE  Fits(g, f, o, a, r, t)
<1>1. OpFits(g, o)
  BY HadKept DEF Fits, OpFits
<1>2. RunFits(g, f, r)
  BY MadeKept DEF Fits, RunFits
<1>3. ApplyFits(g, f, o, a, r)
  <2>1. CASE a = NoRequest /\ r = NoRun
    BY <2>1 DEF ApplyFits
  <2>2. CASE ~(a = NoRequest /\ r = NoRun)
    BY <2>2, MadeKept DEF Fits, ApplyFits
  <2> QED BY <2>1, <2>2
<1>4. TaskFits(g, f, a, t)
  <2>1. CASE t = NoTask /\ a = NoRequest
    BY <2>1 DEF TaskFits
  <2>2. CASE ~(t = NoTask /\ a = NoRequest)
    <3>1. t.kind = "refresh" => Refreshes(g, f, t)
      BY <2>2, MadeKept DEF Fits, TaskFits, Refreshes, Themed
    <3> QED BY <2>2, <3>1, HadKept DEF Fits, TaskFits
  <2> QED BY <2>1, <2>2
<1> QED BY <1>1, <1>2, <1>3, <1>4 DEF Fits

\* A state the vehicle had holds, in a temperature's cell, a temperature.
LEMMA DemoTwentyTwo ==
  /\ TempCells \subseteq Cells /\ DOMAIN Twin!DemoCells = Cells
  /\ \A c \in TempCells : Twin!DemoCells[c] = Float(22)
<1>1. TempCells \subseteq Cells /\ Twin!Cells = Cells
  BY DEF TempCells, Cells, Twin!Cells, ReadOnlyProperties, Twin!ReadOnlyProperties,
     GlobalProperties, Twin!GlobalProperties, ZonedProperties, Twin!ZonedProperties,
     SeatZones, Twin!SeatZones
<1>2. \A c \in TempCells : Twin!DemoCells[c] = Twin!Float(22)
  BY <1>1 DEF Twin!DemoCells, TempCells, Twin!TempProperties
<1>3. DOMAIN Twin!DemoCells = Cells
  BY <1>1 DEF Twin!DemoCells
<1> QED BY <1>1, <1>2, <1>3 DEF Float, Twin!Float

LEMMA DemoTemps ==
  /\ TempCells \subseteq Cells /\ DOMAIN Twin!DemoCells = Cells
  /\ \A c \in TempCells : Twin!DemoCells[c] \in Temps
BY DemoTwentyTwo DEF Temps, Float

\* A page shows a true picture of every state the vehicle had.
LEMMA PictureOf ==
  ASSUME NEW h \in Seq(Changes), NEW state, HadState(h, state)
  PROVE  Pictures(h, FromBackend(state))
<1>1. \A zone \in SeatZones : TempCell(zone) \in Cells
  BY DemoTemps DEF SeatZones, TempCell, TempCells
<1> DEFINE p == FromBackend(state)
<1>2. /\ p.version = state.version /\ p.ac = Climate(p.temps)
      /\ \A zone \in SeatZones : p.temps[zone] = state.cells[TempCell(zone)]
  BY DEF FromBackend
<1> HIDE DEF p
<1>3. Pictures(h, p)
  BY <1>1, <1>2 DEF Pictures, HadState
<1> QED BY <1>3 DEF p

LEMMA HadTemps ==
  ASSUME NEW h \in Seq(Changes), NEW state, HadState(h, state), NEW c \in TempCells
  PROVE  state.cells[c] \in Temps
<1>1. c \in Cells /\ Twin!DemoCells[c] \in Temps
  BY DemoTemps
<1>2. state.version \in 0..Len(h) /\ HeldAfter(h, c, state.version, state.cells[c])
  BY <1>1 DEF HadState
<1>3. \A i \in 1..state.version : h[i] \in Changes
  BY <1>2
<1> QED BY <1>1, <1>2, <1>3 DEF HeldAfter, Changes

--------------------------------------------------------------------------------
\* One entry of a function becomes x, or stays what it is.
Puts(old, new, S, f, x) == new = [g \in S |-> IF g = f THEN x ELSE old[g]]

LEMMA ExceptPuts ==
  ASSUME NEW S, NEW old, old = [g \in S |-> old[g]], NEW f \in S
  PROVE  /\ \A x : Puts(old, [old EXCEPT ![f] = x], S, f, x)
         /\ Puts(old, old, S, f, old[f])
BY DEF Puts

\* A step of the one session f, during which the history may go on.
LEMMA Moves ==
  ASSUME ClientInv, TwinInv', Continues(history[Vehicle], history'[Vehicle]),
         NEW f \in Sessions, NEW o, NEW a, NEW r, NEW t,
         Puts(op, op', Sessions, f, o), Puts(apply, apply', Sessions, f, a),
         Puts(run, run', Sessions, f, r),
         \/ f \in Tasks /\ Puts(task, task', Tasks, f, t)
         \/ f \notin Tasks /\ task' = task /\ t = NoTask,
         Fits(history'[Vehicle], f, o, a, r, t),
         Pictures(history'[Vehicle], shown') \/ shown' = shown,
         PageFits'
  PROVE  ClientInv'
<1>1. history[Vehicle] \in Seq(Changes) /\ history'[Vehicle] \in Seq(Changes)
  BY DEF ClientInv, TwinInv
<1>2. ASSUME NEW g \in Sessions
      PROVE  Fits(history'[Vehicle], g, op'[g], apply'[g], run'[g], TaskOf(g)')
  <2>1. CASE g = f
    <3>1. op'[g] = o /\ apply'[g] = a /\ run'[g] = r /\ TaskOf(g)' = t
      BY <2>1 DEF Puts, TaskOf
    <3> QED BY <2>1, <3>1
  <2>2. CASE g # f
    <3>1. /\ op'[g] = op[g] /\ apply'[g] = apply[g] /\ run'[g] = run[g]
          /\ TaskOf(g)' = TaskOf(g)
      BY <2>2 DEF Puts, TaskOf
    <3>2. Fits(history[Vehicle], g, op[g], apply[g], run[g], TaskOf(g))
      BY DEF ClientInv
    <3> QED BY <1>1, <3>1, <3>2, FitsKept
  <2> QED BY <2>1, <2>2
<1>3. Pictures(history'[Vehicle], shown')
  BY <1>1, PictureKept DEF ClientInv
<1>4. op' = [g \in Sessions |-> op'[g]] /\ apply' = [g \in Sessions |-> apply'[g]]
      /\ run' = [g \in Sessions |-> run'[g]] /\ task' = [g \in Tasks |-> task'[g]]
  BY DEF Puts, ClientInv
<1> QED BY <1>2, <1>3, <1>4 DEF ClientInv

\* The twin is left alone.
LEMMA StillTwin ==
  ASSUME ClientInv, UNCHANGED <<life, cells, version, history>>
  PROVE  /\ TwinInv' /\ Continues(history[Vehicle], history'[Vehicle])
         /\ history'[Vehicle] = history[Vehicle]
<1>1. TwinInv'
  BY DEF ClientInv, TwinInv, Seen
<1> QED BY <1>1 DEF Continues, ClientInv, TwinInv

\* Change e makes this of a state of the cells.
Sets(view, e, next) ==
  DOMAIN next = Cells /\ \A d \in Cells : next[d] = IF d = e.cell THEN e.new ELSE view[d]

\* What one more change makes of the history and of the state.
LEMMA OneMore ==
  ASSUME NEW h \in Seq(Changes), NEW e \in Changes, e.version = Len(h) + 1,
         Numbered(h),
         NEW view, DOMAIN view = Cells, HadState(h, State(Len(h), view)),
         NEW g, g = Append(h, e), NEW next, Sets(view, e, next)
  PROVE  /\ g \in Seq(Changes) /\ Len(g) = Len(h) + 1 /\ g[Len(g)] = e
         /\ Continues(h, g)
         /\ Numbered(g)
         /\ HadState(g, State(Len(g), next))
<1>1. /\ g \in Seq(Changes) /\ Len(g) = Len(h) + 1 /\ g[Len(g)] = e /\ Len(h) \in Nat
      /\ \A i \in 1..Len(h) : g[i] = h[i]
  BY AppendProperties
<1>2. Continues(h, g)
  BY <1>1 DEF Continues
<1>3. Numbered(g)
  BY <1>1 DEF Numbered
<1>4. ASSUME NEW d \in Cells
      PROVE  HeldAfter(g, d, Len(g), next[d])
  <2>1. CASE d = e.cell
    <3>1. next[d] = e.new
      BY <2>1 DEF Sets
    <3> QED BY <1>1, <2>1, <3>1 DEF HeldAfter
  <2>2. CASE d # e.cell
    <3>1. next[d] = view[d]
      BY <2>2 DEF Sets
    <3>2. HeldAfter(h, d, Len(h), view[d])
      BY DEF HadState, State
    <3>3. \A i \in 1..Len(g) : i \in 1..Len(h) \/ g[i].cell # d
      BY <1>1, <2>2
    <3> QED BY <1>1, <3>1, <3>2, <3>3 DEF HeldAfter
  <2> QED BY <2>1, <2>2
<1>5. HadState(g, State(Len(g), next))
  BY <1>1, <1>4 DEF HadState, State
<1> QED BY <1>1, <1>2, <1>3, <1>5

\* The answer o tells of the call c that f's change is made, and the state after it.
TellsOf(g, f, c, o) ==
  /\ o.st = "done"
  /\ o.code = "ok" =>
       /\ o.version = c.expected + 1 /\ o.version \in 1..Len(g)
       /\ HadState(g, State(o.version, o.view))
       /\ g[o.version].by = f /\ g[o.version].cell = c.cell
       /\ g[o.version].new = c.value /\ g[o.version].version = o.version

\* One change is made to the vehicle by f: of cell c, to x.
Change(f, c, x) ==
  [by |-> f, cell |-> c, old |-> cells[Vehicle][c], new |-> x, version |-> version[Vehicle] + 1]
Changed(f, c, x) ==
  /\ version[Vehicle] < MaxVersion
  /\ life' = life /\ cells' = [cells EXCEPT ![Vehicle] = [cells[Vehicle] EXCEPT ![c] = x]]
  /\ version' = [version EXCEPT ![Vehicle] = version[Vehicle] + 1]
  /\ history' = [history EXCEPT ![Vehicle] = Append(history[Vehicle], Change(f, c, x))]

LEMMA ChangeFacts ==
  ASSUME ClientInv, NEW f \in Sessions, NEW c \in TempCells, NEW x \in Temps, Changed(f, c, x)
  PROVE  /\ TwinInv' /\ Continues(history[Vehicle], history'[Vehicle])
         /\ version'[Vehicle] = version[Vehicle] + 1
         /\ version'[Vehicle] \in 1..Len(history'[Vehicle])
         /\ history'[Vehicle][version'[Vehicle]] = Change(f, c, x)
         /\ HadState(history'[Vehicle],
                     State(version'[Vehicle], [cells[Vehicle] EXCEPT ![c] = x]))
<1> DEFINE h == history[Vehicle]
           n == version[Vehicle] + 1
           next == [cells[Vehicle] EXCEPT ![c] = x]
           e == Change(f, c, x)
<1>3. /\ life' = life /\ cells' = [cells EXCEPT ![Vehicle] = next]
      /\ version' = [version EXCEPT ![Vehicle] = n]
      /\ history' = [history EXCEPT ![Vehicle] = Append(h, e)]
      /\ version[Vehicle] < MaxVersion
  BY DEF Changed
<1>4. /\ h \in Seq(Changes) /\ Len(h) = version[Vehicle] /\ version[Vehicle] \in 0..MaxVersion
      /\ DOMAIN cells[Vehicle] = Cells
      /\ Numbered(h)
      /\ HadState(h, Seen)
  BY DEF ClientInv, TwinInv
<1>5. cells[Vehicle][c] \in Temps
  BY <1>4, HadTemps DEF Seen
<1>6. e \in Changes
  BY <1>4, <1>5, ThemeApplyAssumption DEF Changes, Change
<1>7. /\ cells'[Vehicle] = next /\ version'[Vehicle] = n /\ history'[Vehicle] = Append(h, e)
      /\ cells' = [v \in {Vehicle} |-> cells'[v]] /\ version' = [v \in {Vehicle} |-> version'[v]]
      /\ history' = [v \in {Vehicle} |-> history'[v]]
  BY <1>3 DEF ClientInv, TwinInv
<1>8. /\ e.version = Len(h) + 1 /\ HadState(h, State(Len(h), cells[Vehicle]))
      /\ Sets(cells[Vehicle], e, next)
  BY <1>4 DEF Seen, State, Sets, Change
<1> HIDE DEF e, next
<1> DEFINE g == history'[Vehicle]
<1>9. /\ g \in Seq(Changes) /\ Len(g) = Len(h) + 1 /\ g[Len(g)] = e
      /\ Continues(h, g)
      /\ Numbered(g)
      /\ HadState(g, State(Len(g), next))
  <2> DEFINE view == cells[Vehicle]
  <2>1. /\ h \in Seq(Changes) /\ e \in Changes /\ e.version = Len(h) + 1
        /\ Numbered(h)
        /\ DOMAIN view = Cells /\ HadState(h, State(Len(h), view))
        /\ g = Append(h, e) /\ Sets(view, e, next)
    BY <1>4, <1>6, <1>7, <1>8
  <2> HIDE DEF h, g, view
  <2> QED BY <2>1, OneMore
<1>10. n = Len(g) /\ n \in 1..Len(g)
  BY <1>4, <1>9
<1>11. TwinInv'
  <2>1. DOMAIN cells'[Vehicle] = Cells /\ HadState(g, Seen')
    BY <1>7, <1>8, <1>9, <1>10 DEF Seen, State, Sets
  <2>2. version'[Vehicle] \in 0..MaxVersion /\ version'[Vehicle] = Len(g)
    BY <1>3, <1>4, <1>7, <1>10, ThemeApplyAssumption
  <2> QED BY <1>3, <1>7, <1>9, <2>1, <2>2 DEF ClientInv, TwinInv
<1>12. /\ version'[Vehicle] = n /\ g[version'[Vehicle]] = e
       /\ HadState(g, State(version'[Vehicle], next))
  BY <1>7, <1>9, <1>10
<1> QED BY <1>9, <1>10, <1>11, <1>12 DEF e, next

\* A set adds one change, and tells the caller that one and the state after it.
LEMMA SetFacts ==
  ASSUME ClientInv, NEW f \in Sessions, Twin!Set(f)
  PROVE  /\ TwinInv' /\ Continues(history[Vehicle], history'[Vehicle])
         /\ op[f] \in Settings
         /\ \E o : op' = [op EXCEPT ![f] = o] /\ TellsOf(history'[Vehicle], f, op[f], o)
<1> DEFINE c == op[f].cell
           x == op[f].value
           n == version[Vehicle] + 1
           next == [cells[Vehicle] EXCEPT ![c] = x]
           g == history'[Vehicle]
<1>1. op[f] \in Settings
  <2>1. OpFits(history[Vehicle], op[f]) /\ op[f].st = "setting"
    BY DEF ClientInv, Fits, Twin!Set
  <2> QED BY <2>1 DEF OpFits, Twin!Idle
<1>2. /\ op[f].veh = Vehicle /\ c \in TempCells /\ x \in Temps
      /\ op[f].expected = version[Vehicle]
  BY <1>1 DEF Settings, Twin!Set
<1>3. Changed(f, c, x)
  BY <1>2 DEF Twin!Set, Changed, Change
<1>4. /\ TwinInv' /\ Continues(history[Vehicle], g)
      /\ version'[Vehicle] = n /\ n \in 1..Len(g) /\ g[n] = Change(f, c, x)
      /\ HadState(g, State(n, next))
  BY <1>2, <1>3, ChangeFacts
<1>5. /\ Change(f, c, x).by = f /\ Change(f, c, x).cell = c
      /\ Change(f, c, x).new = x /\ Change(f, c, x).version = n
  BY DEF Change
<1>6. PICK o \in {Twin!Answer("ok", n, next), Twin!Answer("storage", 0, Twin!NoView)} :
         op' = [op EXCEPT ![f] = o]
  BY <1>2 DEF Twin!Set, Twin!Tell
<1>7. o.st = "done" /\ (o.code = "ok" => o.version = n /\ o.view = next)
  BY <1>6 DEF Twin!Answer
<1> HIDE DEF next, g
<1>8. TellsOf(g, f, op[f], o)
  BY <1>2, <1>4, <1>5, <1>7 DEF TellsOf
<1> QED BY <1>1, <1>4, <1>6, <1>8 DEF g

--------------------------------------------------------------------------------
\* What a chain's invariant says of it.
LEMMA Here ==
  ASSUME ClientInv, NEW f \in Tasks
  PROVE  /\ f \in Sessions /\ history[Vehicle] \in Seq(Changes)
         /\ OpFits(history[Vehicle], op[f]) /\ RunFits(history[Vehicle], f, run[f])
         /\ ApplyFits(history[Vehicle], f, op[f], apply[f], run[f])
         /\ TaskFits(history[Vehicle], f, apply[f], task[f])
         /\ Puts(op, op, Sessions, f, op[f]) /\ Puts(apply, apply, Sessions, f, apply[f])
         /\ Puts(run, run, Sessions, f, run[f]) /\ Puts(task, task, Tasks, f, task[f])
         /\ \A x : Puts(op, [op EXCEPT ![f] = x], Sessions, f, x)
         /\ \A x : Puts(apply, [apply EXCEPT ![f] = x], Sessions, f, x)
         /\ \A x : Puts(run, [run EXCEPT ![f] = x], Sessions, f, x)
         /\ \A x : Puts(task, [task EXCEPT ![f] = x], Tasks, f, x)
<1>1. f \in Sessions
  BY ClientAssumption
<1>2. Fits(history[Vehicle], f, op[f], apply[f], run[f], task[f])
  BY <1>1 DEF ClientInv, TaskOf
<1>3. history[Vehicle] \in Seq(Changes)
  BY DEF ClientInv, TwinInv
<1>4. /\ op = [g \in Sessions |-> op[g]] /\ apply = [g \in Sessions |-> apply[g]]
      /\ run = [g \in Sessions |-> run[g]] /\ task = [g \in Tasks |-> task[g]]
  BY DEF ClientInv
<1> QED BY <1>1, <1>2, <1>3, <1>4, ExceptPuts DEF Fits

\* The chain goes on in the page alone.
LEMMA PageMoves ==
  ASSUME ClientInv, NEW f \in Tasks, UNCHANGED <<twinVars, applyVars>>,
         NEW t, task' = [task EXCEPT ![f] = t], TaskFits(history[Vehicle], f, apply[f], t),
         Pictures(history[Vehicle], shown') \/ shown' = shown,
         PageFits'
  PROVE  ClientInv'
<1>1. TwinInv' /\ Continues(history[Vehicle], history'[Vehicle])
      /\ history'[Vehicle] = history[Vehicle]
  BY StillTwin DEF twinVars
<1>2. /\ Puts(op, op', Sessions, f, op[f]) /\ Puts(apply, apply', Sessions, f, apply[f])
      /\ Puts(run, run', Sessions, f, run[f]) /\ Puts(task, task', Tasks, f, t)
  BY Here DEF twinVars, applyVars
<1>3. Fits(history'[Vehicle], f, op[f], apply[f], run[f], t)
  BY <1>1, Here DEF Fits
<1>4. f \in Sessions
  BY Here
<1> QED BY <1>1, <1>2, <1>3, <1>4, Moves

LEMMA ServeKeeps ==
  ASSUME ClientInv, NEW f \in Tasks, ServeState(f)
  PROVE  ClientInv'
<1> DEFINE t == [kind |-> task[f].kind, pc |-> "got", got |-> Seen, press |-> task[f].press]
<1>1. TaskFits(history[Vehicle], f, apply[f], task[f]) /\ task[f].pc = "get"
  BY Here DEF ServeState
<1>2. HadState(history[Vehicle], Seen)
  BY DEF ClientInv, TwinInv
<1>3. t.kind = task[f].kind /\ t.pc = "got" /\ t.got = Seen /\ t.press = task[f].press
  OBVIOUS
<1>4. task' = [task EXCEPT ![f] = t]
  BY DEF ServeState, Served, Becomes
<1> HIDE DEF t
<1>6. t.kind = "refresh" => Refreshes(history[Vehicle], f, t)
  <2>1. Seen.version = Len(history[Vehicle]) /\ Len(history[Vehicle]) \in Nat
    BY DEF ClientInv, TwinInv, Seen
  <2>2. task[f].kind = "refresh" => Refreshes(history[Vehicle], f, task[f])
    BY <1>1 DEF TaskFits, NoTask
  <2> QED BY <1>3, <2>1, <2>2 DEF Refreshes, Themed, Made
<1>5. TaskFits(history[Vehicle], f, apply[f], t)
  BY <1>1, <1>2, <1>3, <1>6 DEF TaskFits, NoTask
<1> QED BY <1>4, <1>5, PageMoves DEF ServeState, ClientInv, PageFits

\* A chain that begins asks for the state, one that ends holds nothing.
LEMMA GetsFits ==
  ASSUME NEW h, NEW f, NEW kind \in Kinds \ {"refresh"}, NEW press,
         kind = "control" => PressFits(press)
  PROVE  TaskFits(h, f, NoRequest, [kind |-> kind, pc |-> "get", press |-> press])
BY DEF TaskFits

LEMMA IdleFits == \A h, f : TaskFits(h, f, NoRequest, NoTask)
BY DEF TaskFits

\* What a press asks for is in the range of the temperatures.
LEMMA PressedFits ==
  ASSUME ClientInv, NEW button \in Presses
  PROVE  PressFits(Pressed(button[1], button[2]))
<1> DEFINE c == TempCell(button[1])
<1>1. button[2] \in {-1, 1} /\ c \in TempCells
  BY ClientAssumption DEF TempCell, TempCells, SeatZones
<1>2. shown.temps[button[1]] \in Temps
  <2> DEFINE h == history[Vehicle]
             n == shown.version
             x == shown.temps[button[1]]
  <2>1. h \in Seq(Changes) /\ n \in 0..Len(h) /\ HeldAfter(h, c, n, x)
    BY <1>1, ClientAssumption DEF ClientInv, TwinInv, Pictures
  <2>2. Twin!DemoCells[c] \in Temps /\ \A i \in 1..n : h[i] \in Changes
    BY <1>1, <2>1, DemoTemps
  <2> QED BY <2>1, <2>2 DEF HeldAfter, Changes
<1>3. shown.temps[button[1]][2] + button[2] \in Int
  BY <1>1, <1>2 DEF Temps
<1>4. Clamp(shown.temps[button[1]][2] + button[2]) \in 16..30
  BY <1>3 DEF Clamp
<1> QED BY <1>1, <1>4 DEF PressFits, Pressed, Float, Temps

LEMMA UserKeeps ==
  ASSUME ClientInv, NEW f \in Tasks, User(f)
  PROVE  ClientInv'
<1>1. task[f] = NoTask
  BY DEF User, Open, Press, ConfirmTheme
<1>2. apply[f] = NoRequest
  BY <1>1, Here DEF TaskFits, NoTask, Kinds
<1>3. shown' = shown
  BY DEF User, Open, Press, ConfirmTheme, ShownOnPress
<1>4. PageFits'
      /\ UNCHANGED <<twinVars, applyVars>>
  BY DEF User, Open, Press, ConfirmTheme, ClientInv, PageFits
<1>5. PICK kind \in Kinds \ {"refresh"}, press \in {Nothing} \cup {Pressed(b[1], b[2]) : b \in Presses} :
        Gets(f, kind, press) /\ (kind = "control" => PressFits(press))
  BY PressedFits DEF User, Open, Press, ConfirmTheme, Kinds
<1> QED BY <1>2, <1>3, <1>4, <1>5, GetsFits, PageMoves DEF Gets, Becomes

LEMMA EndsKeeps ==
  ASSUME ClientInv, NEW f \in Tasks,
         Loaded(f) \/ ControlFailed(f) \/ Refreshed(f)
           \/ (task[f].pc = "get" /\ ThemeFailed(f) /\ UNCHANGED applyVars)
  PROVE  ClientInv'
<1>0. TaskFits(history[Vehicle], f, apply[f], task[f])
  BY Here
<1>1. /\ task[f].pc \in {"get", "got"}
      /\ UNCHANGED <<twinVars, applyVars>> /\ task' = [task EXCEPT ![f] = NoTask]
  <2>1. CASE Loaded(f)
    <3>1. task[f].kind = "load"
      BY <2>1 DEF Loaded, Doing
    <3> QED BY <1>0, <2>1, <3>1 DEF Loaded, Ends, Becomes, TaskFits, NoTask, applyVars, twinVars
  <2>2. CASE ControlFailed(f) \/ Refreshed(f)
    BY <2>2 DEF ControlFailed, Refreshed, Doing, Ends, Becomes
  <2>3. CASE task[f].pc = "get" /\ ThemeFailed(f) /\ UNCHANGED applyVars
    BY <2>3 DEF ThemeFailed, Ends, Becomes
  <2> QED BY <2>1, <2>2, <2>3
<1>2. apply[f] = NoRequest
  BY <1>0, <1>1 DEF TaskFits
<1>3. Pictures(history[Vehicle], shown') \/ shown' = shown
  <2>1. shown' = shown \/ (task[f].pc = "got" /\ shown' = FromBackend(task[f].got))
    BY DEF Loaded, ControlFailed, Refreshed, ThemeFailed, Doing
  <2>2. task[f].pc = "got" => HadState(history[Vehicle], task[f].got)
    BY <1>0 DEF TaskFits, NoTask
  <2>3. history[Vehicle] \in Seq(Changes)
    BY DEF ClientInv, TwinInv
  <2> QED BY <2>1, <2>2, <2>3, PictureOf
<1>4. PageFits'
  BY DEF Loaded, ControlFailed, Refreshed, ThemeFailed, FreesDialog, Ends, ClientInv, PageFits
<1> QED BY <1>1, <1>2, <1>3, <1>4, IdleFits, PageMoves

\* The chain goes on with the server: its call, its request or their answers.
LEMMA ServerMoves ==
  ASSUME ClientInv, NEW f \in Tasks, UNCHANGED <<life, cells, version, history>>,
         NEW o, NEW a, NEW r, NEW t,
         Puts(op, op', Sessions, f, o), Puts(apply, apply', Sessions, f, a),
         Puts(run, run', Sessions, f, r), Puts(task, task', Tasks, f, t),
         OpFits(history[Vehicle], o), RunFits(history[Vehicle], f, r),
         ApplyFits(history[Vehicle], f, o, a, r), TaskFits(history[Vehicle], f, a, t),
         Pictures(history[Vehicle], shown') \/ shown' = shown,
         PageFits'
  PROVE  ClientInv'
<1>1. TwinInv' /\ Continues(history[Vehicle], history'[Vehicle])
      /\ history'[Vehicle] = history[Vehicle]
  BY StillTwin
<1>2. Fits(history'[Vehicle], f, o, a, r, t)
  BY <1>1 DEF Fits
<1>3. f \in Sessions
  BY Here
<1> QED BY <1>1, <1>2, <1>3, Moves

LEMMA NoRunFits == \A h, f : RunFits(h, f, NoRun)
<1>1. NoRun \in Runs /\ Len(NoRun.tools) = 0
  BY DEF NoRun, Runs
<1> QED BY <1>1 DEF RunFits, NoRun

LEMMA ControlKeeps ==
  ASSUME ClientInv, NEW f \in Tasks, Control(f)
  PROVE  ClientInv'
<1> DEFINE t == [kind |-> "control", pc |-> "posted"]
           o == [st |-> "setting", veh |-> Vehicle, cell |-> task[f].press.cell,
                 value |-> task[f].press.value, expected |-> task[f].got.version]
<1>1. /\ task[f].kind = "control" /\ task[f].pc = "got"
      /\ op' = [op EXCEPT ![f] = o] /\ task' = [task EXCEPT ![f] = t]
      /\ UNCHANGED <<life, cells, version, history, apply, run, shown, status, busy, alive>>
  BY DEF Control, Doing, Calls, Becomes, applyVars
<1>2. /\ apply[f] = NoRequest /\ PressFits(task[f].press)
      /\ HadState(history[Vehicle], task[f].got)
  BY <1>1, Here DEF TaskFits, NoTask
<1>3. o \in Settings
  BY <1>2, Here DEF Settings, PressFits, HadState
<1>4. OpFits(history[Vehicle], o)
  BY <1>3 DEF OpFits
<1>5. ApplyFits(history[Vehicle], f, o, apply[f], run[f])
  BY <1>2, Here DEF ApplyFits, Applies, ApplyPhases, NoRequest
<1>6. TaskFits(history[Vehicle], f, apply[f], t)
  BY <1>2 DEF TaskFits, Kinds
<1> HIDE DEF o, t
<1> QED BY <1>1, <1>4, <1>5, <1>6, Here, ServerMoves DEF ClientInv, PageFits

LEMMA ControlledKeeps ==
  ASSUME ClientInv, NEW f \in Tasks, Controlled(f)
  PROVE  ClientInv'
<1>1. /\ task[f].kind = "control" /\ op[f].st = "done"
      /\ op' = [op EXCEPT ![f] = Twin!Idle] /\ task' = [task EXCEPT ![f] = NoTask]
      /\ UNCHANGED <<life, cells, version, history, apply, run>> /\ PageFits'
  BY DEF Controlled, Doing, HangsUp, Ends, Becomes, applyVars, ClientInv, PageFits
<1>2. apply[f] = NoRequest
  BY <1>1, Here DEF TaskFits
<1>3. Pictures(history[Vehicle], shown') \/ shown' = shown
  <2> DEFINE told == State(op[f].version, op[f].view)
  <2>1. shown' = shown \/ (op[f].code = "ok" /\ shown' = FromBackend(told))
    BY DEF Controlled, State
  <2>2. op[f].code = "ok" => HadState(history[Vehicle], told)
    BY <1>1, Here DEF OpFits, Twin!Idle, Settings
  <2>3. history[Vehicle] \in Seq(Changes)
    BY Here
  <2> HIDE DEF told
  <2> QED BY <2>1, <2>2, <2>3, PictureOf
<1>4. OpFits(history[Vehicle], Twin!Idle)
  BY DEF OpFits
<1>5. ApplyFits(history[Vehicle], f, Twin!Idle, apply[f], run[f])
  BY <1>2, Here DEF ApplyFits, Applies, ApplyPhases, NoRequest
<1> QED BY <1>1, <1>2, <1>3, <1>4, <1>5, IdleFits, Here, ServerMoves DEF ClientInv, PageFits

LEMMA PostKeeps ==
  ASSUME ClientInv, NEW f \in Tasks, PostApply(f)
  PROVE  ClientInv'
<1> DEFINE t == [kind |-> "theme", pc |-> "posted"]
           a == [pc |-> "received", next |-> 1, version |-> task[f].got.version]
<1>1. /\ task[f].kind = "theme" /\ task[f].pc = "got"
      /\ apply' = [apply EXCEPT ![f] = a] /\ task' = [task EXCEPT ![f] = t]
      /\ UNCHANGED <<life, cells, version, history, op, run, shown, status, busy, alive>>
  BY DEF PostApply, Doing, Becomes, twinVars
<1>2. apply[f] = NoRequest /\ HadState(history[Vehicle], task[f].got)
  BY <1>1, Here DEF TaskFits, NoTask
<1>3. a \in Applies
  BY <1>2, Here DEF HadState, Applies, ApplyPhases
<1>4. run[f] = NoRun
  BY <1>2, Here DEF ApplyFits, Applies, ApplyPhases, NoRequest
<1>5. ApplyFits(history[Vehicle], f, op[f], a, run[f])
  BY <1>3, <1>4 DEF ApplyFits
<1>6. TaskFits(history[Vehicle], f, a, t)
  BY DEF TaskFits, Kinds
<1> HIDE DEF a, t
<1> QED BY <1>1, <1>5, <1>6, Here, ServerMoves DEF ClientInv, PageFits

\* The request is answered; nothing of it is left at the server.
LEMMA AnsweredKeeps ==
  ASSUME ClientInv, NEW f \in Tasks,
         ThemeApplied(f) \/ (Applying(f, "refused") /\ ThemeFailed(f) /\ Answered(f))
  PROVE  ClientInv'
<1>1. PICK t \in {NoTask, [kind |-> "refresh", pc |-> "get", press |-> Nothing]} :
        task' = [task EXCEPT ![f] = t]
  BY DEF ThemeApplied, ThemeFailed, Gets, Ends, Becomes
<1>2. TaskFits(history[Vehicle], f, NoRequest, t)
  <2>1. CASE t = NoTask
    BY <2>1, IdleFits
  <2>2. CASE t # NoTask
    <3>1. ThemeApplied(f) /\ t = [kind |-> "refresh", pc |-> "get", press |-> Nothing]
      BY <1>1, <2>2, Here DEF ThemeFailed, Ends, Becomes, Puts
    <3>2. run[f].marked
      BY <3>1, Here DEF ThemeApplied, Applying, ApplyFits, NoRequest
    <3>3. /\ Len(run[f].tools) = 2 /\ run[f].tools[2].version = run[f].tools[1].version + 1
          /\ \A k \in 1..2 : Made(history[Vehicle], f, run[f].tools[k].version, TempCell(Zones[k]))
      BY <3>2, Here DEF RunFits
    <3>a. /\ Made(history[Vehicle], f, run[f].tools[1].version, TempCell(Zones[1]))
          /\ Made(history[Vehicle], f, run[f].tools[2].version, TempCell(Zones[2]))
      BY <3>3
    <3>b. run[f].tools[1].version \in Nat
      BY <3>a, Here DEF Made
    <3>4. Themed(history[Vehicle], f, run[f].tools[1].version) /\ run[f].tools[1].version \in Nat
      BY <3>3, <3>a, <3>b DEF Themed
    <3>5. Refreshes(history[Vehicle], f, t)
      BY <3>1, <3>4 DEF Refreshes
    <3> QED BY <3>1, <3>5 DEF TaskFits, Kinds
  <2> QED BY <2>1, <2>2
<1>3. /\ apply' = [apply EXCEPT ![f] = NoRequest] /\ run' = [run EXCEPT ![f] = NoRun]
      /\ UNCHANGED <<life, cells, version, history, op, shown>> /\ PageFits'
  BY DEF ThemeApplied, ThemeFailed, FreesDialog, Ends, Answered, twinVars, ClientInv, PageFits
<1>4. ApplyFits(history[Vehicle], f, op[f], NoRequest, NoRun)
  BY DEF ApplyFits
<1> QED BY <1>1, <1>2, <1>3, <1>4, NoRunFits, Here, ServerMoves

--------------------------------------------------------------------------------
\* A request at work: whose chain waits for it.
LEMMA ApplyHere ==
  ASSUME ClientInv, NEW f \in Tasks, apply[f].pc # "none"
  PROVE  /\ apply[f] \in Applies /\ apply[f] # NoRequest
         /\ \A h, a : TaskFits(h, f, a, task[f])
<1>1. ApplyFits(history[Vehicle], f, op[f], apply[f], run[f])
      /\ TaskFits(history[Vehicle], f, apply[f], task[f])
  BY Here
<1>2. apply[f] \in Applies /\ apply[f] # NoRequest
  BY <1>1 DEF ApplyFits, NoRequest
<1> QED BY <1>1, <1>2 DEF TaskFits

LEMMA CreateKeeps ==
  ASSUME ClientInv, NEW f \in Tasks, CreateRun(f), UNCHANGED pageVars
  PROVE  ClientInv'
<1> DEFINE a == [apply[f] EXCEPT !.pc = "ready"]
           r == [NoRun EXCEPT !.status = "running"]
<1>1. /\ apply[f].pc = "received"
      /\ apply' = [apply EXCEPT ![f] = a] /\ run' = [run EXCEPT ![f] = r]
      /\ UNCHANGED <<life, cells, version, history, op, shown, status, busy, alive, task>>
  BY DEF CreateRun, Applying, twinVars, pageVars
<1>2. apply[f] \in Applies /\ apply[f].next = 1
  BY <1>1, ApplyHere, Here DEF ApplyFits
<1>3. r \in Runs /\ Len(r.tools) = 0 /\ r.marked = FALSE /\ r.status = "running"
  <2>1. NoRun \in Runs
    BY NoRunFits DEF RunFits
  <2> QED BY <2>1 DEF NoRun, Runs
<1>4. a \in Applies /\ a.pc = "ready" /\ a.next = 1
  BY <1>2 DEF Applies, ApplyPhases
<1> HIDE DEF a, r
<1>5. RunFits(history[Vehicle], f, r)
  BY <1>3 DEF RunFits
<1>6. ApplyFits(history[Vehicle], f, op[f], a, r)
  BY <1>3, <1>4 DEF ApplyFits
<1> QED BY <1>1, <1>5, <1>6, ApplyHere, Here, ServerMoves DEF ClientInv, PageFits

LEMMA ExecuteKeeps ==
  ASSUME ClientInv, NEW f \in Tasks, ExecuteTool(f), UNCHANGED pageVars
  PROVE  ClientInv'
<1> DEFINE a == [apply[f] EXCEPT !.pc = "executing"]
           o == [st |-> "setting", veh |-> Vehicle, cell |-> TempCell(Zone(f)),
                 value |-> Float(ThemeTemp), expected |-> apply[f].version]
<1>1. /\ apply[f].pc = "ready" /\ apply[f].next \in DOMAIN Zones
      /\ apply' = [apply EXCEPT ![f] = a] /\ op' = [op EXCEPT ![f] = o]
      /\ UNCHANGED <<life, cells, version, history, run, shown, status, busy, alive, task>>
  BY DEF ExecuteTool, Applying, Calls, ExpectedVersion, pageVars
<1>2. apply[f] \in Applies /\ apply[f].next \in 1..2
  BY <1>1, ApplyHere DEF Zones
<1>3. /\ a \in Applies /\ a.pc = "executing" /\ a.next = apply[f].next
      /\ a.version = apply[f].version
  BY <1>2 DEF Applies, ApplyPhases
<1>4. /\ o \in Settings /\ o.cell = TempCell(Zones[a.next]) /\ o.value = Float(ThemeTemp)
      /\ o.expected = a.version
  BY <1>2, <1>3, ThemeApplyAssumption
  DEF Settings, Zone, Zones, TempCell, TempCells, Temps, Float, Applies
<1>5. /\ Len(run[f].tools) = apply[f].next - 1
      /\ apply[f].next = 2 => apply[f].version = run[f].tools[1].version
  BY <1>1, <1>2, Here DEF ApplyFits, NoRequest
<1> HIDE DEF a, o
<1>6. OpFits(history[Vehicle], o)
  BY <1>4 DEF OpFits
<1>7. ApplyFits(history[Vehicle], f, o, a, run[f])
  BY <1>2, <1>3, <1>4, <1>5 DEF ApplyFits
<1> QED BY <1>1, <1>6, <1>7, ApplyHere, Here, ServerMoves DEF ClientInv, PageFits

LEMMA RecordKeeps ==
  ASSUME ClientInv, NEW f \in Tasks, RecordTool(f), UNCHANGED pageVars
  PROVE  ClientInv'
<1> DEFINE h == history[Vehicle]
           tool == [zone |-> Zone(f), version |-> op[f].version]
           a == [pc |-> "ready", next |-> apply[f].next + 1, version |-> op[f].version]
           r == [run[f] EXCEPT !.tools = Append(@, tool)]
           k == apply[f].next
<1>1. /\ apply[f].pc = "executing" /\ op[f].st = "done" /\ op[f].code = "ok"
      /\ apply' = [apply EXCEPT ![f] = a] /\ op' = [op EXCEPT ![f] = Twin!Idle]
      /\ run' = [run EXCEPT ![f] = r]
      /\ UNCHANGED <<life, cells, version, history, shown, status, busy, alive, task>>
  BY DEF RecordTool, Applying, ToolReturned, Returned, HangsUp, pageVars
<1>2. /\ apply[f] \in Applies /\ k \in 1..2 /\ Len(run[f].tools) = k - 1
      /\ k = 2 => apply[f].version = run[f].tools[1].version
      /\ op[f].version = apply[f].version + 1 /\ Made(h, f, op[f].version, TempCell(Zones[k]))
  BY <1>1, Here, ApplyHere DEF ApplyFits, NoRequest, Settings
<1>3. run[f] \in Runs /\ op[f].version \in Nat /\ Zone(f) = Zones[k] /\ Zone(f) \in SeatZones
  <2>1. run[f] \in Runs
    BY Here DEF RunFits
  <2>2. op[f].version \in Nat
    BY <1>2, Here DEF Made
  <2>3. Zone(f) = Zones[k] /\ Zone(f) \in SeatZones
    BY <1>2 DEF Zone, Zones, SeatZones
  <2> QED BY <2>1, <2>2, <2>3
<1>4. tool \in [zone : SeatZones, version : Nat]
  BY <1>3
<1> DEFINE before == run[f].tools
<1>5. /\ r \in Runs /\ Len(r.tools) = k /\ r.tools[k] = tool
      /\ \A j \in 1..Len(before) : r.tools[j] = before[j]
      /\ r.marked = run[f].marked /\ r.status = run[f].status
  <2>1. before \in Seq([zone : SeatZones, version : Nat])
    BY <1>3 DEF Runs
  <2>2. /\ Append(before, tool) \in Seq([zone : SeatZones, version : Nat])
        /\ Len(Append(before, tool)) = Len(before) + 1
        /\ \A j \in 1..Len(before) : Append(before, tool)[j] = before[j]
        /\ Append(before, tool)[Len(before) + 1] = tool
    BY <1>4, <2>1, AppendProperties
  <2>3. r.tools = Append(before, tool) /\ r.marked = run[f].marked /\ r.status = run[f].status
    BY <1>3 DEF Runs
  <2>4. r \in Runs
    BY <1>3, <2>2, <2>3 DEF Runs
  <2>5. Len(before) + 1 = k
    BY <1>2
  <2> QED BY <2>2, <2>3, <2>4, <2>5
<1>6. /\ tool.zone = Zones[k] /\ tool.version = op[f].version /\ a.next = k + 1
      /\ a.pc = "ready" /\ a.version = op[f].version /\ a \in Applies
  BY <1>2, <1>3 DEF Applies, ApplyPhases
<1> HIDE DEF tool, a, r
<1>7. RunFits(h, f, r)
  <2>1. ~run[f].marked /\ run[f].status # "success"
    BY <1>2, Here DEF RunFits
  <2>2. ASSUME NEW j \in 1..k
        PROVE  r.tools[j].zone = Zones[j] /\ Made(h, f, r.tools[j].version, TempCell(Zones[j]))
    <3>1. CASE j = k
      BY <1>2, <1>5, <1>6, <3>1
    <3>2. CASE j # k
      <4>1. j \in 1..Len(before) /\ r.tools[j] = before[j]
        BY <1>2, <1>5, <3>2
      <4>2. before[j].zone = Zones[j] /\ Made(h, f, before[j].version, TempCell(Zones[j]))
        BY <4>1, Here DEF RunFits
      <4> QED BY <4>1, <4>2
    <3> QED BY <3>1, <3>2
  <2>3. k = 2 => r.tools[2].version = r.tools[1].version + 1
    BY <1>2, <1>5, <1>6
  <2> QED BY <1>2, <1>5, <2>1, <2>2, <2>3 DEF RunFits
<1>8. ApplyFits(h, f, Twin!Idle, a, r)
  <2>1. a.next = 2 => a.version = r.tools[1].version
    BY <1>2, <1>5, <1>6
  <2> QED BY <1>2, <1>5, <1>6, <2>1 DEF ApplyFits
<1>9. OpFits(h, Twin!Idle)
  BY DEF OpFits
<1> QED BY <1>1, <1>7, <1>8, <1>9, ApplyHere, Here, ServerMoves DEF ClientInv, PageFits

LEMMA MarkKeeps ==
  ASSUME ClientInv, NEW f \in Tasks, MarkApplied(f), UNCHANGED pageVars
  PROVE  ClientInv'
<1> DEFINE a == [apply[f] EXCEPT !.pc = "marked"]
           r == [run[f] EXCEPT !.marked = TRUE]
<1>1. /\ apply[f].pc = "ready" /\ apply[f].next \notin DOMAIN Zones
      /\ apply' = [apply EXCEPT ![f] = a] /\ run' = [run EXCEPT ![f] = r]
      /\ UNCHANGED <<life, cells, version, history, op, shown, status, busy, alive, task>>
  BY DEF MarkApplied, Applying, twinVars, pageVars
<1>2. apply[f] \in Applies /\ apply[f].next = 3
  <2>1. apply[f] \in Applies
    BY <1>1, ApplyHere
  <2>2. apply[f].next \in 1..3
    BY <2>1 DEF Applies
  <2>3. DOMAIN Zones = 1..2
    BY DEF Zones
  <2> QED BY <1>1, <2>1, <2>2, <2>3
<1>3. Len(run[f].tools) = 2
  <2>1. ApplyFits(history[Vehicle], f, op[f], apply[f], run[f]) /\ apply[f] # NoRequest
    BY <1>1, Here, ApplyHere
  <2>2. Len(run[f].tools) = apply[f].next - 1
    BY <1>1, <2>1 DEF ApplyFits
  <2> QED BY <1>2, <2>2
<1>4. run[f] \in Runs /\ RunFits(history[Vehicle], f, run[f])
  BY Here DEF RunFits
<1>5. r \in Runs /\ r.tools = run[f].tools /\ r.marked /\ r.status = run[f].status
  BY <1>4 DEF Runs
<1>6. a \in Applies /\ a.pc = "marked" /\ a.next = 3
  BY <1>2 DEF Applies, ApplyPhases
<1> HIDE DEF a, r
<1>7. RunFits(history[Vehicle], f, r)
  BY <1>3, <1>4, <1>5 DEF RunFits
<1>8. ApplyFits(history[Vehicle], f, op[f], a, r)
  BY <1>3, <1>5, <1>6 DEF ApplyFits
<1> QED BY <1>1, <1>7, <1>8, ApplyHere, Here, ServerMoves DEF ClientInv, PageFits

LEMMA CompleteKeeps ==
  ASSUME ClientInv, NEW f \in Tasks, CompleteApply(f), UNCHANGED pageVars
  PROVE  ClientInv'
<1> DEFINE a == [apply[f] EXCEPT !.pc = "applied"]
           r == [run[f] EXCEPT !.status = "success"]
<1>1. /\ apply[f].pc = "marked"
      /\ apply' = [apply EXCEPT ![f] = a] /\ run' = [run EXCEPT ![f] = r]
      /\ UNCHANGED <<life, cells, version, history, op, shown, status, busy, alive, task>>
  BY DEF CompleteApply, Applying, twinVars, pageVars
<1>2. apply[f] \in Applies /\ run[f].marked
  BY <1>1, ApplyHere, Here DEF ApplyFits, NoRequest
<1>3. run[f] \in Runs /\ RunFits(history[Vehicle], f, run[f])
  BY Here DEF RunFits
<1>4. r \in Runs /\ r.tools = run[f].tools /\ r.marked = run[f].marked
  BY <1>3 DEF Runs
<1>5. a \in Applies /\ a.pc = "applied"
  BY <1>2 DEF Applies, ApplyPhases
<1> HIDE DEF a, r
<1>6. RunFits(history[Vehicle], f, r)
  BY <1>2, <1>3, <1>4 DEF RunFits
<1>7. ApplyFits(history[Vehicle], f, op[f], a, r)
  BY <1>2, <1>4, <1>5 DEF ApplyFits
<1> QED BY <1>1, <1>6, <1>7, ApplyHere, Here, ServerMoves DEF ClientInv, PageFits

LEMMA FailKeeps ==
  ASSUME ClientInv, NEW f \in Tasks, ApplyFails(f), UNCHANGED pageVars
  PROVE  ClientInv'
<1> DEFINE a == [apply[f] EXCEPT !.pc = "refused"]
<1>1. PICK o \in {op[f], Twin!Idle} : Puts(op, op', Sessions, f, o)
  BY Here DEF ApplyFails, HangsUp
<1>2. /\ apply[f].pc # "none"
      /\ apply' = [apply EXCEPT ![f] = a]
      /\ UNCHANGED <<life, cells, version, history, run, shown, status, busy, alive, task>>
  BY DEF ApplyFails, Applying, pageVars
<1>3. a \in Applies /\ a.pc = "refused"
  BY <1>2, ApplyHere DEF Applies, ApplyPhases
<1> HIDE DEF a
<1>4. ApplyFits(history[Vehicle], f, o, a, run[f])
  BY <1>3 DEF ApplyFits
<1>5. OpFits(history[Vehicle], o)
  BY <1>1, Here DEF OpFits
<1> QED BY <1>1, <1>2, <1>4, <1>5, ApplyHere, Here, ServerMoves DEF ClientInv, PageFits

--------------------------------------------------------------------------------
\* The twin's answer to whoever calls it: the step of an answer without effect
\* leaves the history alone.
LEMMA SetMoves ==
  ASSUME ClientInv, NEW f \in Sessions, Twin!Set(f), UNCHANGED <<applyVars, pageVars>>
  PROVE  ClientInv'
<1> DEFINE h == history[Vehicle]
           g == history'[Vehicle]
<1>1. TwinInv' /\ Continues(h, g) /\ op[f] \in Settings
  BY SetFacts
<1>2. PICK o : op' = [op EXCEPT ![f] = o] /\ TellsOf(g, f, op[f], o)
  BY SetFacts
<1>3. /\ h \in Seq(Changes) /\ g \in Seq(Changes)
      /\ Fits(h, f, op[f], apply[f], run[f], TaskOf(f))
  BY <1>1 DEF ClientInv, TwinInv
<1>4. Fits(g, f, op[f], apply[f], run[f], TaskOf(f))
  BY <1>1, <1>3, FitsKept
<1>5. OpFits(g, o)
  BY <1>2 DEF OpFits, TellsOf
<1>6. ApplyFits(g, f, o, apply[f], run[f])
  <2>1. CASE apply[f].pc # "executing"
    BY <1>4, <2>1 DEF Fits, ApplyFits
  <2>2. CASE apply[f].pc = "executing"
    <3>1. /\ op[f].cell = TempCell(Zones[apply[f].next]) /\ op[f].value = Float(ThemeTemp)
          /\ op[f].expected = apply[f].version
      BY <1>1, <1>4, <2>2 DEF Fits, ApplyFits, Settings, NoRequest
    <3>2. o.code = "ok" => /\ o.version = apply[f].version + 1
                           /\ Made(g, f, o.version, TempCell(Zones[apply[f].next]))
      BY <1>2, <3>1 DEF Made, TellsOf
    <3>3. o.st = "done"
      BY <1>2 DEF TellsOf
    <3> QED BY <3>3, <1>4, <2>2, <3>2 DEF Fits, ApplyFits, NoRequest
  <2> QED BY <2>1, <2>2
<1>7. Fits(g, f, o, apply[f], run[f], TaskOf(f))
  BY <1>4, <1>5, <1>6 DEF Fits
<1>8. /\ Puts(op, op', Sessions, f, o) /\ Puts(apply, apply', Sessions, f, apply[f])
      /\ Puts(run, run', Sessions, f, run[f])
      /\ \/ f \in Tasks /\ Puts(task, task', Tasks, f, TaskOf(f))
         \/ f \notin Tasks /\ task' = task /\ TaskOf(f) = NoTask
  BY <1>2, ExceptPuts DEF ClientInv, applyVars, pageVars, TaskOf
<1> QED BY <1>1, <1>7, <1>8, Moves DEF ClientInv, pageVars, PageFits

LEMMA OpMoves ==
  ASSUME ClientInv, NEW f \in Sessions, UNCHANGED <<life, cells, version, history>>,
         UNCHANGED <<applyVars, pageVars>>,
         NEW o, op' = [op EXCEPT ![f] = o], OpFits(history[Vehicle], o),
         apply[f].pc = "executing" => o.st = "done" /\ o.code # "ok"
  PROVE  ClientInv'
<1>1. TwinInv' /\ Continues(history[Vehicle], history'[Vehicle])
      /\ history'[Vehicle] = history[Vehicle]
  BY StillTwin
<1>2. Fits(history[Vehicle], f, op[f], apply[f], run[f], TaskOf(f))
  BY DEF ClientInv
<1>3. ApplyFits(history[Vehicle], f, o, apply[f], run[f])
  BY <1>2 DEF Fits, ApplyFits
<1>4. Fits(history'[Vehicle], f, o, apply[f], run[f], TaskOf(f))
  BY <1>1, <1>2, <1>3 DEF Fits
<1>5. /\ Puts(op, op', Sessions, f, o) /\ Puts(apply, apply', Sessions, f, apply[f])
      /\ Puts(run, run', Sessions, f, run[f])
      /\ \/ f \in Tasks /\ Puts(task, task', Tasks, f, TaskOf(f))
         \/ f \notin Tasks /\ task' = task /\ TaskOf(f) = NoTask
  BY ExceptPuts DEF ClientInv, applyVars, pageVars, TaskOf
<1> QED BY <1>1, <1>4, <1>5, Moves DEF ClientInv, pageVars, PageFits

LEMMA TwinKeeps ==
  ASSUME ClientInv, NEW f \in Sessions,
         Twin!Set(f) \/ Twin!Conflict(f) \/ Twin!Fail(f),
         UNCHANGED <<applyVars, pageVars>>
  PROVE  ClientInv'
<1>1. CASE Twin!Set(f)
  BY <1>1, SetMoves
<1>2. CASE Twin!Conflict(f) \/ Twin!Fail(f)
  <2>1. PICK o \in {Twin!Answer("conflict", version[op[f].veh], Twin!NoView),
                    Twin!Answer("storage", 0, Twin!NoView)} : op' = [op EXCEPT ![f] = o]
    BY <1>2 DEF Twin!Conflict, Twin!Fail, Twin!Tell
  <2>2. o.st = "done" /\ o.code # "ok"
    BY <2>1 DEF Twin!Answer
  <2>3. OpFits(history[Vehicle], o)
    BY <2>2 DEF OpFits
  <2> QED BY <1>2, <2>1, <2>2, <2>3, OpMoves DEF Twin!Conflict, Twin!Fail
<1> QED BY <1>1, <1>2

LEMMA OtherKeeps ==
  ASSUME ClientInv, NEW o \in Others, OtherSets(o)
  PROVE  ClientInv'
<1> DEFINE c == TempCell("driver")
           x == Float(OthersTemp)
           h == history[Vehicle]
           g == history'[Vehicle]
<1>1. o \in Sessions /\ o \notin Tasks
  BY ClientAssumption
<1>2. c \in TempCells /\ x \in Temps
  BY ClientAssumption DEF TempCell, TempCells, Temps, Float
<1>3. Changed(o, c, x)
  BY DEF OtherSets, Changed, Change
<1>4. TwinInv' /\ Continues(h, g)
  BY <1>1, <1>2, <1>3, ChangeFacts
<1>5. /\ h \in Seq(Changes) /\ g \in Seq(Changes)
      /\ Fits(h, o, op[o], apply[o], run[o], TaskOf(o))
  BY <1>1, <1>4 DEF ClientInv, TwinInv
<1>6. Fits(g, o, op[o], apply[o], run[o], NoTask)
  BY <1>1, <1>4, <1>5, FitsKept DEF TaskOf
<1>7. /\ Puts(op, op', Sessions, o, op[o]) /\ Puts(apply, apply', Sessions, o, apply[o])
      /\ Puts(run, run', Sessions, o, run[o]) /\ task' = task
  BY <1>1, ExceptPuts DEF OtherSets, applyVars, pageVars, ClientInv
<1> QED BY <1>1, <1>4, <1>6, <1>7, Moves DEF OtherSets, ClientInv, pageVars, PageFits

--------------------------------------------------------------------------------
LEMMA ClientInit ==
  ASSUME Init
  PROVE  ClientInv
<1>1. /\ life = [v \in {Vehicle} |-> life[v]] /\ life[Vehicle] = "live"
      /\ cells = [v \in {Vehicle} |-> Twin!DemoCells]
      /\ version = [v \in {Vehicle} |-> 0] /\ history = [v \in {Vehicle} |-> <<>>]
      /\ op = [f \in Sessions |-> Twin!Idle]
      /\ apply = [f \in Sessions |-> NoRequest] /\ run = [f \in Sessions |-> NoRun]
      /\ shown.version = 0 /\ shown.temps = [zone \in SeatZones |-> Float(22)] /\ shown.ac = "OFF"
      /\ PageFits /\ task = [f \in Tasks |-> NoTask]
  BY DEF Init, ApplyInit, Twin!Init, PageFits
<1>2. history[Vehicle] = <<>> /\ version[Vehicle] = 0 /\ cells[Vehicle] = Twin!DemoCells
  BY <1>1
<1>3. Len(<<>>) = 0 /\ <<>> \in Seq(Changes) /\ Numbered(<<>>)
  BY DEF Numbered
<1>4. HadState(<<>>, Seen)
  BY <1>2, <1>3 DEF HadState, HeldAfter, Seen
<1>8. Pictures(<<>>, shown)
  <2>1. \A zone \in SeatZones : Twin!DemoCells[TempCell(zone)] = shown.temps[zone]
    BY <1>1, DemoTwentyTwo DEF SeatZones, TempCell, TempCells
  <2>2. shown.ac = Climate(shown.temps)
    BY <1>1 DEF Climate
  <2> QED BY <1>1, <1>3, <2>1, <2>2 DEF Pictures, HeldAfter
<1>5. DOMAIN cells[Vehicle] = Cells /\ 0 \in 0..MaxVersion
  BY <1>2, DemoTemps, ThemeApplyAssumption
<1>6. TwinInv
  BY <1>1, <1>2, <1>3, <1>4, <1>5 DEF TwinInv
<1>7. ASSUME NEW f \in Sessions
      PROVE  Fits(<<>>, f, op[f], apply[f], run[f], TaskOf(f))
  <2>1. op[f] = Twin!Idle /\ apply[f] = NoRequest /\ run[f] = NoRun /\ TaskOf(f) = NoTask
    BY <1>1 DEF TaskOf
  <2> QED BY <2>1, NoRunFits DEF Fits, OpFits, ApplyFits, TaskFits
<1> QED BY <1>1, <1>2, <1>6, <1>7, <1>8 DEF ClientInv

LEMMA ClientStep ==
  ASSUME ClientInv, [Next]_vars
  PROVE  ClientInv'
<1>1. ASSUME NEW f \in Tasks, Server(f)
      PROVE  ClientInv'
  <2>1. CASE ServeState(f)
    BY <2>1, ServeKeeps
  <2>2. CASE ApplyNext(f) /\ UNCHANGED pageVars
    BY <2>2, CreateKeeps, ExecuteKeeps, RecordKeeps, MarkKeeps, CompleteKeeps, FailKeeps
    DEF ApplyNext
  <2>3. CASE TwinAnswers(f) /\ UNCHANGED pageVars
    BY <2>3, Here, TwinKeeps DEF TwinAnswers
  <2> QED BY <1>1, <2>1, <2>2, <2>3 DEF Server
<1>2. ASSUME NEW f \in Tasks, Page(f)
      PROVE  ClientInv'
  <2>1. CASE Loaded(f) \/ ControlFailed(f) \/ Refreshed(f)
    BY <2>1, EndsKeeps
  <2>2. CASE Control(f) \/ Controlled(f) \/ PostApply(f)
    BY <2>2, ControlKeeps, ControlledKeeps, PostKeeps
  <2>3. CASE ThemeApplied(f)
    BY <2>3, AnsweredKeeps
  <2>4. CASE ThemeFailed(f)
    <3>1. \/ task[f].pc = "get" /\ UNCHANGED applyVars
          \/ Applying(f, "refused") /\ Answered(f)
      BY <2>4 DEF ThemeFailed, ThemeFails
    <3> QED BY <2>4, <3>1, EndsKeeps, AnsweredKeeps
  <2> QED BY <1>2, <2>1, <2>2, <2>3, <2>4 DEF Page
<1>3. ASSUME UNCHANGED <<life, cells, version, history, op, apply, run, shown, task>>, PageFits'
      PROVE  ClientInv'
  BY <1>3 DEF ClientInv, TwinInv, Seen, TaskOf
<1>4. CASE Leave
  BY <1>3, <1>4 DEF Leave, twinVars, applyVars, PageFits
<1>5. CASE UNCHANGED vars
  BY <1>3, <1>5 DEF vars, twinVars, applyVars, pageVars, ClientInv, PageFits
<1> QED BY <1>1, <1>2, <1>4, <1>5, UserKeeps, OtherKeeps DEF Next

LEMMA ClientSafe == Spec => []ClientInv
<1> QED BY ClientInit, ClientStep, PTL DEF Spec

--------------------------------------------------------------------------------
\* Types, and that nothing a chain asks of the vehicle is out of range: for any
\* number of chains and other clients.
THEOREM ClientTypes == Spec => []TypeOK
<1>1. ASSUME ClientInv
      PROVE  TypeOK
  <2>1. ASSUME NEW f \in Sessions
        PROVE  /\ run[f].status \in {"none", "running", "success"} /\ Len(run[f].tools) <= 2
               /\ apply[f].pc \in {"none"} \cup ApplyPhases
               /\ op[f].st = "setting" => op[f].value \in ValuesOf(op[f].cell[1])
    <3>1. Fits(history[Vehicle], f, op[f], apply[f], run[f], TaskOf(f))
      BY <1>1 DEF ClientInv
    <3>2. run[f].status \in {"none", "running", "success"} /\ Len(run[f].tools) <= 2
      BY <3>1 DEF Fits, RunFits, Runs
    <3>3. apply[f].pc \in {"none"} \cup ApplyPhases
      BY <3>1 DEF Fits, ApplyFits, Applies, NoRequest
    <3>4. op[f].st = "setting" => op[f] \in Settings
      BY <3>1 DEF Fits, OpFits, Twin!Idle
    <3>5. \A o \in Settings : o.value \in ValuesOf(o.cell[1])
      BY DEF Settings, TempCells, Temps, ValuesOf, TempProperties
    <3> QED BY <3>2, <3>3, <3>4, <3>5
  <2>2. ASSUME NEW f \in Tasks
        PROVE  task[f].pc \in {"idle", "get", "got", "posted"}
    BY <1>1, Here DEF TaskFits, NoTask
  <2>3. shown.version \in 0..MaxVersion /\ version[Vehicle] \in 0..MaxVersion
    BY <1>1, ThemeApplyAssumption DEF ClientInv, TwinInv, Pictures
  <2> QED BY <1>1, <2>1, <2>2, <2>3 DEF TypeOK, RunTypeOK, ClientInv, PageFits, ApplyPhases
<1> QED BY <1>1, ClientSafe, PTL

\* A theme that was marked applied set both temperatures in two neighbouring changes,
\* whatever presses, other themes and other clients come between its calls.
THEOREM ThemesAreWhole == Spec => []AppliedIsWhole
<1>1. ASSUME ClientInv
      PROVE  AppliedIsWhole
  <2>1. ASSUME NEW f \in Sessions, run[f].marked
        PROVE  \E n \in DOMAIN history[Vehicle] :
                 /\ n + 1 \in DOMAIN history[Vehicle]
                 /\ \A k \in {1, 2} :
                      LET change == history[Vehicle][n + k - 1]
                      IN  /\ change.by = f /\ change.cell = TempCell(Zones[k])
                          /\ change.new = Float(ThemeTemp)
                          /\ change.version = run[f].tools[k].version
    <3> DEFINE h == history[Vehicle]
               n == run[f].tools[1].version
    <3>1. h \in Seq(Changes) /\ RunFits(h, f, run[f])
      BY <1>1 DEF ClientInv, TwinInv, Fits
    <3>2. /\ Len(run[f].tools) = 2 /\ run[f].tools[2].version = n + 1
          /\ Made(h, f, n, TempCell(Zones[1])) /\ Made(h, f, n + 1, TempCell(Zones[2]))
      BY <2>1, <3>1 DEF RunFits
    <3>3. DOMAIN h = 1..Len(h) /\ n \in DOMAIN h /\ n + 1 \in DOMAIN h /\ n \in Nat
      BY <3>1, <3>2 DEF Made
    <3>4. \A k \in {1, 2} :
            /\ n + k - 1 = run[f].tools[k].version
            /\ Made(h, f, n + k - 1, TempCell(Zones[k]))
      BY <3>2, <3>3
    <3> HIDE DEF n
    <3> QED BY <3>3, <3>4 DEF Made
  <2> QED BY <2>1 DEF AppliedIsWhole
<1> QED BY <1>1, ClientSafe, PTL

\* Every tool call on a run's record is a change of the vehicle, and success is told
\* only of a theme that was marked, wherever the request stops.
THEOREM RunsTellTheTruth == Spec => []RunTellsWhatHappened
<1>1. ASSUME ClientInv
      PROVE  RunTellsWhatHappened
  <2>1. ASSUME NEW f \in Sessions
        PROVE  /\ run[f].status = "success" => run[f].marked
               /\ \A k \in DOMAIN run[f].tools :
                    \E n \in DOMAIN history[Vehicle] :
                      /\ history[Vehicle][n].by = f
                      /\ history[Vehicle][n].version = run[f].tools[k].version
                      /\ history[Vehicle][n].cell = TempCell(run[f].tools[k].zone)
    <3>1. history[Vehicle] \in Seq(Changes) /\ RunFits(history[Vehicle], f, run[f])
      BY <1>1 DEF ClientInv, TwinInv, Fits
    <3>2. DOMAIN run[f].tools = 1..Len(run[f].tools)
      BY <3>1 DEF RunFits, Runs
    <3>3. \A k \in DOMAIN run[f].tools :
            /\ run[f].tools[k].zone = Zones[k]
            /\ Made(history[Vehicle], f, run[f].tools[k].version, TempCell(Zones[k]))
      BY <3>1, <3>2 DEF RunFits
    <3>4. run[f].status = "success" => run[f].marked
      BY <3>1 DEF RunFits
    <3>5. DOMAIN history[Vehicle] = 1..Len(history[Vehicle])
      BY <3>1
    <3> QED BY <3>3, <3>4, <3>5 DEF Made
  <2> QED BY <2>1 DEF RunTellsWhatHappened
<1> QED BY <1>1, ClientSafe, PTL

\* What the page shows was a state of the vehicle, as a whole, whichever chains of
\* this page and of those that were left answer in whatever order.
THEOREM ShownStatesWereReal == Spec => []ShownWasReal
<1>1. ASSUME ClientInv
      PROVE  ShownWasReal
  BY <1>1 DEF ClientInv, ShownWasReal
<1> QED BY <1>1, ClientSafe, PTL

\* The state read after a theme was applied has both of the theme's changes behind it,
\* however many chains and other clients change the vehicle meanwhile.
THEOREM RefreshShowsTheTheme == Spec => []RefreshSeesTheTheme
<1>1. ASSUME ClientInv
      PROVE  RefreshSeesTheTheme
  <2>1. ASSUME NEW f \in Tasks, Doing(f, "refresh", "got")
        PROVE  \E n \in 1..(task[f].got.version - 1) :
                 \A k \in {1, 2} :
                   LET change == history[Vehicle][n + k - 1]
                   IN  /\ change.by = f /\ change.cell = TempCell(Zones[k])
                       /\ change.new = Float(ThemeTemp)
    <3> DEFINE h == history[Vehicle]
    <3>1. Refreshes(h, f, task[f]) /\ HadState(h, task[f].got) /\ h \in Seq(Changes)
      BY <1>1, <2>1, Here DEF Doing, TaskFits, NoTask
    <3>2. PICK n \in Nat : Themed(h, f, n) /\ n + 1 <= task[f].got.version
      BY <2>1, <3>1 DEF Refreshes, Doing
    <3>3. n \in 1..(task[f].got.version - 1)
      BY <3>1, <3>2 DEF Themed, Made, HadState
    <3>4. \A k \in {1, 2} : Made(h, f, n + k - 1, TempCell(Zones[k]))
      BY <3>2 DEF Themed
    <3> QED BY <3>3, <3>4 DEF Made
  <2> QED BY <2>1 DEF RefreshSeesTheTheme
<1> QED BY <1>1, ClientSafe, PTL

--------------------------------------------------------------------------------
\* The dialog of the page that is open: no two chains are its own, and it is busy
\* while there is one.
InDialog(t) == t.kind \in {"theme", "refresh"}
DialogInv ==
  /\ task = [f \in Tasks |-> task[f]] /\ alive \subseteq Tasks /\ busy \in BOOLEAN
  /\ \A f, g \in alive : InDialog(task[f]) /\ InDialog(task[g]) => f = g
  /\ busy <=> \E f \in alive : InDialog(task[f])

\* One chain moves on as the page's own or as another's: the dialog is busy with it,
\* no more, or as before.
LEMMA DialogMoves ==
  ASSUME DialogInv, NEW f \in Tasks, NEW t, task' = [task EXCEPT ![f] = t],
         \/ (InDialog(t) <=> InDialog(task[f])) /\ alive' = alive /\ busy' = busy
         \/ ~InDialog(t) /\ ~InDialog(task[f]) /\ alive' = alive \cup {f} /\ busy' = busy
         \/ ~InDialog(task[f]) /\ alive' = alive \ {f} /\ busy' = busy
         \/ ~busy /\ InDialog(t) /\ alive' = alive \cup {f} /\ busy' = TRUE
         \/ InDialog(task[f]) /\ alive' = alive \ {f} /\ busy' = (busy /\ f \notin alive)
  PROVE  DialogInv'
<1>1. task'[f] = t /\ \A g \in Tasks \ {f} : task'[g] = task[g]
  BY DEF DialogInv
<1>2. task' = [g \in Tasks |-> task'[g]] /\ alive' \subseteq Tasks /\ alive \subseteq Tasks
  BY DEF DialogInv
<1>3. CASE /\ \A g \in Tasks : g \in alive' /\ InDialog(task'[g]) <=> g \in alive /\ InDialog(task[g])
           /\ busy' = busy
  BY <1>2, <1>3 DEF DialogInv
<1>4. CASE ~busy /\ InDialog(t) /\ alive' = alive \cup {f} /\ busy' = TRUE
  <2>1. \A g \in Tasks : g \in alive' /\ InDialog(task'[g]) <=> g = f
    BY <1>1, <1>2, <1>4 DEF DialogInv
  <2> QED BY <1>2, <1>4, <2>1 DEF DialogInv
<1>5. CASE f \in alive /\ InDialog(task[f]) /\ alive' = alive \ {f} /\ busy' = FALSE
  <2>1. \A g \in alive' : ~InDialog(task'[g])
    BY <1>1, <1>2, <1>5 DEF DialogInv
  <2> QED BY <1>2, <1>5, <2>1 DEF DialogInv
<1>6. CASE (InDialog(t) <=> InDialog(task[f])) /\ alive' = alive /\ busy' = busy
  BY <1>1, <1>2, <1>3, <1>6
<1>7. CASE ~InDialog(t) /\ ~InDialog(task[f]) /\ alive' = alive \cup {f} /\ busy' = busy
  BY <1>1, <1>2, <1>3, <1>7
<1>8. CASE ~InDialog(task[f]) /\ alive' = alive \ {f} /\ busy' = busy
  BY <1>1, <1>2, <1>3, <1>8
<1>9. CASE InDialog(task[f]) /\ alive' = alive \ {f} /\ busy' = (busy /\ f \notin alive)
  <2>1. CASE f \in alive
    BY <1>5, <1>9, <2>1
  <2>2. CASE f \notin alive
    <3>1. busy' = busy /\ alive' = alive
      BY <1>9, <2>2 DEF DialogInv
    <3> QED BY <1>1, <1>2, <1>3, <2>2, <3>1
  <2> QED BY <2>1, <2>2
<1> QED BY <1>4, <1>6, <1>7, <1>8, <1>9

LEMMA DialogStep ==
  ASSUME DialogInv, [Next]_vars
  PROVE  DialogInv'
<1>1. ASSUME UNCHANGED <<task, busy, alive>>
      PROVE  DialogInv'
  BY <1>1 DEF DialogInv
<1>2. ASSUME NEW f \in Tasks, Server(f)
      PROVE  DialogInv'
  <2>1. CASE ServeState(f)
    <3> DEFINE t == [kind |-> task[f].kind, pc |-> "got", got |-> Served, press |-> task[f].press]
    <3>1. task' = [task EXCEPT ![f] = t] /\ busy' = busy /\ alive' = alive
      BY <2>1 DEF ServeState, Becomes
    <3>2. InDialog(t) <=> InDialog(task[f])
      BY DEF InDialog
    <3> QED BY <3>1, <3>2, DialogMoves
  <2> QED BY <1>1, <1>2, <2>1 DEF Server, pageVars
<1>3. ASSUME NEW f \in Tasks, Page(f)
      PROVE  DialogInv'
  <2>1. CASE Loaded(f) \/ Controlled(f) \/ ControlFailed(f)
    <3>1. /\ task' = [task EXCEPT ![f] = NoTask] /\ alive' = alive \ {f} /\ busy' = busy
          /\ ~InDialog(task[f])
      BY <2>1 DEF Loaded, Controlled, ControlFailed, Doing, Ends, Becomes, InDialog
    <3> QED BY <3>1, DialogMoves
  <2>2. CASE Control(f)
    <3> DEFINE t == [kind |-> "control", pc |-> "posted"]
    <3>1. /\ task' = [task EXCEPT ![f] = t] /\ busy' = busy /\ alive' = alive
          /\ ~InDialog(task[f]) /\ ~InDialog(t)
      BY <2>2 DEF Control, Doing, Becomes, InDialog
    <3> QED BY <3>1, DialogMoves
  <2>3. CASE PostApply(f)
    <3> DEFINE t == [kind |-> "theme", pc |-> "posted"]
    <3>1. /\ task' = [task EXCEPT ![f] = t] /\ busy' = busy /\ alive' = alive
          /\ InDialog(task[f]) /\ InDialog(t)
      BY <2>3 DEF PostApply, Doing, Becomes, InDialog
    <3> QED BY <3>1, DialogMoves
  <2>4. CASE ThemeApplied(f)
    <3> DEFINE t == [kind |-> "refresh", pc |-> "get", press |-> Nothing]
    <3>1. /\ task' = [task EXCEPT ![f] = t] /\ busy' = busy /\ alive' = alive
          /\ InDialog(task[f]) /\ InDialog(t)
      BY <2>4 DEF ThemeApplied, Doing, Gets, Becomes, InDialog
    <3> QED BY <3>1, DialogMoves
  <2>5. CASE Refreshed(f) \/ ThemeFailed(f)
    <3>1. /\ task' = [task EXCEPT ![f] = NoTask] /\ alive' = alive \ {f}
          /\ busy' = (busy /\ f \notin alive) /\ InDialog(task[f])
      BY <2>5 DEF Refreshed, ThemeFailed, ThemeFails, FreesDialog, Doing, Ends, Becomes, InDialog
    <3> QED BY <3>1, DialogMoves
  <2> QED BY <1>3, <2>1, <2>2, <2>3, <2>4, <2>5 DEF Page
<1>4. ASSUME NEW f \in Tasks, User(f)
      PROVE  DialogInv'
  <2>1. ~InDialog(task[f])
    BY <1>4 DEF User, Open, Press, ConfirmTheme, InDialog, NoTask
  <2>2. CASE Open(f) \/ Press(f)
    <3>1. PICK kind \in {"load", "control"} :
            \E press : Gets(f, kind, press) /\ busy' = busy /\ alive' \in {alive, alive \cup {f}}
      BY <2>2 DEF Open, Press
    <3>2. PICK press : Gets(f, kind, press) /\ busy' = busy /\ alive' \in {alive, alive \cup {f}}
      BY <3>1
    <3> DEFINE t == [kind |-> kind, pc |-> "get", press |-> press]
    <3>3. task' = [task EXCEPT ![f] = t] /\ ~InDialog(t)
      BY <3>2 DEF Gets, Becomes, InDialog
    <3> QED BY <2>1, <3>2, <3>3, DialogMoves
  <2>3. CASE ConfirmTheme(f)
    <3> DEFINE t == [kind |-> "theme", pc |-> "get", press |-> Nothing]
    <3>1. /\ task' = [task EXCEPT ![f] = t] /\ ~busy /\ busy' = TRUE /\ alive' = alive \cup {f}
          /\ InDialog(t)
      BY <2>3 DEF ConfirmTheme, Gets, Becomes, InDialog
    <3> QED BY <3>1, DialogMoves
  <2> QED BY <1>4, <2>2, <2>3 DEF User
<1>5. ASSUME NEW o \in Others, OtherSets(o)
      PROVE  DialogInv'
  BY <1>1, <1>5 DEF OtherSets, pageVars
<1>6. CASE Leave
  BY <1>6 DEF Leave, DialogInv
<1> QED BY <1>1, <1>2, <1>3, <1>4, <1>5, <1>6 DEF Next, vars, pageVars

\* However often the page is left and opened, its dialog has at most one theme of its
\* own under way and is busy exactly then: no chain of a dialog that was left blocks it
\* or frees it.
THEOREM DialogsApart == Spec => []OneThemePerDialog
<1>1. ASSUME Init
      PROVE  DialogInv
  BY <1>1 DEF Init, DialogInv
<1>2. ASSUME DialogInv
      PROVE  OneThemePerDialog
  <2> DEFINE Own == {f \in alive : InDialog(task[f])}
  <2>1. Cardinality(Own) <= 1
    <3>1. CASE Own = {}
      BY <3>1, FS_EmptySet
    <3>2. CASE Own # {}
      <4>1. PICK f \in Own : Own = {f}
        BY <1>2, <3>2 DEF DialogInv
      <4> QED BY <4>1, FS_Singleton
    <3> QED BY <3>1, <3>2
  <2>2. busy <=> Own # {}
    BY <1>2 DEF DialogInv
  <2> QED BY <2>1, <2>2 DEF OneThemePerDialog, InDialog
<1> QED BY <1>1, <1>2, DialogStep, PTL DEF Spec
================================================================================
