--------------------------- MODULE CockpitAgent_proofs --------------------------
(***************************************************************************)
(* Safety of CockpitAgent, for any vehicles, chats, other sessions, texts  *)
(* and plans of the model.  A chat's commands are what the vehicle takes,  *)
(* and no tool reaches the gear or the speed, which is all that the safety *)
(* gate reads of a state.  As long as the version is the one a chat saw    *)
(* last, the vehicle is as it saw it; what others change moves the version *)
(* and the chat's next call is a conflict.                                 *)
(***************************************************************************)
EXTENDS CockpitAgent, SequenceTheorems, FiniteSetTheorems, WellFoundedInduction, TLAPS

ChangeType ==
  [by : Sessions, cell : WritableCells, old : WritableValues, new : WritableValues,
   version : Nat]

\* The changes are numbered without a gap.
Numbered(h) == \A n \in 1..Len(h) : h[n].version = n

\* What holds of a vehicle's register.
RegisterFits(lf, view, n, h) ==
  /\ lf \in {"unborn", "live", "removed"} /\ n \in 0..MaxVersion
  /\ DOMAIN view = Cells /\ \A c \in WritableCells : view[c] \in WritableValues
  /\ h \in Seq(ChangeType) /\ Numbered(h)
  /\ lf # "removed" => Len(h) = n

\* What is asked of the vehicles is well-formed.
Settings ==
  {o \in [st : {"setting"}, veh : Vehicles, cell : WritableCells, value : WritableValues,
          expected : Nat] : o.value \in ValuesOf(o.cell[1])}
Removals == [st : {"removing"}, veh : Vehicles \ DemoVehicles]
Done(o) == o.st = "done" /\ o.version \in Nat
Asked(o) == o = Twin!Idle \/ o \in Settings \/ o \in Removals \/ Done(o)

\* A command that validate_tools lets through.
GoodCommand(c) ==
  /\ c \in CommandType /\ Normalizable(c.prop, c.zone, c.value)
  /\ c.prop # "GEAR" /\ NormalZone(c.prop, c.zone) = c.zone
  /\ CellOf(c) \in WritableCells
  /\ Stored(c) \in ValuesOf(c.prop) /\ Stored(c) \in WritableValues
  /\ c.prop \in {"DOOR_STATE", "CHARGE_STATUS"} => Stored(c) = c.value
GoodCommands == {c \in CommandType : GoodCommand(c)}

--------------------------------------------------------------------------------
\* A chat's own state: what the graph has come to, and what that leaves unset.
Nodes == Rest \cup GraphNodes \cup {"complete_run", "raising"}
Routes == {"none", "rule", "vehicle_info", "model"}
JobFields ==
  {"ctx", "speed", "route", "calls", "commands", "gate", "current", "outcomes", "answer"}
JobFits(j) ==
  /\ j = [f \in JobFields |-> j[f]]
  /\ j.ctx.version \in Nat /\ j.current.version \in Nat
  /\ j.speed \in Nat /\ j.commands \in Seq(GoodCommands) /\ j.gate \in Seq(SafetyCodes)
  /\ j.outcomes \in Seq(OutcomeType) /\ Len(j.outcomes) <= Len(j.commands)
TraceFields == {"run", "steps", "tools"}
TraceFits(t) ==
  /\ t = [f \in TraceFields |-> t[f]]
  /\ t.run \in {"none", "running", "success", "blocked", "failed"}
  /\ t.tools \in Seq(OutcomeType)

Loaded(j) == j.ctx # NoState
NothingPlanned(j) == j.commands = <<>> /\ j.gate = <<>> /\ j.outcomes = <<>>
Judged(j) ==
  /\ Len(j.gate) = Len(j.commands)
  /\ \A i \in 1..Len(j.gate) : j.gate[i] = GateCode(j.commands[i], j.ctx, j.speed)
NoFailed(j) == \A i \in 1..Len(j.outcomes) : j.outcomes[i].status # "FAILED"

Stage(n, j, t) ==
  /\ n \in Nodes
  /\ n \in {"idle", "load_context"} => ~Loaded(j)
  /\ ~Loaded(j) =>
       NothingPlanned(j) /\ t.tools = <<>> /\ t.run \notin {"success", "blocked"}
  /\ n \in {"route_intent", "model_plan", "validate_tools"} => Loaded(j) /\ NothingPlanned(j)
  /\ n = "validate_tools" => \E k \in 0..4 : DOMAIN j.calls = 1..k
  /\ n = "safety_gate" => Loaded(j) /\ j.gate = <<>> /\ j.outcomes = <<>>
  /\ n \in {"execute_tools", "compose_response", "complete_run", "answered"} =>
       Loaded(j) /\ Judged(j)
  /\ n \in {"compose_response", "complete_run", "answered"} =>
       Len(j.outcomes) = Len(j.commands)
  /\ t.run \in {"success", "blocked"} => n = "answered" /\ NoFailed(j)

\* Its call of the twin is the approved command whose turn it is, on the version
\* it last saw.
NextCommand(j) == j.commands[Len(j.outcomes) + 1]
CallOf(v, j) ==
  [st |-> "setting", veh |-> v, cell |-> CellOf(NextCommand(j)), value |-> Stored(NextCommand(j)),
   expected |-> j.current.version]
CallFits(n, v, j, o) ==
  \/ o = Twin!Idle
  \/ /\ n = "execute_tools" /\ Len(j.outcomes) + 1 \in 1..Len(j.commands)
     /\ j.gate[Len(j.outcomes) + 1] = "APPROVED"
     /\ o = CallOf(v, j) \/ o.st = "done"

--------------------------------------------------------------------------------
\* What a chat knows of its vehicle, whose history is h and whose cells are view.
\* The gate reads these cells only.
Steady(before, after) ==
  /\ after[<<"GEAR", "global">>] = before[<<"GEAR", "global">>]
  /\ after[<<"VEHICLE_SPEED", "global">>] = before[<<"VEHICLE_SPEED", "global">>]

Did(h, a, n, c) ==
  n \in 1..Len(h) /\ h[n].by = a /\ h[n].cell = CellOf(c) /\ h[n].new = Stored(c)
NoMore(h, a, n) == \A k \in (n + 1)..Len(h) : h[k].by # a

Approved(j) == {i \in 1..Len(j.gate) : j.gate[i] = "APPROVED"}
UpTo(S, m) == Cardinality({i \in S : i <= m})

Saw(h, view, a, j) ==
  /\ j.ctx.version <= j.current.version /\ j.current.version <= Len(h)
  /\ \A k \in (j.ctx.version + 1)..j.current.version : h[k].by = a
  /\ Len(h) = j.current.version => view = j.current.cells
  /\ Steady(j.ctx.cells, j.current.cells)
Told(h, view, a, j, o) ==
  o.st = "done" /\ o.code = "ok" =>
    /\ o.version = j.current.version + 1
    /\ Did(h, a, o.version, NextCommand(j))
    /\ Len(h) = o.version => view = o.view
    /\ Steady(j.ctx.cells, o.view)
Recorded(h, a, j, t) ==
  \A i \in 1..Len(t.tools) :
    t.tools[i].status = "SUCCESS" =>
      t.tools[i].version > j.ctx.version /\ Did(h, a, t.tools[i].version, t.tools[i].command)
OnlyThose(h, a, j, o) ==
  /\ j.current.version = j.ctx.version + UpTo(Approved(j), Len(j.outcomes))
  /\ \A i \in Approved(j) :
       i <= Len(j.outcomes) => Did(h, a, j.ctx.version + UpTo(Approved(j), i), j.commands[i])
  /\ o.st # "done" => NoMore(h, a, j.current.version)
  /\ o.st = "done" /\ o.code = "ok" => NoMore(h, a, o.version)

AtWork(n) == n \notin {"raising", "error", "lost"}
Knows(h, view, a, n, j, t, o) ==
  /\ Saw(h, view, a, j) /\ Told(h, view, a, j, o) /\ Recorded(h, a, j, t)
  /\ AtWork(n) /\ NoFailed(j) => OnlyThose(h, a, j, o)

ChatFits(a, n, v, u, j, t, o, lf, view, h) ==
  /\ v \in Vehicles /\ u \in Utterances
  /\ JobFits(j) /\ TraceFits(t) /\ Stage(n, j, t) /\ CallFits(n, v, j, o)
  /\ Loaded(j) => lf # "unborn"
  /\ Loaded(j) /\ lf = "live" => Knows(h, view, a, n, j, t, o)

\* The shapes of the variables, and what holds of the vehicles and of the calls.
Shapes ==
  /\ life = [v \in Vehicles |-> life[v]] /\ cells = [v \in Vehicles |-> cells[v]]
  /\ version = [v \in Vehicles |-> version[v]] /\ history = [v \in Vehicles |-> history[v]]
  /\ op = [s \in Sessions |-> op[s]]
ChatShapes ==
  /\ node = [a \in Agents |-> node[a]] /\ said = [a \in Agents |-> said[a]]
  /\ job = [a \in Agents |-> job[a]] /\ trace = [a \in Agents |-> trace[a]]
TwinFits ==
  /\ \A v \in Vehicles : RegisterFits(life[v], cells[v], version[v], history[v])
  /\ \A s \in Sessions : Asked(op[s])

Chat(a) ==
  LET v == said[a].veh
  IN  /\ said[a] = [veh |-> v, text |-> said[a].text]
      /\ ChatFits(a, node[a], v, said[a].text, job[a], trace[a], op[a],
                  life[v], cells[v], history[v])
AgentInv == Shapes /\ ChatShapes /\ TwinFits /\ \A a \in Agents : Chat(a)

--------------------------------------------------------------------------------
\* Counting: the members of a set of numbers come one after the other.
LEMMA Least ==
  ASSUME NEW S \in SUBSET Nat, S # {}
  PROVE  \E i \in S : \A j \in S : i <= j
<1>1. PICK i \in S : \A j \in S : <<j, i>> \notin OpToRel(<, Nat)
  BY WFMin, NatLessThanWellFounded
<1>2. \A j \in S : ~(j < i)
  BY <1>1 DEF OpToRel
<1> QED BY <1>2

LEMMA UpToStep ==
  ASSUME NEW n \in Nat, NEW S \in SUBSET (1..n)
  PROVE  /\ UpTo(S, 0) = 0
         /\ \A m \in Nat :
              /\ UpTo(S, m) \in Nat
              /\ UpTo(S, m + 1) = IF m + 1 \in S THEN UpTo(S, m) + 1 ELSE UpTo(S, m)
              /\ n <= m => UpTo(S, m) = Cardinality(S)
<1>1. IsFiniteSet(S)
  <2>1. IsFiniteSet(1..n)
    BY 1 \in Int, n \in Int, FS_Interval
  <2> QED BY <2>1, FS_Subset
<1>2. \A i \in S : i \in Int /\ i >= 1 /\ i <= n
  OBVIOUS
<1>3. UpTo(S, 0) = 0
  <2>1. ASSUME NEW i \in S
        PROVE  ~(i <= 0)
    BY <1>2
  <2>2. {i \in S : i <= 0} = {}
    BY <2>1
  <2> QED BY <2>2, FS_EmptySet DEF UpTo
<1>4. ASSUME NEW m \in Nat
      PROVE  /\ UpTo(S, m) \in Nat
             /\ UpTo(S, m + 1) = IF m + 1 \in S THEN UpTo(S, m) + 1 ELSE UpTo(S, m)
             /\ n <= m => UpTo(S, m) = Cardinality(S)
  <2> DEFINE below == {i \in S : i <= m}
             upto == {i \in S : i <= m + 1}
  <2>1. UpTo(S, m) = Cardinality(below) /\ UpTo(S, m + 1) = Cardinality(upto)
    BY DEF UpTo
  <2>2. below \subseteq S /\ (n <= m => below = S)
    <3>1. ASSUME NEW i \in S, n <= m
          PROVE  i <= m
      BY <1>2, <3>1
    <3> QED BY <3>1
  <2>3. m + 1 \notin below
    OBVIOUS
  <2>4. upto = IF m + 1 \in S THEN below \cup {m + 1} ELSE below
    <3>1. ASSUME NEW i \in S
          PROVE  i <= m + 1 <=> i <= m \/ i = m + 1
      BY <1>2
    <3> QED BY <3>1
  <2> HIDE DEF below, upto
  <2>5. IsFiniteSet(below)
    BY <1>1, <2>2, FS_Subset
  <2>6. Cardinality(below) \in Nat
    BY <2>5, FS_CardinalityType
  <2>7. Cardinality(below \cup {m + 1}) = Cardinality(below) + 1
    BY <2>3, <2>5, FS_AddElement
  <2> QED BY <2>1, <2>2, <2>4, <2>6, <2>7
<1> QED BY <1>3, <1>4

\* There is a k-th member.
LEMMA Ranked ==
  ASSUME NEW n \in Nat, NEW S \in SUBSET (1..n), NEW k \in 1..Cardinality(S)
  PROVE  \E i \in S : UpTo(S, i) = k
<1> DEFINE T == {m \in Nat : UpTo(S, m) >= k}
<1>1. /\ UpTo(S, 0) = 0 /\ UpTo(S, n) = Cardinality(S) /\ Cardinality(S) \in Nat
      /\ \A m \in Nat : UpTo(S, m) \in Nat
  BY UpToStep
<1>2. T \in SUBSET Nat /\ n \in T
  BY <1>1
<1>3. PICK i \in T : \A j \in T : i <= j
  BY <1>2, Least
<1>4. i \in Nat /\ UpTo(S, i) >= k
  BY <1>3
<1>5. i # 0
  BY <1>1, <1>4
<1>6. i - 1 \in Nat /\ i - 1 \notin T
  BY <1>3, <1>4, <1>5
<1>7. UpTo(S, i - 1) < k
  BY <1>1, <1>6
<1> DEFINE m == i - 1
<1>8. m \in Nat /\ m + 1 = i
  BY <1>4, <1>6
<1> HIDE DEF m
<1>9. UpTo(S, i) = IF i \in S THEN UpTo(S, m) + 1 ELSE UpTo(S, m)
  BY <1>8, UpToStep
<1>10. UpTo(S, m) < k
  BY <1>7 DEF m
<1> QED BY <1>1, <1>4, <1>8, <1>9, <1>10

--------------------------------------------------------------------------------
\* What the tools let through.  A choice that is spelled as the schema spells it is
\* stored as it is.
LEMMA Spelled == \A x \in Doors \cup Lights \cup Charges : Upper(x) = x
BY DEF Doors, Lights, Charges, Upper, LowerSpelling

\* The properties, zones and values of the tools.
ToolTarget(prop, zone, value) ==
  \/ <<prop, zone>> \in {<<"DRIVER_TEMP", "driver">>, <<"PASSENGER_TEMP", "passenger">>}
     /\ value \in {"float"} \X (16..30)
  \/ prop = "SEAT_HEAT" /\ zone \in SeatZones /\ value \in {"int"} \X (0..3)
  \/ prop = "WINDOW_POSITION" /\ zone \in SeatZones /\ value \in {"int"} \X (0..100)
  \/ prop = "DOOR_STATE" /\ zone \in SeatZones /\ value \in {"text"} \X Doors
  \/ prop = "LIGHT_STATE" /\ zone = "global" /\ value \in {"text"} \X Lights
  \/ prop = "CHARGE_STATUS" /\ zone = "global" /\ value \in {"text"} \X Charges

LEMMA TargetGood ==
  ASSUME NEW c, c.name \in ToolNames, ToolTarget(c.prop, c.zone, c.value),
         c = [name |-> c.name, prop |-> c.prop, zone |-> c.zone, value |-> c.value]
  PROVE  c \in GoodCommands
<1>1. c \in CommandType
  <2>1. c.prop \in WritableProperties
    BY DEF ToolTarget, WritableProperties, ZonedProperties, TempProperties, GlobalProperties
  <2>2. c.zone \in ZoneNames
    BY DEF ToolTarget, ZoneNames, SeatZones
  <2>3. c.value \in WritableValues \cup {"int"} \X (0..100)
    BY DEF ToolTarget, WritableValues
  <2> QED BY <2>1, <2>2, <2>3 DEF CommandType
<1>2. c.prop # "GEAR" /\ c.prop \notin ReadOnlyProperties /\ ZoneAccepted(c.prop, c.zone)
  BY DEF ToolTarget, ReadOnlyProperties, ZoneAccepted, ZonedProperties, GlobalProperties
<1>3. ValueAccepted(c.prop, c.value)
  BY Spelled DEF ToolTarget, ValueAccepted, RequireNumber, RequireInteger, RequireChoice,
     TempProperties
<1>4. NormalZone(c.prop, c.zone) = c.zone
  BY DEF ToolTarget, NormalZone, ZonedProperties
<1>5. CellOf(c) \in WritableCells
  BY DEF ToolTarget, CellOf, WritableCells, Cells, WritableProperties, ZonedProperties,
     TempProperties, GlobalProperties
<1>6. Stored(c) \in ValuesOf(c.prop) /\ Stored(c) \in WritableValues
      /\ (c.prop \in {"DOOR_STATE", "CHARGE_STATUS"} => Stored(c) = c.value)
  BY Spelled DEF ToolTarget, Stored, NormalValue, TempProperties, ValuesOf, WritableValues,
     Float, Integer, Text
<1> QED BY <1>1, <1>2, <1>3, <1>4, <1>5, <1>6 DEF GoodCommands, GoodCommand, Normalizable

LEMMA AcceptedGood ==
  ASSUME NEW call, Accepted(call)
  PROVE  Command(call) \in GoodCommands
<1> DEFINE c == Command(call)
<1>1. c = [name |-> c.name, prop |-> c.prop, zone |-> c.zone, value |-> c.value]
      /\ c.name = call[1] /\ c.name \in ToolNames
  BY DEF Command, Accepted, ToolNames
<1>2. ToolTarget(c.prop, c.zone, c.value)
  BY DEF Command, Accepted, ToolTarget, ToolProperty, WholeNumber, NumberOf, Literally,
     SeatZones, NoZone, Float, Integer, Text
<1> QED BY <1>1, <1>2, TargetGood

LEMMA CommandsGood ==
  ASSUME NEW calls, NEW k \in 0..4, DOMAIN calls = 1..k
  PROVE  Commands(calls) \in Seq(GoodCommands)
<1> DEFINE accepted == {i \in DOMAIN calls : Accepted(calls[i])}
           n == Cardinality(accepted)
           nth(m) == CHOOSE i \in accepted : Cardinality({j \in accepted : j <= i}) = m
<1>1. accepted \in SUBSET (1..k) /\ k \in Nat
  OBVIOUS
<1>2. n \in Nat
  BY <1>1, UpToStep
<1>3. ASSUME NEW m \in 1..n
      PROVE  nth(m) \in accepted
  <2>1. \E i \in accepted : UpTo(accepted, i) = m
    BY <1>1, Ranked
  <2> QED BY <2>1 DEF UpTo
<1>4. \A m \in 1..n : Command(calls[nth(m)]) \in GoodCommands
  BY <1>3, AcceptedGood
<1>5. Commands(calls) = [m \in 1..n |-> Command(calls[nth(m)])]
  BY DEF Commands
<1> HIDE DEF n, nth, accepted
<1> QED BY <1>2, <1>4, <1>5, SeqDef

\* The rules plan one call or two.
LEMMA TopicKnown ==
  \A u : Topic(u) \in {"other", "info", "cold", "temperature", "open_door", "close_door",
                       "window", "low_beam", "lights_off", "start_charge", "stop_charge"}
<1> TAKE u
<1> DEFINE hits == {i \in DOMAIN Topics : Topics[i] \in u.topics}
<1>1. DOMAIN Topics = 1..10
  BY DEF Topics
<1>2. CASE hits = {}
  BY <1>2 DEF Topic
<1>3. CASE hits # {}
  <2>1. hits \in SUBSET Nat
    BY <1>1
  <2>2. PICK first \in hits : first = CHOOSE i \in hits : \A j \in hits : i <= j
    BY <1>3, <2>1, Least
  <2>3. Topic(u) = Topics[first] /\ first \in 1..10
    BY <1>1, <1>3, <2>2 DEF Topic
  <2> QED BY <2>3 DEF Topics
<1> QED BY <1>2, <1>3

LEMMA RoutePlans ==
  ASSUME NEW u \in Utterances
  PROVE  /\ Route(u).route \in {"rule", "vehicle_info", "model"}
         /\ Route(u).speed \in Nat
         /\ Route(u).route = "rule" => \E k \in 0..4 : DOMAIN Route(u).calls = 1..k
<1>1. u.speed \in Nat
  BY ChatAssumption
<1>2. CASE Topic(u) \in {"info", "other"} \/ (Topic(u) = "window" /\ u.window = "unclear")
  BY <1>2 DEF Route
<1>3. CASE ~(Topic(u) \in {"info", "other"} \/ (Topic(u) = "window" /\ u.window = "unclear"))
  <2>1. Route(u) = [route |-> "rule", calls |-> RuleCalls(u), speed |-> u.speed]
    BY <1>3 DEF Route
  <2>2. DOMAIN RuleCalls(u) = 1..1 \/ DOMAIN RuleCalls(u) = 1..2
    BY <1>3, TopicKnown DEF RuleCalls
  <2> QED BY <1>1, <2>1, <2>2
<1> QED BY <1>2, <1>3

--------------------------------------------------------------------------------
\* What a chat knows outlives what others do to its vehicle.
LEMMA DidKept ==
  ASSUME NEW h \in Seq(ChangeType), NEW e \in ChangeType,
         NEW a, NEW n, NEW c, Did(h, a, n, c)
  PROVE  Did(Append(h, e), a, n, c)
<1>1. Len(Append(h, e)) = Len(h) + 1 /\ \A i \in 1..Len(h) : Append(h, e)[i] = h[i]
      /\ Len(h) \in Nat
  BY AppendProperties
<1> QED BY <1>1 DEF Did

LEMMA KnowsKept ==
  ASSUME NEW h \in Seq(ChangeType), NEW e \in ChangeType, NEW a, e.by # a,
         NEW n, NEW j, NEW t, NEW o, JobFits(j), NEW view, NEW next,
         Knows(h, view, a, n, j, t, o)
  PROVE  Knows(Append(h, e), next, a, n, j, t, o)
<1> DEFINE g == Append(h, e)
<1>1. Len(g) = Len(h) + 1 /\ (\A i \in 1..Len(h) : g[i] = h[i]) /\ g[Len(h) + 1] = e
      /\ Len(h) \in Nat
  BY AppendProperties
<1>2. j.ctx.version \in Nat /\ j.current.version \in Nat
  BY DEF JobFits
<1>3. \A m, c : Did(h, a, m, c) => Did(g, a, m, c)
  BY DidKept
<1> HIDE DEF g
<1>4. Saw(g, next, a, j)
  BY <1>1, <1>2 DEF Knows, Saw
<1>5. Told(g, next, a, j, o)
  <2>1. Told(h, view, a, j, o)
    BY DEF Knows
  <2>2. o.st = "done" /\ o.code = "ok" => o.version \in 1..Len(h)
    BY <2>1 DEF Told, Did
  <2> QED BY <1>1, <1>3, <2>1, <2>2 DEF Told
<1>6. Recorded(g, a, j, t)
  BY <1>3 DEF Knows, Recorded
<1>7. ASSUME NEW m \in Nat, NoMore(h, a, m)
      PROVE  NoMore(g, a, m)
  <2>1. ASSUME NEW k \in (m + 1)..Len(g)
        PROVE  g[k].by # a
    <3>1. CASE k = Len(h) + 1
      BY <1>1, <3>1
    <3>2. CASE k # Len(h) + 1 /\ k \in 1..Len(h)
      BY <1>1, <1>7, <3>2 DEF NoMore
    <3>3. m \in Nat => k \in 1..Len(h) \/ k = Len(h) + 1
      BY <1>1
    <3> QED BY <1>7, <3>1, <3>2, <3>3
  <2> QED BY <2>1 DEF NoMore
<1>8. ASSUME OnlyThose(h, a, j, o), Told(h, view, a, j, o)
      PROVE  OnlyThose(g, a, j, o)
  <2>1. o.st = "done" /\ o.code = "ok" => o.version \in Nat
    BY <1>2, <1>8 DEF Told
  <2>2. o.st # "done" => NoMore(g, a, j.current.version)
    BY <1>2, <1>7, <1>8 DEF OnlyThose
  <2>3. o.st = "done" /\ o.code = "ok" => NoMore(g, a, o.version)
    BY <1>7, <1>8, <2>1 DEF OnlyThose
  <2>4. \A i \in Approved(j) :
          i <= Len(j.outcomes) => Did(g, a, j.ctx.version + UpTo(Approved(j), i), j.commands[i])
    BY <1>3, <1>8 DEF OnlyThose
  <2> QED BY <1>8, <2>2, <2>3, <2>4 DEF OnlyThose
<1> QED BY <1>4, <1>5, <1>6, <1>8 DEF Knows, g

\* From where chat a stands: its vehicle is as before, or someone else changed it
\* once, or it is gone.
Meanwhile(a, lf, view, h, lf2, view2, h2) ==
  /\ lf # "unborn" => lf2 # "unborn"
  /\ lf2 = "live" /\ lf # "live" => lf = "unborn"
  /\ lf = "live" /\ lf2 = "live" =>
       \/ h2 = h /\ view2 = view
       \/ \E e \in ChangeType : e.by # a /\ h2 = Append(h, e)

LEMMA ChatKept ==
  ASSUME NEW a, NEW n, NEW v, NEW u, NEW j, NEW t, NEW o, NEW lf, NEW view,
         NEW h \in Seq(ChangeType), ChatFits(a, n, v, u, j, t, o, lf, view, h),
         NEW lf2, NEW view2, NEW h2, Meanwhile(a, lf, view, h, lf2, view2, h2)
  PROVE  ChatFits(a, n, v, u, j, t, o, lf2, view2, h2)
<1>1. JobFits(j) /\ (Loaded(j) => lf # "unborn" /\ lf2 # "unborn")
  BY DEF ChatFits, Meanwhile
<1>2. ASSUME Loaded(j), lf2 = "live"
      PROVE  Knows(h2, view2, a, n, j, t, o)
  <2>1. lf = "live" /\ Knows(h, view, a, n, j, t, o)
    BY <1>1, <1>2 DEF ChatFits, Meanwhile
  <2>2. CASE h2 = h /\ view2 = view
    BY <2>1, <2>2
  <2>3. CASE \E e \in ChangeType : e.by # a /\ h2 = Append(h, e)
    BY <1>1, <2>1, <2>3, KnowsKept
  <2> QED BY <1>2, <2>1, <2>2, <2>3 DEF Meanwhile
<1> QED BY <1>1, <1>2 DEF ChatFits

--------------------------------------------------------------------------------
LEMMA SameCells == Twin!Cells = Cells /\ Twin!WritableCells = WritableCells
BY DEF Cells, Twin!Cells, WritableCells, Twin!WritableCells, ReadOnlyProperties,
   Twin!ReadOnlyProperties, GlobalProperties, Twin!GlobalProperties, ZonedProperties,
   Twin!ZonedProperties, SeatZones, Twin!SeatZones, WritableProperties, Twin!WritableProperties,
   TempProperties, Twin!TempProperties

\* The cells of a vehicle that is new.
LEMMA FirstCells ==
  ASSUME NEW view \in {Twin!DemoCells, Twin!NewCells}
  PROVE  DOMAIN view = Cells /\ \A c \in WritableCells : view[c] \in WritableValues
<1>1. DOMAIN view = Cells
  BY SameCells DEF Twin!DemoCells, Twin!NewCells
<1>2. ASSUME NEW c \in WritableCells
      PROVE  view[c] \in WritableValues
  <2>1. c \in Cells /\ c[1] \in WritableProperties
    BY DEF WritableCells
  <2>2. c[1] \notin {"BATTERY_SOC", "RANGE_KM"}
    BY <2>1 DEF WritableProperties, ZonedProperties, TempProperties, GlobalProperties
  <2>3. view[c] = Twin!DemoCells[c]
    BY <2>1, <2>2, SameCells DEF Twin!NewCells
  <2>4. Twin!DemoCells[c] \in WritableValues
    BY <2>1, <2>2, SameCells
    DEF Twin!DemoCells, Twin!TempProperties, WritableValues, Doors, Gears, Lights, Charges,
        Twin!Float, Twin!Integer, Twin!Text
  <2> QED BY <2>3, <2>4
<1> QED BY <1>1, <1>2

LEMMA OneMore ==
  ASSUME NEW h \in Seq(ChangeType), NEW e \in ChangeType, Numbered(h), e.version = Len(h) + 1
  PROVE  /\ Append(h, e) \in Seq(ChangeType) /\ Len(Append(h, e)) = Len(h) + 1
         /\ Numbered(Append(h, e))
<1> DEFINE g == Append(h, e)
<1>1. /\ g \in Seq(ChangeType) /\ Len(g) = Len(h) + 1 /\ g[Len(h) + 1] = e /\ Len(h) \in Nat
      /\ \A i \in 1..Len(h) : g[i] = h[i]
  BY AppendProperties
<1> HIDE DEF g
<1>2. Numbered(g)
  BY <1>1 DEF Numbered
<1> QED BY <1>1, <1>2 DEF g

\* The change that a set makes.
ChangeOf(s, o, view, n) ==
  [by |-> s, cell |-> o.cell, old |-> view[o.cell], new |-> o.value, version |-> n + 1]

LEMMA SetMakes ==
  ASSUME Shapes, TwinFits, NEW s \in Sessions, Twin!Set(s)
  PROVE  LET v == op[s].veh
             e == ChangeOf(s, op[s], cells[v], version[v])
             next == [cells[v] EXCEPT ![op[s].cell] = op[s].value]
         IN  /\ op[s] \in Settings /\ v \in Vehicles /\ life[v] = "live"
             /\ version[v] = op[s].expected /\ Len(history[v]) = version[v]
             /\ e \in ChangeType
             /\ life' = life /\ cells' = [cells EXCEPT ![v] = next]
             /\ version' = [version EXCEPT ![v] = version[v] + 1]
             /\ history' = [history EXCEPT ![v] = Append(history[v], e)]
             /\ \E o \in {Twin!Answer("ok", version[v] + 1, next),
                         Twin!Answer("storage", 0, Twin!NoView)} : op' = [op EXCEPT ![s] = o]
             /\ RegisterFits("live", next, version[v] + 1, Append(history[v], e))
<1> DEFINE v == op[s].veh
           e == ChangeOf(s, op[s], cells[v], version[v])
           next == [cells[v] EXCEPT ![op[s].cell] = op[s].value]
           h == history[v]
<1>1. op[s] \in Settings
  BY DEF TwinFits, Asked, Done, Twin!Set, Twin!Idle, Removals
<1>2. v \in Vehicles /\ op[s].cell \in WritableCells /\ op[s].value \in WritableValues
  BY <1>1 DEF Settings
<1>3. RegisterFits(life[v], cells[v], version[v], h)
  BY <1>2 DEF TwinFits
<1>4. /\ life[v] = "live" /\ version[v] = op[s].expected /\ version[v] < MaxVersion
      /\ life' = life /\ cells' = [cells EXCEPT ![v] = next]
      /\ version' = [version EXCEPT ![v] = version[v] + 1]
      /\ history' = [history EXCEPT ![v] = Append(h, e)]
      /\ \E o \in {Twin!Answer("ok", version[v] + 1, next),
                  Twin!Answer("storage", 0, Twin!NoView)} : op' = [op EXCEPT ![s] = o]
  BY DEF Twin!Set, Twin!Tell, ChangeOf
<1>5. /\ version[v] \in 0..MaxVersion /\ DOMAIN cells[v] = Cells /\ h \in Seq(ChangeType)
      /\ \A c \in WritableCells : cells[v][c] \in WritableValues
      /\ Numbered(h) /\ Len(h) = version[v]
  BY <1>3, <1>4 DEF RegisterFits
<1>6. e \in ChangeType /\ e.version = Len(h) + 1
  BY <1>2, <1>5, AgentVersionAssumption DEF ChangeOf, ChangeType
<1>7. RegisterFits("live", next, version[v] + 1, Append(h, e))
  <2>1. DOMAIN next = Cells /\ \A c \in WritableCells : next[c] \in WritableValues
    BY <1>2, <1>5 DEF WritableCells
  <2>2. version[v] + 1 \in 0..MaxVersion
    BY <1>4, <1>5, AgentVersionAssumption
  <2>3. Append(h, e) \in Seq(ChangeType) /\ Len(Append(h, e)) = version[v] + 1
        /\ Numbered(Append(h, e))
    <3> HIDE DEF e, h
    <3> QED BY <1>5, <1>6, OneMore
  <2> HIDE DEF e, next, h
  <2> QED BY <2>1, <2>2, <2>3 DEF RegisterFits
<1> QED BY <1>1, <1>2, <1>4, <1>5, <1>6, <1>7

\* A twin's step for session s, seen by all others.
ForOthers(s) ==
  /\ \A q \in Sessions \ {s} : op'[q] = op[q]
  /\ \A a, v : a # s /\ v \in Vehicles =>
       Meanwhile(a, life[v], cells[v], history[v], life'[v], cells'[v], history'[v])

LEMMA StillRegisters ==
  ASSUME Shapes, TwinFits, NEW s \in Sessions, UNCHANGED <<life, cells, version, history>>,
         NEW o, op' = [op EXCEPT ![s] = o], Asked(o)
  PROVE  Shapes' /\ TwinFits' /\ ForOthers(s)
<1>1. Shapes' /\ op'[s] = o /\ \A q \in Sessions \ {s} : op'[q] = op[q]
  BY DEF Shapes
<1>2. TwinFits'
  BY <1>1 DEF TwinFits
<1>3. ForOthers(s)
  BY <1>1 DEF ForOthers, Meanwhile
<1> QED BY <1>1, <1>2, <1>3

LEMMA AnswerDone ==
  \A code, view : \A n \in Nat :
    Done(Twin!Answer(code, n, view)) /\ Twin!Answer(code, n, view).st = "done"
BY DEF Twin!Answer, Done

LEMMA TwinMoves ==
  ASSUME Shapes, TwinFits, NEW s \in Sessions, TwinAnswers(s)
  PROVE  Shapes' /\ TwinFits' /\ ForOthers(s)
<1> DEFINE v == op[s].veh
<1>1. CASE Twin!Set(s)
  <2> DEFINE e == ChangeOf(s, op[s], cells[v], version[v])
             next == [cells[v] EXCEPT ![op[s].cell] = op[s].value]
  <2>1. /\ v \in Vehicles /\ life[v] = "live" /\ e \in ChangeType
        /\ life' = life /\ cells' = [cells EXCEPT ![v] = next]
        /\ version' = [version EXCEPT ![v] = version[v] + 1]
        /\ history' = [history EXCEPT ![v] = Append(history[v], e)]
        /\ \E o \in {Twin!Answer("ok", version[v] + 1, next),
                    Twin!Answer("storage", 0, Twin!NoView)} : op' = [op EXCEPT ![s] = o]
        /\ RegisterFits("live", next, version[v] + 1, Append(history[v], e))
    BY <1>1, SetMakes
  <2>2. e.by = s /\ version[v] + 1 \in Nat
    BY <2>1, AgentVersionAssumption DEF ChangeOf, TwinFits, RegisterFits
  <2> HIDE DEF e, next, v
  <2>3. PICK o : op' = [op EXCEPT ![s] = o] /\ Done(o)
    <3>1. PICK o \in {Twin!Answer("ok", version[v] + 1, next),
                      Twin!Answer("storage", 0, Twin!NoView)} : op' = [op EXCEPT ![s] = o]
      BY <2>1
    <3>2. Done(o)
      BY <2>2, <3>1, AnswerDone
    <3> QED BY <3>1, <3>2
  <2>4. Shapes' /\ op'[s] = o /\ \A q \in Sessions \ {s} : op'[q] = op[q]
    BY <2>1, <2>3 DEF Shapes
  <2>5. /\ life'[v] = "live" /\ cells'[v] = next /\ version'[v] = version[v] + 1
        /\ history'[v] = Append(history[v], e)
        /\ \A w \in Vehicles \ {v} : /\ life'[w] = life[w] /\ cells'[w] = cells[w]
                                    /\ version'[w] = version[w] /\ history'[w] = history[w]
    BY <2>1 DEF Shapes
  <2>6. TwinFits'
    <3>1. \A w \in Vehicles : RegisterFits(life[w], cells[w], version[w], history[w])'
      BY <2>1, <2>5 DEF TwinFits
    <3>2. \A q \in Sessions : Asked(op[q])'
      BY <2>3, <2>4 DEF TwinFits, Asked
    <3> QED BY <3>1, <3>2 DEF TwinFits
  <2>7. ForOthers(s)
    BY <2>1, <2>2, <2>4, <2>5 DEF ForOthers, Meanwhile
  <2> QED BY <2>4, <2>6, <2>7
<1>2. CASE Twin!Remove(s)
  <2>1. v \in Vehicles
    BY <1>2 DEF TwinFits, Asked, Done, Twin!Remove, Twin!Idle, Settings, Removals
  <2>2. PICK o : op' = [op EXCEPT ![s] = o] /\ Done(o)
    BY <1>2, AnswerDone DEF Twin!Remove, Twin!Tell
  <2>3. /\ life[v] = "live" /\ life' = [life EXCEPT ![v] = "removed"]
        /\ history' = [history EXCEPT ![v] = <<>>] /\ UNCHANGED <<cells, version>>
    BY <1>2 DEF Twin!Remove
  <2> HIDE DEF v
  <2>4. Shapes' /\ op'[s] = o /\ \A q \in Sessions \ {s} : op'[q] = op[q]
    BY <2>2, <2>3 DEF Shapes
  <2>5. /\ life'[v] = "removed" /\ history'[v] = <<>>
        /\ \A w \in Vehicles \ {v} : life'[w] = life[w] /\ history'[w] = history[w]
    BY <2>1, <2>3 DEF Shapes
  <2>6. TwinFits'
    <3>1. RegisterFits("removed", cells[v], version[v], <<>>)
      BY <2>1 DEF TwinFits, RegisterFits, Numbered
    <3>2. \A w \in Vehicles : RegisterFits(life[w], cells[w], version[w], history[w])'
      BY <2>3, <2>5, <3>1 DEF TwinFits
    <3>3. \A q \in Sessions : Asked(op[q])'
      BY <2>2, <2>4 DEF TwinFits, Asked
    <3> QED BY <3>2, <3>3 DEF TwinFits
  <2>7. ForOthers(s)
    BY <2>3, <2>4, <2>5 DEF ForOthers, Meanwhile
  <2> QED BY <2>4, <2>6, <2>7
<1>3. CASE Twin!Conflict(s) \/ Twin!NotFound(s) \/ Twin!Fail(s)
  <2>1. UNCHANGED <<life, cells, version, history>>
    BY <1>3 DEF Twin!Conflict, Twin!NotFound, Twin!Fail
  <2>2. PICK o : op' = [op EXCEPT ![s] = o] /\ Done(o)
    <3>1. Twin!Conflict(s) => version[v] \in Nat
      BY AgentVersionAssumption
      DEF Twin!Conflict, TwinFits, Asked, Done, Twin!Idle, Settings, Removals, RegisterFits
    <3> QED BY <1>3, <3>1, AnswerDone DEF Twin!Conflict, Twin!NotFound, Twin!Fail, Twin!Tell
  <2> QED BY <2>1, <2>2, StillRegisters DEF Asked
<1> QED BY <1>1, <1>2, <1>3 DEF TwinAnswers

LEMMA CreateMoves ==
  ASSUME Shapes, TwinFits, NEW v \in Vehicles, Twin!Create(v)
  PROVE  /\ Shapes' /\ TwinFits' /\ op' = op
         /\ \A a : \A w \in Vehicles :
              Meanwhile(a, life[w], cells[w], history[w], life'[w], cells'[w], history'[w])
<1>1. /\ life[v] = "unborn" /\ life' = [life EXCEPT ![v] = "live"]
      /\ UNCHANGED <<cells, version, history, op>>
  BY DEF Twin!Create
<1>2. Shapes' /\ life'[v] = "live" /\ \A w \in Vehicles \ {v} : life'[w] = life[w]
  BY <1>1 DEF Shapes
<1>3. RegisterFits("live", cells[v], version[v], history[v])
  BY <1>1 DEF TwinFits, RegisterFits
<1>4. TwinFits'
  BY <1>1, <1>2, <1>3 DEF TwinFits
<1> QED BY <1>1, <1>2, <1>4 DEF Meanwhile

--------------------------------------------------------------------------------
LEMMA OtherChats ==
  ASSUME AgentInv, NEW a \in Agents,
         LET v == said[a].veh
         IN  Meanwhile(a, life[v], cells[v], history[v], life'[v], cells'[v], history'[v]),
         op'[a] = op[a], node'[a] = node[a], said'[a] = said[a], job'[a] = job[a],
         trace'[a] = trace[a]
  PROVE  Chat(a)'
<1> DEFINE v == said[a].veh
<1>1. /\ said[a] = [veh |-> v, text |-> said[a].text]
      /\ ChatFits(a, node[a], v, said[a].text, job[a], trace[a], op[a],
                  life[v], cells[v], history[v])
  BY DEF AgentInv, Chat
<1>2. v \in Vehicles
  BY <1>1 DEF ChatFits
<1>3. history[v] \in Seq(ChangeType)
  BY <1>2 DEF AgentInv, TwinFits, RegisterFits
<1>4. ChatFits(a, node[a], v, said[a].text, job[a], trace[a], op[a],
               life'[v], cells'[v], history'[v])
  BY <1>1, <1>3, ChatKept
<1> QED BY <1>1, <1>4 DEF Chat

\* Command c is carried out by a as change e, and o tells so.
Put(view, c) == [view EXCEPT ![CellOf(c)] = Stored(c)]
CarriedOut(a, c, e) ==
  e \in ChangeType /\ e.by = a /\ e.cell = CellOf(c) /\ e.new = Stored(c)
Tells(o, n, view) == o.st = "done" /\ (o.code = "ok" => o.version = n /\ o.view = view)

LEMMA OwnChange ==
  ASSUME NEW h \in Seq(ChangeType), NEW a, NEW n, NEW j, NEW t,
         NEW o, NEW view, Knows(h, view, a, n, j, t, o), JobFits(j), o.st # "done",
         Len(h) = j.current.version, DOMAIN view = Cells, GoodCommand(NextCommand(j)),
         NEW e, CarriedOut(a, NextCommand(j), e),
         NEW o2, Tells(o2, Len(h) + 1, Put(view, NextCommand(j)))
  PROVE  Knows(Append(h, e), Put(view, NextCommand(j)), a, n, j, t, o2)
<1> DEFINE g == Append(h, e)
           c == NextCommand(j)
           next == Put(view, c)
<1>0. /\ e \in ChangeType /\ e.by = a /\ e.cell = CellOf(c) /\ e.new = Stored(c)
      /\ o2.st = "done" /\ (o2.code = "ok" => o2.version = Len(h) + 1 /\ o2.view = next)
      /\ next = [view EXCEPT ![CellOf(c)] = Stored(c)] /\ GoodCommand(c)
  BY DEF CarriedOut, Tells, Put
<1>1. Len(g) = Len(h) + 1 /\ (\A i \in 1..Len(h) : g[i] = h[i]) /\ g[Len(h) + 1] = e
      /\ Len(h) \in Nat
  BY <1>0, AppendProperties
<1>2. j.ctx.version \in Nat /\ j.current.version \in Nat
  BY DEF JobFits
<1>3. \A m, d : Did(h, a, m, d) => Did(g, a, m, d)
  BY <1>0, DidKept
<1> HIDE DEF g, next
<1>4. Saw(h, view, a, j) /\ Recorded(h, a, j, t)
  BY DEF Knows
<1>5. Saw(g, next, a, j)
  <2>1. /\ j.ctx.version <= j.current.version /\ j.current.version <= Len(g)
        /\ Len(g) # j.current.version /\ Steady(j.ctx.cells, j.current.cells)
    BY <1>1, <1>2, <1>4 DEF Saw
  <2>2. ASSUME NEW k \in (j.ctx.version + 1)..j.current.version
        PROVE  g[k].by = a
    <3>1. k \in 1..Len(h) /\ h[k].by = a
      BY <1>1, <1>2, <1>4 DEF Saw
    <3> QED BY <1>1, <3>1
  <2> QED BY <2>1, <2>2 DEF Saw
<1>6. Steady(j.ctx.cells, next)
  <2>1. view = j.current.cells /\ Steady(j.ctx.cells, view)
    BY <1>4 DEF Saw
  <2>2. CellOf(c) \notin {<<"GEAR", "global">>, <<"VEHICLE_SPEED", "global">>}
    BY <1>0 DEF GoodCommand, CellOf, WritableCells, WritableProperties, ZonedProperties,
       TempProperties, GlobalProperties
  <2>3. \A d \in Cells : d # CellOf(c) => next[d] = view[d]
    BY <1>0
  <2>4. {<<"GEAR", "global">>, <<"VEHICLE_SPEED", "global">>} \subseteq Cells
    BY DEF Cells, ReadOnlyProperties, GlobalProperties
  <2> QED BY <2>1, <2>2, <2>3, <2>4 DEF Steady
<1>7. Told(g, next, a, j, o2)
  BY <1>0, <1>1, <1>2, <1>6 DEF Told, Did
<1>8. Recorded(g, a, j, t)
  BY <1>3, <1>4 DEF Recorded
<1>9. ASSUME OnlyThose(h, a, j, o)
      PROVE  OnlyThose(g, a, j, o2)
  <2>1. \A i \in Approved(j) :
          i <= Len(j.outcomes) => Did(g, a, j.ctx.version + UpTo(Approved(j), i), j.commands[i])
    BY <1>3, <1>9 DEF OnlyThose
  <2>2. o2.code = "ok" => NoMore(g, a, o2.version)
    BY <1>0, <1>1 DEF NoMore
  <2> QED BY <1>0, <1>9, <2>1, <2>2 DEF OnlyThose
<1> QED BY <1>5, <1>7, <1>8, <1>9 DEF Knows, g, next

LEMMA NoEffect ==
  ASSUME NEW h, NEW a, NEW n, NEW j, NEW t, NEW o, NEW view, Knows(h, view, a, n, j, t, o),
         NEW o2, o2.st = "done", o2.code # "ok"
  PROVE  Knows(h, view, a, n, j, t, o2)
BY DEF Knows, Told, OnlyThose

LEMMA OwnAnswer ==
  ASSUME AgentInv, NEW a \in Agents, TwinAnswers(a)
  PROVE  Chat(a)'
<1> DEFINE v == said[a].veh
           j == job[a]
           c == NextCommand(j)
           h == history[v]
<1>1. /\ said[a] = [veh |-> v, text |-> said[a].text]
      /\ ChatFits(a, node[a], v, said[a].text, j, trace[a], op[a], life[v], cells[v], h)
      /\ a \in Sessions /\ UNCHANGED agentVars
  BY AgentsAssumption DEF AgentInv, Chat, TwinAnswers
<1>2. /\ v \in Vehicles /\ JobFits(j) /\ Stage(node[a], j, trace[a])
      /\ CallFits(node[a], v, j, op[a])
  BY <1>1 DEF ChatFits
<1>3. op[a].st \in {"setting", "removing"}
  BY DEF TwinAnswers, Twin!Set, Twin!Remove, Twin!Conflict, Twin!NotFound, Twin!Fail
<1>4. /\ op[a] = CallOf(v, j) /\ node[a] = "execute_tools"
      /\ Len(j.outcomes) + 1 \in 1..Len(j.commands)
      /\ j.gate[Len(j.outcomes) + 1] = "APPROVED"
  BY <1>2, <1>3 DEF CallFits, Twin!Idle
<1>5. /\ op[a].st = "setting" /\ op[a].veh = v /\ op[a].cell = CellOf(c)
      /\ op[a].value = Stored(c) /\ op[a].expected = j.current.version
  BY <1>4 DEF CallOf
<1>6. Loaded(j) /\ GoodCommand(c)
  BY <1>2, <1>4 DEF Stage, JobFits, GoodCommands, NextCommand
<1>7. ASSUME NEW o, o.st = "done", op' = [op EXCEPT ![a] = o],
             life' = life,
             life[v] = "live" => Knows(history'[v], cells'[v], a, node[a], j, trace[a], o)
      PROVE  Chat(a)'
  <2>1. op'[a] = o
    BY <1>1, <1>7 DEF AgentInv, Shapes
  <2>2. CallFits(node[a], v, j, o)
    BY <1>4, <1>7 DEF CallFits
  <2>3. ChatFits(a, node[a], v, said[a].text, j, trace[a], o, life[v], cells'[v], history'[v])
    BY <1>1, <1>7, <2>2 DEF ChatFits
  <2> QED BY <1>1, <1>7, <2>1, <2>3 DEF Chat, agentVars
<1>8. CASE Twin!Set(a)
  <2> DEFINE e == ChangeOf(a, op[a], cells[v], version[v])
             next == Put(cells[v], c)
  <2>1. /\ life[v] = "live" /\ version[v] = j.current.version /\ Len(h) = version[v]
        /\ e \in ChangeType
        /\ life' = life /\ cells' = [cells EXCEPT ![v] = next]
        /\ history' = [history EXCEPT ![v] = Append(h, e)]
        /\ \E o \in {Twin!Answer("ok", version[v] + 1, next),
                    Twin!Answer("storage", 0, Twin!NoView)} : op' = [op EXCEPT ![a] = o]
    BY <1>1, <1>5, <1>8, SetMakes DEF AgentInv, Put
  <2>2. CarriedOut(a, c, e)
    BY <1>5, <2>1 DEF ChangeOf, CarriedOut
  <2>3. cells'[v] = next /\ history'[v] = Append(h, e)
    BY <1>2, <2>1 DEF AgentInv, Shapes
  <2>4. h \in Seq(ChangeType) /\ DOMAIN cells[v] = Cells
    BY <1>2 DEF AgentInv, TwinFits, RegisterFits
  <2>5. Knows(h, cells[v], a, node[a], j, trace[a], op[a]) /\ op[a].st # "done"
    BY <1>1, <1>5, <1>6, <2>1 DEF ChatFits
  <2>6. PICK o \in {Twin!Answer("ok", version[v] + 1, next),
                    Twin!Answer("storage", 0, Twin!NoView)} : op' = [op EXCEPT ![a] = o]
    BY <2>1
  <2>7. o.st = "done" /\ Tells(o, Len(h) + 1, next)
    BY <2>1, <2>6 DEF Twin!Answer, Tells
  <2>8. Knows(Append(h, e), next, a, node[a], j, trace[a], o)
    <3>1. Len(h) = j.current.version
      BY <2>1
    <3> HIDE DEF e, h, j
    <3> QED BY <1>2, <1>6, <2>2, <2>4, <2>5, <2>7, <3>1, OwnChange
  <2> HIDE DEF next
  <2> QED BY <1>7, <2>1, <2>3, <2>6, <2>7, <2>8
<1>9. CASE Twin!Conflict(a) \/ Twin!NotFound(a) \/ Twin!Fail(a)
  <2>1. UNCHANGED <<life, cells, version, history>>
    BY <1>9 DEF Twin!Conflict, Twin!NotFound, Twin!Fail
  <2>2. PICK o : op' = [op EXCEPT ![a] = o] /\ o.st = "done" /\ o.code # "ok"
    <3>1. \A code, m, view :
            Twin!Answer(code, m, view).st = "done" /\ Twin!Answer(code, m, view).code = code
      BY DEF Twin!Answer
    <3> QED BY <1>9, <3>1 DEF Twin!Conflict, Twin!NotFound, Twin!Fail, Twin!Tell
  <2>3. life[v] = "live" => Knows(h, cells[v], a, node[a], j, trace[a], op[a])
    BY <1>1, <1>6 DEF ChatFits
  <2>4. life[v] = "live" => Knows(history'[v], cells'[v], a, node[a], j, trace[a], o)
    BY <2>1, <2>2, <2>3, NoEffect
  <2> QED BY <1>7, <2>1, <2>2, <2>4
<1> QED BY <1>5, <1>8, <1>9 DEF TwinAnswers, Twin!Remove

--------------------------------------------------------------------------------
\* A chat's own step: the vehicles stay as they are, and nobody else moves.
Only(a, f, g) == g = [b \in Agents |-> g[b]] /\ \A b \in Agents \ {a} : g[b] = f[b]
Moves(a, o2) ==
  /\ op' = [op EXCEPT ![a] = o2] \/ (op' = op /\ o2 = op[a])
  /\ UNCHANGED <<life, cells, version, history>>
  /\ Only(a, node, node') /\ Only(a, said, said') /\ Only(a, job, job') /\ Only(a, trace, trace')
Arrives(a, o2) ==
  LET v == said'[a].veh
  IN  /\ said'[a] = [veh |-> v, text |-> said'[a].text]
      /\ ChatFits(a, node'[a], v, said'[a].text, job'[a], trace'[a], o2,
                  life[v], cells[v], history[v])

LEMMA OwnMove ==
  ASSUME AgentInv, NEW a \in Agents, NEW o2, Asked(o2), Moves(a, o2), Arrives(a, o2)
  PROVE  AgentInv'
<1>1. a \in Sessions /\ UNCHANGED <<life, cells, version, history>>
  BY AgentsAssumption DEF Moves
<1>2. Shapes' /\ op'[a] = o2 /\ \A s \in Sessions \ {a} : op'[s] = op[s]
  BY <1>1 DEF AgentInv, Shapes, Moves
<1>3. TwinFits'
  BY <1>1, <1>2 DEF AgentInv, TwinFits
<1>4. Chat(a)'
  BY <1>1, <1>2 DEF Arrives, Chat
<1>5. ASSUME NEW b \in Agents, b # a
      PROVE  Chat(b)'
  <2>1. op'[b] = op[b]
    BY <1>2, <1>5, AgentsAssumption
  <2>2. /\ node'[b] = node[b] /\ said'[b] = said[b] /\ job'[b] = job[b] /\ trace'[b] = trace[b]
    BY <1>5 DEF Moves, Only
  <2> QED BY <1>1, <1>5, <2>1, <2>2, OtherChats DEF Meanwhile
<1>6. ChatShapes'
  BY DEF Moves, Only, ChatShapes
<1> QED BY <1>2, <1>3, <1>4, <1>5, <1>6 DEF AgentInv

\* Where a chat's own step starts.
LEMMA Now ==
  ASSUME AgentInv, NEW a \in Agents
  PROVE  LET v == said[a].veh
         IN  /\ said[a] = [veh |-> v, text |-> said[a].text] /\ v \in Vehicles
             /\ ChatFits(a, node[a], v, said[a].text, job[a], trace[a], op[a],
                         life[v], cells[v], history[v])
             /\ RegisterFits(life[v], cells[v], version[v], history[v])
             /\ Asked(op[a]) /\ a \in Sessions
             /\ op = [op EXCEPT ![a] = op[a]]
BY AgentsAssumption DEF AgentInv, Chat, ChatFits, TwinFits, Shapes

LEMMA IdleIsIdle == Twin!Idle.st = "idle" /\ Asked(Twin!Idle)
BY DEF Twin!Idle, Asked

--------------------------------------------------------------------------------
\* What a chat knows depends on its plan, its outcomes and its tool calls only.
LEMMA SamePlan ==
  ASSUME NEW h, NEW view, NEW a, NEW n, NEW j, NEW t, NEW o, Knows(h, view, a, n, j, t, o),
         NEW n2, AtWork(n2) => AtWork(n),
         NEW j2, j2.ctx = j.ctx, j2.current = j.current, j2.commands = j.commands,
         j2.gate = j.gate, j2.outcomes = j.outcomes,
         NEW t2, t2.tools = t.tools
  PROVE  Knows(h, view, a, n2, j2, t2, o)
BY DEF Knows, Saw, Told, Recorded, OnlyThose, NoFailed, Approved, NextCommand

\* Before the first outcome it has nothing to do with the plan at all.
LEMMA NoOutcomeYet ==
  ASSUME NEW h, NEW view, NEW a, NEW n, NEW j, NEW t, NEW o, Knows(h, view, a, n, j, t, o),
         AtWork(n), o.st # "done", j.outcomes = <<>>, JobFits(j),
         NEW n2, NEW j2, j2.ctx = j.ctx, j2.current = j.current, j2.outcomes = <<>>, JobFits(j2),
         NEW t2, t2.tools = t.tools
  PROVE  Knows(h, view, a, n2, j2, t2, o)
<1>1. Len(j.outcomes) = 0 /\ Len(j2.outcomes) = 0
  OBVIOUS
<1>2. ASSUME NEW g, g \in Seq(SafetyCodes)
      PROVE  UpTo({i \in 1..Len(g) : g[i] = "APPROVED"}, 0) = 0
  <2>1. Len(g) \in Nat
    BY <1>2
  <2> QED BY <2>1, UpToStep
<1>3. UpTo(Approved(j), 0) = 0 /\ UpTo(Approved(j2), 0) = 0
  BY <1>2 DEF JobFits, Approved
<1>4. OnlyThose(h, a, j, o)
  BY <1>1 DEF Knows, NoFailed
<1>5. \A i \in Approved(j2) : ~(i <= 0)
  BY DEF Approved, JobFits
<1>6. OnlyThose(h, a, j2, o)
  BY <1>1, <1>3, <1>4, <1>5 DEF OnlyThose
<1> QED BY <1>6 DEF Knows, Saw, Told, Recorded

--------------------------------------------------------------------------------
LEMMA OnlyOne ==
  ASSUME ChatShapes, NEW a \in Agents
  PROVE  /\ \A x : node' = [node EXCEPT ![a] = x] => node'[a] = x /\ Only(a, node, node')
         /\ \A x : said' = [said EXCEPT ![a] = x] => said'[a] = x /\ Only(a, said, said')
         /\ \A x : job' = [job EXCEPT ![a] = x] => job'[a] = x /\ Only(a, job, job')
         /\ \A x : trace' = [trace EXCEPT ![a] = x] => trace'[a] = x /\ Only(a, trace, trace')
         /\ node' = node => Only(a, node, node')
         /\ said' = said => Only(a, said, said')
         /\ job' = job => Only(a, job, job')
         /\ trace' = trace => Only(a, trace, trace')
BY DEF ChatShapes, Only

\* A node that is visited leaves its step behind, and no more.
LEMMA Visited ==
  ASSUME AgentInv, NEW a \in Agents, NEW n, Visit(a, n)
  PROVE  /\ node'[a] = n /\ Only(a, node, node') /\ Only(a, trace, trace')
         /\ TraceFits(trace'[a])
         /\ trace'[a].run = trace[a].run /\ trace'[a].tools = trace[a].tools
<1> DEFINE t2 == [trace[a] EXCEPT !.steps = Append(trace[a].steps, node[a])]
<1>1. TraceFits(trace[a])
  BY Now DEF ChatFits
<1>2. node' = [node EXCEPT ![a] = n] /\ trace' = [trace EXCEPT ![a] = t2]
  BY DEF Visit, Enter, WithStep
<1>3. TraceFits(t2) /\ t2.run = trace[a].run /\ t2.tools = trace[a].tools
  BY <1>1 DEF TraceFits, TraceFields
<1> HIDE DEF t2
<1> QED BY <1>2, <1>3, OnlyOne DEF AgentInv

LEMMA FreshJob == JobFits(NewJob) /\ ~Loaded(NewJob) /\ NothingPlanned(NewJob)
BY DEF JobFits, JobFields, NewJob, Loaded, NothingPlanned, NoState

LEMMA SendChatKeeps ==
  ASSUME AgentInv, NEW a \in Agents, SendChat(a)
  PROVE  AgentInv'
<1>1. PICK v \in Vehicles, u \in Utterances :
        life[v] = "live" /\ said' = [said EXCEPT ![a] = [veh |-> v, text |-> u]]
  BY DEF SendChat
<1>2. op[a] = Twin!Idle
  BY Now DEF ChatFits, CallFits, SendChat, Rest
<1>3. PICK n \in {"load_context", "error"}, t \in {[NoTrace EXCEPT !.run = "running"], NoTrace} :
        node' = [node EXCEPT ![a] = n] /\ trace' = [trace EXCEPT ![a] = t]
  BY DEF SendChat, Enter
<1>4. /\ said'[a] = [veh |-> v, text |-> u] /\ job'[a] = NewJob /\ node'[a] = n /\ trace'[a] = t
      /\ Moves(a, Twin!Idle)
  BY <1>1, <1>2, <1>3, OnlyOne DEF SendChat, twinVars, AgentInv, Moves
<1>5. TraceFits(t) /\ t.tools = <<>> /\ t.run \notin {"success", "blocked"}
  <2>1. TraceFits(NoTrace) /\ NoTrace.tools = <<>> /\ NoTrace.run = "none"
    BY DEF TraceFits, TraceFields, NoTrace
  <2> QED BY <2>1 DEF TraceFits, TraceFields
<1>6. ChatFits(a, n, v, u, NewJob, t, Twin!Idle, life[v], cells[v], history[v])
  BY <1>5, FreshJob DEF ChatFits, Stage, CallFits, Nodes, Rest, GraphNodes
<1>7. Arrives(a, Twin!Idle)
  BY <1>4, <1>6 DEF Arrives
<1> QED BY <1>4, <1>7, OwnMove, IdleIsIdle

LEMMA LoadContextKeeps ==
  ASSUME AgentInv, NEW a \in Agents, LoadContext(a)
  PROVE  AgentInv'
<1> DEFINE v == said[a].veh
           j == job[a]
           j2 == [j EXCEPT !.ctx = Seen(v), !.current = Seen(v)]
<1>1. /\ said[a] = [veh |-> v, text |-> said[a].text] /\ v \in Vehicles
      /\ ChatFits(a, "load_context", v, said[a].text, j, trace[a], op[a],
                  life[v], cells[v], history[v])
      /\ RegisterFits(life[v], cells[v], version[v], history[v]) /\ Asked(op[a])
  BY Now DEF LoadContext
<1>2. op[a] = Twin!Idle /\ ~Loaded(j) /\ NothingPlanned(j) /\ JobFits(j) /\ TraceFits(trace[a])
      /\ trace[a].tools = <<>> /\ trace[a].run \notin {"success", "blocked"}
  BY <1>1 DEF ChatFits, CallFits, Stage
<1>3. CASE life[v] = "live" /\ job' = [job EXCEPT ![a] = j2] /\ Visit(a, "route_intent")
  <2>1. /\ said'[a] = said[a] /\ job'[a] = j2 /\ Moves(a, op[a]) /\ node'[a] = "route_intent"
        /\ TraceFits(trace'[a])
        /\ trace'[a].run = trace[a].run /\ trace'[a].tools = trace[a].tools
    <3> HIDE DEF j2
    <3> QED BY <1>3, OnlyOne, Visited DEF LoadContext, twinVars, AgentInv, Moves
  <2>2. /\ Len(history[v]) = version[v] /\ version[v] \in Nat /\ DOMAIN cells[v] = Cells
        /\ history[v] \in Seq(ChangeType) /\ Numbered(history[v])
    BY <1>1, <1>3, AgentVersionAssumption DEF RegisterFits
  <2>3. Seen(v).cells = cells[v] /\ Seen(v).version = version[v]
    BY DEF Seen
  <2>4. Seen(v) # NoState
    <3>1. <<"GEAR", "global">> \in Cells
      BY DEF Cells, GlobalProperties
    <3>2. NoState.cells = <<>> /\ DOMAIN <<>> = {}
      BY DEF NoState
    <3> QED BY <2>2, <2>3, <3>1, <3>2
  <2>5. j2.ctx = Seen(v) /\ j2.current = Seen(v) /\ j2.outcomes = <<>> /\ j2.gate = <<>>
        /\ j2.commands = <<>> /\ JobFits(j2)
    <3> HIDE DEF j, v
    <3> QED BY <1>2, <2>2, <2>3 DEF JobFits, JobFields, NothingPlanned
  <2> HIDE DEF j2
  <2>6. Knows(history[v], cells[v], a, "route_intent", j2, trace'[a], op[a])
    <3>1. Saw(history[v], cells[v], a, j2)
      BY <2>2, <2>3, <2>5 DEF Saw, Steady
    <3>2. Told(history[v], cells[v], a, j2, op[a])
      BY <1>2, IdleIsIdle DEF Told
    <3>3. Recorded(history[v], a, j2, trace'[a])
      BY <1>2, <2>1 DEF Recorded
    <3>4. OnlyThose(history[v], a, j2, op[a])
      <4>1. Approved(j2) = {}
        BY <2>5 DEF Approved
      <4>2. UpTo(Approved(j2), 0) = 0
        BY <4>1, UpToStep
      <4>3. NoMore(history[v], a, version[v])
        BY <2>2 DEF NoMore
      <4> QED BY <1>2, <2>2, <2>3, <2>5, <4>1, <4>2, <4>3, IdleIsIdle DEF OnlyThose
    <3> QED BY <3>1, <3>2, <3>3, <3>4 DEF Knows
  <2>7. Stage("route_intent", j2, trace'[a])
    BY <1>2, <2>1, <2>3, <2>4, <2>5
    DEF Stage, Loaded, NothingPlanned, Nodes, GraphNodes
  <2>8. Arrives(a, op[a])
    BY <1>1, <1>2, <1>3, <2>1, <2>5, <2>6, <2>7 DEF Arrives, ChatFits, CallFits
  <2> QED BY <1>1, <2>1, <2>8, OwnMove
<1>4. CASE life[v] # "live" /\ Enter(a, "raising") /\ UNCHANGED <<job, trace>>
  <2>1. /\ said'[a] = said[a] /\ job'[a] = j /\ Moves(a, op[a]) /\ node'[a] = "raising"
        /\ trace'[a] = trace[a]
    BY <1>4, OnlyOne DEF LoadContext, twinVars, AgentInv, Moves, Enter
  <2>2. Stage("raising", j, trace[a])
    BY <1>2 DEF Stage, Nodes
  <2>3. Arrives(a, op[a])
    BY <1>1, <1>2, <2>1, <2>2 DEF Arrives, ChatFits, CallFits
  <2> QED BY <1>1, <2>1, <2>3, OwnMove
<1> QED BY <1>3, <1>4 DEF LoadContext

\* A chat that has loaded the state and has no outcome yet goes on to node n2.
LEMMA Planning ==
  ASSUME NEW a, NEW n, NEW v, NEW u, NEW j, NEW t, NEW o, NEW lf, NEW view, NEW h,
         ChatFits(a, n, v, u, j, t, o, lf, view, h), AtWork(n), n # "execute_tools",
         Loaded(j), j.outcomes = <<>>,
         NEW n2, NEW j2, JobFits(j2), j2.ctx = j.ctx, j2.current = j.current, j2.outcomes = <<>>,
         NEW t2, TraceFits(t2), t2.run = t.run, t2.tools = t.tools, Stage(n2, j2, t2)
  PROVE  ChatFits(a, n2, v, u, j2, t2, o, lf, view, h) /\ Loaded(j2)
<1>1. o = Twin!Idle /\ JobFits(j) /\ Loaded(j2)
  BY DEF ChatFits, CallFits, Loaded
<1>2. lf = "live" => Knows(h, view, a, n2, j2, t2, o)
  BY <1>1, NoOutcomeYet, IdleIsIdle DEF ChatFits
<1> QED BY <1>1, <1>2 DEF ChatFits, CallFits

LEMMA PlanningKeeps ==
  ASSUME AgentInv, NEW a \in Agents, NEW n2, NEW j2,
         AtWork(node[a]), node[a] # "execute_tools", Loaded(job[a]), job[a].outcomes = <<>>,
         job' = [job EXCEPT ![a] = j2], Visit(a, n2), UNCHANGED <<twinVars, said>>,
         JobFits(j2), j2.ctx = job[a].ctx, j2.current = job[a].current, j2.outcomes = <<>>,
         Stage(n2, j2, trace'[a])
  PROVE  AgentInv'
<1>1. /\ said'[a] = said[a] /\ job'[a] = j2 /\ Moves(a, op[a]) /\ node'[a] = n2
      /\ TraceFits(trace'[a])
      /\ trace'[a].run = trace[a].run /\ trace'[a].tools = trace[a].tools
  BY OnlyOne, Visited DEF twinVars, AgentInv, Moves
<1>2. Arrives(a, op[a])
  BY <1>1, Now, Planning DEF Arrives
<1> QED BY <1>1, <1>2, Now, OwnMove

LEMMA RouteIntentKeeps ==
  ASSUME AgentInv, NEW a \in Agents, RouteIntent(a)
  PROVE  AgentInv'
<1> DEFINE j == job[a]
           r == Route(said[a].text)
           j2 == [j EXCEPT !.route = r.route, !.calls = r.calls, !.speed = r.speed]
           n2 == CASE r.route = "rule"         -> "validate_tools"
                   [] r.route = "vehicle_info" -> "compose_response"
                   [] r.route = "model"        -> "model_plan"
<1>1. /\ node[a] = "route_intent" /\ job' = [job EXCEPT ![a] = j2] /\ Visit(a, n2)
      /\ UNCHANGED <<twinVars, said>>
  BY DEF RouteIntent
<1>2. JobFits(j) /\ Loaded(j) /\ NothingPlanned(j) /\ Stage(node[a], j, trace[a])
      /\ said[a].text \in Utterances
  BY <1>1, Now DEF ChatFits, Stage
<1>3. /\ r.route \in {"rule", "vehicle_info", "model"} /\ r.speed \in Nat
      /\ r.route = "rule" => \E k \in 0..4 : DOMAIN r.calls = 1..k
  BY <1>2, RoutePlans
<1> HIDE DEF r
<1>4. /\ JobFits(j2) /\ j2.ctx = j.ctx /\ j2.current = j.current /\ j2.outcomes = <<>>
      /\ j2.commands = <<>> /\ j2.gate = <<>> /\ j2.calls = r.calls
  <2> HIDE DEF j
  <2> QED BY <1>2, <1>3 DEF JobFits, JobFields, NothingPlanned
<1>5. n2 \in {"validate_tools", "compose_response", "model_plan"}
      /\ (n2 = "validate_tools" => r.route = "rule")
  BY <1>3
<1> HIDE DEF j2, n2
<1>6. Stage(n2, j2, trace'[a])
  <2>1. trace'[a].run \notin {"success", "blocked"}
    BY <1>1, <1>2, Visited DEF Stage
  <2>2. Judged(j2)
    BY <1>4 DEF Judged
  <2>3. Loaded(j2)
    BY <1>2, <1>4 DEF Loaded
  <2> QED BY <1>3, <1>4, <1>5, <2>1, <2>2, <2>3 DEF Stage, Nodes, GraphNodes, NothingPlanned
<1>7. AtWork(node[a]) /\ j.outcomes = <<>>
  BY <1>1, <1>2 DEF AtWork, NothingPlanned
<1> QED BY <1>1, <1>2, <1>4, <1>6, <1>7, PlanningKeeps

LEMMA PlanWithModelKeeps ==
  ASSUME AgentInv, NEW a \in Agents, PlanWithModel(a)
  PROVE  AgentInv'
<1> DEFINE j == job[a]
<1>1. PICK plan \in ModelAnswers : job' = [job EXCEPT ![a].calls = plan]
  BY DEF PlanWithModel
<1> DEFINE j2 == [j EXCEPT !.calls = plan]
<1>2. /\ node[a] = "model_plan" /\ job' = [job EXCEPT ![a] = j2] /\ Visit(a, "validate_tools")
      /\ UNCHANGED <<twinVars, said>>
  BY <1>1 DEF PlanWithModel
<1>3. JobFits(j) /\ Loaded(j) /\ NothingPlanned(j) /\ Stage(node[a], j, trace[a])
  BY <1>2, Now DEF ChatFits, Stage
<1>4. \E k \in 0..4 : DOMAIN plan = 1..k
  <2>1. CASE plan = <<>>
    <3>1. DOMAIN plan = 1..0
      BY <2>1
    <3> QED BY <3>1
  <2> QED BY <2>1, PlanAssumption DEF ModelAnswers
<1>5. /\ JobFits(j2) /\ j2.ctx = j.ctx /\ j2.current = j.current /\ j2.outcomes = <<>>
      /\ j2.commands = <<>> /\ j2.gate = <<>> /\ j2.calls = plan
  <2> HIDE DEF j
  <2> QED BY <1>3 DEF JobFits, JobFields, NothingPlanned
<1> HIDE DEF j2
<1>6. Stage("validate_tools", j2, trace'[a])
  <2>1. trace'[a].run \notin {"success", "blocked"}
    BY <1>2, <1>3, Visited DEF Stage
  <2>2. Loaded(j2)
    BY <1>3, <1>5 DEF Loaded
  <2> QED BY <1>4, <1>5, <2>1, <2>2 DEF Stage, Nodes, GraphNodes, NothingPlanned
<1>7. AtWork(node[a]) /\ j.outcomes = <<>>
  BY <1>2, <1>3 DEF AtWork, NothingPlanned
<1> QED BY <1>2, <1>3, <1>5, <1>6, <1>7, PlanningKeeps

LEMMA ValidateToolsKeeps ==
  ASSUME AgentInv, NEW a \in Agents, ValidateTools(a)
  PROVE  AgentInv'
<1> DEFINE j == job[a]
           j2 == [j EXCEPT !.commands = Commands(j.calls)]
<1>1. /\ node[a] = "validate_tools" /\ job' = [job EXCEPT ![a] = j2] /\ Visit(a, "safety_gate")
      /\ UNCHANGED <<twinVars, said>>
  BY DEF ValidateTools
<1>2. JobFits(j) /\ Loaded(j) /\ NothingPlanned(j) /\ Stage(node[a], j, trace[a])
  BY <1>1, Now DEF ChatFits, Stage
<1>3. Commands(j.calls) \in Seq(GoodCommands)
  BY <1>1, <1>2, CommandsGood DEF Stage
<1>4. /\ JobFits(j2) /\ j2.ctx = j.ctx /\ j2.current = j.current /\ j2.outcomes = <<>>
      /\ j2.gate = <<>>
  <2> HIDE DEF j
  <2> QED BY <1>2, <1>3 DEF JobFits, JobFields, NothingPlanned
<1> HIDE DEF j2
<1>5. Stage("safety_gate", j2, trace'[a])
  <2>1. trace'[a].run \notin {"success", "blocked"}
    BY <1>1, <1>2, Visited DEF Stage
  <2>2. Loaded(j2)
    BY <1>2, <1>4 DEF Loaded
  <2> QED BY <1>4, <2>1, <2>2 DEF Stage, Nodes, GraphNodes
<1>6. AtWork(node[a]) /\ j.outcomes = <<>>
  BY <1>1, <1>2 DEF AtWork, NothingPlanned
<1> QED BY <1>1, <1>2, <1>4, <1>5, <1>6, PlanningKeeps

LEMMA SafetyGateKeeps ==
  ASSUME AgentInv, NEW a \in Agents, SafetyGate(a)
  PROVE  AgentInv'
<1> DEFINE j == job[a]
           codes == [i \in DOMAIN j.commands |-> GateCode(j.commands[i], j.ctx, j.speed)]
           j2 == [j EXCEPT !.gate = codes]
<1>1. /\ node[a] = "safety_gate" /\ job' = [job EXCEPT ![a] = j2] /\ Visit(a, "execute_tools")
      /\ UNCHANGED <<twinVars, said>>
  BY DEF SafetyGate
<1>2. JobFits(j) /\ Loaded(j) /\ j.outcomes = <<>> /\ Stage(node[a], j, trace[a])
  BY <1>1, Now DEF ChatFits, Stage
<1>3. j.commands \in Seq(GoodCommands)
  BY <1>2 DEF JobFits
<1>4. \A c, state, observed : GateCode(c, state, observed) \in SafetyCodes
  BY DEF GateCode, Evaluate, SafetyCodes
<1>5. codes \in Seq(SafetyCodes) /\ Len(codes) = Len(j.commands)
      /\ \A i \in 1..Len(codes) : codes[i] = GateCode(j.commands[i], j.ctx, j.speed)
  <2>1. Len(j.commands) \in Nat /\ DOMAIN j.commands = 1..Len(j.commands)
    BY <1>3
  <2>2. codes = [i \in 1..Len(j.commands) |-> GateCode(j.commands[i], j.ctx, j.speed)]
    BY <2>1
  <2> HIDE DEF codes, j
  <2> QED BY <1>4, <2>1, <2>2, SeqDef
<1> HIDE DEF codes
<1>6. /\ JobFits(j2) /\ j2.ctx = j.ctx /\ j2.current = j.current /\ j2.outcomes = <<>>
      /\ j2.gate = codes /\ j2.commands = j.commands /\ j2.speed = j.speed
  <2> HIDE DEF j
  <2> QED BY <1>2, <1>5 DEF JobFits, JobFields
<1> HIDE DEF j2
<1>7. Stage("execute_tools", j2, trace'[a])
  <2>1. trace'[a].run \notin {"success", "blocked"}
    BY <1>1, <1>2, Visited DEF Stage
  <2>2. Loaded(j2)
    BY <1>2, <1>6 DEF Loaded
  <2>3. Judged(j2)
    BY <1>5, <1>6 DEF Judged
  <2> QED BY <1>6, <2>1, <2>2, <2>3 DEF Stage, Nodes, GraphNodes
<1>8. AtWork(node[a])
  BY <1>1 DEF AtWork
<1> QED BY <1>1, <1>2, <1>6, <1>7, <1>8, PlanningKeeps

--------------------------------------------------------------------------------
\* A chat that fails or is cancelled keeps its job; only what is stored of it counts.
LEMMA GivesUp ==
  ASSUME NEW a, NEW n, NEW v, NEW u, NEW j, NEW t, NEW o, NEW lf, NEW view, NEW h,
         ChatFits(a, n, v, u, j, t, o, lf, view, h),
         NEW n2 \in {"raising", "error", "lost"}, NEW t2, TraceFits(t2),
         t2.run \notin {"success", "blocked"}, ~Loaded(j) => t2.tools = <<>>,
         Loaded(j) /\ lf = "live" => Recorded(h, a, j, t2)
  PROVE  ChatFits(a, n2, v, u, j, t2, Twin!Idle, lf, view, h)
<1>1. Stage(n2, j, t2)
  BY DEF ChatFits, Stage, Nodes, Rest
<1>2. ASSUME Loaded(j), lf = "live"
      PROVE  Knows(h, view, a, n2, j, t2, Twin!Idle)
  BY <1>2, IdleIsIdle DEF ChatFits, Knows, Told, AtWork
<1> QED BY <1>1, <1>2 DEF ChatFits, CallFits

LEMMA GivesUpKeeps ==
  ASSUME AgentInv, NEW a \in Agents, NEW n2 \in {"raising", "error", "lost"}, NEW t2,
         node' = [node EXCEPT ![a] = n2], trace' = [trace EXCEPT ![a] = t2],
         UNCHANGED <<life, cells, version, history, said, job>>,
         op' = [op EXCEPT ![a] = Twin!Idle] \/ (op' = op /\ op[a] = Twin!Idle),
         TraceFits(t2), t2.run \notin {"success", "blocked"}, ~Loaded(job[a]) => t2.tools = <<>>,
         Loaded(job[a]) /\ life[said[a].veh] = "live" =>
           Recorded(history[said[a].veh], a, job[a], t2)
  PROVE  AgentInv'
<1>1. /\ said'[a] = said[a] /\ job'[a] = job[a] /\ node'[a] = n2 /\ trace'[a] = t2
      /\ Moves(a, Twin!Idle)
  BY OnlyOne DEF AgentInv, Moves
<1>2. Arrives(a, Twin!Idle)
  BY <1>1, Now, GivesUp DEF Arrives
<1> QED BY <1>1, <1>2, IdleIsIdle, OwnMove

\* What is stored already is in order.
LEMMA StoredSoFar ==
  ASSUME AgentInv, NEW a \in Agents
  PROVE  LET v == said[a].veh
         IN  /\ TraceFits(trace[a]) /\ JobFits(job[a]) /\ Stage(node[a], job[a], trace[a])
             /\ CallFits(node[a], v, job[a], op[a])
             /\ ~Loaded(job[a]) => trace[a].tools = <<>>
             /\ Loaded(job[a]) /\ life[v] = "live" =>
                  Recorded(history[v], a, job[a], trace[a])
             /\ trace = [trace EXCEPT ![a] = trace[a]]
             /\ node[a] # "answered" => trace[a].run \notin {"success", "blocked"}
<1>1. trace = [trace EXCEPT ![a] = trace[a]]
  BY DEF AgentInv, ChatShapes
<1> QED BY <1>1, Now DEF ChatFits, Stage, Knows

LEMMA AtToolMeans ==
  ASSUME NEW a, JobFits(job[a])
  PROVE  /\ AtTool(a) <=>
              node[a] = "execute_tools" /\ Len(job[a].outcomes) + 1 \in 1..Len(job[a].commands)
         /\ job[a].commands[Turn(a)] = NextCommand(job[a])
BY DEF AtTool, Turn, JobFits, NextCommand

LEMMA NoCallThen ==
  ASSUME AgentInv, NEW a \in Agents, ~AtTool(a)
  PROVE  op[a] = Twin!Idle
BY StoredSoFar, AtToolMeans DEF CallFits

LEMMA CancelKeeps ==
  ASSUME AgentInv, NEW a \in Agents, Cancel(a)
  PROVE  AgentInv'
<1>1. node[a] # "answered"
  BY DEF Cancel, Rest
<1>2. node' = [node EXCEPT ![a] = "lost"] /\ trace' = [trace EXCEPT ![a] = trace[a]]
      /\ UNCHANGED <<life, cells, version, history, said, job>>
      /\ op' = [op EXCEPT ![a] = Twin!Idle]
  BY StoredSoFar DEF Cancel, Enter
<1> QED BY <1>1, <1>2, StoredSoFar, GivesUpKeeps

LEMMA HandleErrorKeeps ==
  ASSUME AgentInv, NEW a \in Agents, HandleError(a)
  PROVE  AgentInv'
<1>1. node[a] = "raising" /\ node' = [node EXCEPT ![a] = "error"]
      /\ UNCHANGED <<life, cells, version, history, op, said, job>>
  BY DEF HandleError, Enter, twinVars
<1>2. op[a] = Twin!Idle
  BY <1>1, NoCallThen DEF AtTool
<1>3. PICK t2 \in {[trace[a] EXCEPT !.run = "failed"], trace[a]} :
        trace' = [trace EXCEPT ![a] = t2]
  BY StoredSoFar DEF HandleError
<1>4. TraceFits(t2) /\ t2.tools = trace[a].tools /\ t2.run \notin {"success", "blocked"}
  <2> DEFINE t == trace[a]
  <2>1. TraceFits(t) /\ t.run \notin {"success", "blocked"}
    BY <1>1, StoredSoFar
  <2> HIDE DEF t
  <2>2. TraceFits([t EXCEPT !.run = "failed"]) /\ [t EXCEPT !.run = "failed"].tools = t.tools
        /\ [t EXCEPT !.run = "failed"].run = "failed"
    BY <2>1 DEF TraceFits, TraceFields
  <2> QED BY <1>3, <2>1, <2>2 DEF t
<1>5. Loaded(job[a]) /\ life[said[a].veh] = "live" =>
        Recorded(history[said[a].veh], a, job[a], t2)
  BY <1>4, StoredSoFar DEF Recorded
<1> QED BY <1>1, <1>2, <1>3, <1>4, <1>5, StoredSoFar, GivesUpKeeps

LEMMA StepFailsKeeps ==
  ASSUME AgentInv, NEW a \in Agents, StepFails(a)
  PROVE  AgentInv'
<1>1. node[a] # "answered" /\ node' = [node EXCEPT ![a] = "raising"]
      /\ UNCHANGED <<life, cells, version, history, op, said, job>> /\ op[a] = Twin!Idle
  BY NoCallThen DEF StepFails, Enter, twinVars, GraphNodes
<1>2. PICK t2 \in {[trace[a] EXCEPT !.steps = Append(@, node[a])], trace[a]} :
        trace' = [trace EXCEPT ![a] = t2]
  BY StoredSoFar DEF StepFails, WithStep
<1>3. TraceFits(t2) /\ t2.tools = trace[a].tools /\ t2.run = trace[a].run
  <2> DEFINE t == trace[a]
             x == Append(t.steps, node[a])
  <2>1. TraceFits(t)
    BY StoredSoFar
  <2>2. t2 \in {[t EXCEPT !.steps = x], t}
    BY <1>2
  <2> HIDE DEF t, x
  <2>3. TraceFits([t EXCEPT !.steps = x]) /\ [t EXCEPT !.steps = x].tools = t.tools
        /\ [t EXCEPT !.steps = x].run = t.run
    BY <2>1 DEF TraceFits, TraceFields
  <2> QED BY <2>1, <2>2, <2>3 DEF t
<1>4. Loaded(job[a]) /\ life[said[a].veh] = "live" =>
        Recorded(history[said[a].veh], a, job[a], t2)
  BY <1>3, StoredSoFar DEF Recorded
<1> QED BY <1>1, <1>2, <1>3, <1>4, StoredSoFar, GivesUpKeeps

--------------------------------------------------------------------------------
\* A tool call is stored.
LEMMA RowFits ==
  ASSUME NEW c \in GoodCommands, NEW status \in {"SUCCESS", "FAILED", "BLOCKED"}, NEW n \in Nat,
         NEW row, row = [command |-> c, status |-> status, version |-> n]
  PROVE  row \in OutcomeType /\ row.command = c /\ row.status = status /\ row.version = n
BY DEF OutcomeType, GoodCommands

LEMMA OneRowMore ==
  ASSUME NEW t, TraceFits(t), NEW row \in OutcomeType, NEW t2,
         t2 = [t EXCEPT !.tools = Append(t.tools, row)]
  PROVE  /\ TraceFits(t2) /\ t2.run = t.run
         /\ \A h, a, j :
              /\ Recorded(h, a, j, t)
              /\ row.status = "SUCCESS" =>
                   row.version > j.ctx.version /\ Did(h, a, row.version, row.command)
              => Recorded(h, a, j, t2)
<1> DEFINE w == t.tools
           w2 == Append(w, row)
<1>1. w \in Seq(OutcomeType)
  BY DEF TraceFits
<1>2. /\ w2 \in Seq(OutcomeType) /\ Len(w2) = Len(w) + 1 /\ w2[Len(w) + 1] = row
      /\ Len(w) \in Nat /\ \A i \in 1..Len(w) : w2[i] = w[i]
  BY <1>1, AppendProperties
<1> HIDE DEF w2
<1>3. TraceFits(t2) /\ t2.run = t.run /\ t2.tools = w2
  BY <1>2 DEF TraceFits, TraceFields, w2
<1>4. ASSUME NEW h, NEW a, NEW j, Recorded(h, a, j, t),
             row.status = "SUCCESS" =>
               row.version > j.ctx.version /\ Did(h, a, row.version, row.command)
      PROVE  Recorded(h, a, j, t2)
  <2>1. ASSUME NEW i \in 1..Len(w2), w2[i].status = "SUCCESS"
        PROVE  w2[i].version > j.ctx.version /\ Did(h, a, w2[i].version, w2[i].command)
    <3>1. CASE i = Len(w) + 1
      BY <1>2, <1>4, <2>1, <3>1
    <3>2. CASE i \in 1..Len(w)
      BY <1>2, <1>4, <2>1, <3>2 DEF Recorded
    <3> QED BY <1>2, <3>1, <3>2
  <2> QED BY <1>3, <2>1 DEF Recorded
<1> QED BY <1>3, <1>4

\* The row a tool call leaves: what it says of a success is so.
LEMMA ToolRow ==
  ASSUME AgentInv, NEW a \in Agents, AtTool(a), NEW row,
         \/ op[a].st = "done" /\ row = ToolResult(a)
         \/ job[a].gate[Turn(a)] # "APPROVED" /\ row = Outcome(a, "BLOCKED", 0)
  PROVE  LET v == said[a].veh
             j == job[a]
         IN  /\ row \in OutcomeType /\ row.command = NextCommand(j) /\ Loaded(j)
             /\ node[a] = "execute_tools"
             /\ op[a].st # "done" => op[a] = Twin!Idle /\ row.status = "BLOCKED"
             /\ op[a].st = "done" =>
                  /\ j.gate[Len(j.outcomes) + 1] = "APPROVED"
                  /\ row.status = IF op[a].code = "ok" THEN "SUCCESS" ELSE "FAILED"
                  /\ op[a].code = "ok" => row.version = op[a].version
             /\ row.status = "SUCCESS" /\ life[v] = "live" =>
                  row.version > j.ctx.version /\ Did(history[v], a, row.version, row.command)
<1> DEFINE v == said[a].veh
           j == job[a]
           c == NextCommand(j)
<1>1. /\ JobFits(j) /\ node[a] = "execute_tools" /\ Len(j.outcomes) + 1 \in 1..Len(j.commands)
      /\ j.commands[Turn(a)] = c /\ Turn(a) = Len(j.outcomes) + 1 /\ Loaded(j)
      /\ CallFits(node[a], v, j, op[a]) /\ Asked(op[a])
  BY StoredSoFar, AtToolMeans, Now DEF Turn, Stage
<1>2. c \in GoodCommands
  BY <1>1 DEF JobFits, NextCommand
<1>3. CASE op[a].st = "done"
  <2>1. j.gate[Len(j.outcomes) + 1] = "APPROVED"
    BY <1>1, <1>3, IdleIsIdle DEF CallFits
  <2>2. op[a].version \in Nat
    BY <1>1, <1>3, IdleIsIdle DEF Asked, Done, Settings, Removals
  <2>3. row = IF op[a].code = "ok"
              THEN [command |-> c, status |-> "SUCCESS", version |-> op[a].version]
              ELSE [command |-> c, status |-> "FAILED", version |-> 0]
    BY <1>1, <1>3, <2>1 DEF ToolResult, Outcome
  <2>4. row \in OutcomeType /\ row.command = c
        /\ row.status = (IF op[a].code = "ok" THEN "SUCCESS" ELSE "FAILED")
        /\ (op[a].code = "ok" => row.version = op[a].version)
    <3>1. CASE op[a].code = "ok"
      BY <1>2, <2>2, <2>3, <3>1, RowFits
    <3>2. CASE op[a].code # "ok"
      BY <1>2, <2>3, <3>2, RowFits
    <3> QED BY <3>1, <3>2
  <2>5. ASSUME op[a].code = "ok", life[v] = "live"
        PROVE  op[a].version > j.ctx.version /\ Did(history[v], a, op[a].version, c)
    <3>1. Knows(history[v], cells[v], a, node[a], j, trace[a], op[a])
      BY <1>1, <2>5, Now DEF ChatFits
    <3>2. /\ op[a].version = j.current.version + 1 /\ Did(history[v], a, op[a].version, c)
          /\ j.ctx.version <= j.current.version
      BY <1>3, <2>5, <3>1 DEF Knows, Told, Saw
    <3> QED BY <1>1, <3>2 DEF JobFits
  <2> QED BY <1>1, <1>3, <2>1, <2>4, <2>5
<1>4. CASE op[a].st # "done"
  <2>1. row = [command |-> c, status |-> "BLOCKED", version |-> 0]
        /\ j.gate[Len(j.outcomes) + 1] # "APPROVED"
    BY <1>1, <1>4 DEF Outcome
  <2>2. op[a] = Twin!Idle
    BY <1>1, <2>1 DEF CallFits
  <2>3. row \in OutcomeType /\ row.command = c /\ row.status = "BLOCKED"
    <3> HIDE DEF c
    <3> QED BY <1>2, <2>1 DEF OutcomeType, GoodCommands
  <2> QED BY <1>1, <1>4, <2>2, <2>3
<1> QED BY <1>3, <1>4

LEMMA ToolRowFailsKeeps ==
  ASSUME AgentInv, NEW a \in Agents, ToolRowFails(a)
  PROVE  AgentInv'
<1> DEFINE t == trace[a]
<1>1. AtTool(a) /\ node' = [node EXCEPT ![a] = "raising"]
      /\ UNCHANGED <<life, cells, version, history, said, job>>
      /\ op' = [op EXCEPT ![a] = Twin!Idle]
  BY DEF ToolRowFails, Enter
<1>2. PICK row :
        /\ \/ op[a].st = "done" /\ row = ToolResult(a)
           \/ job[a].gate[Turn(a)] # "APPROVED" /\ row = Outcome(a, "BLOCKED", 0)
        /\ trace' \in {trace, WithTool(a, row)}
  BY DEF ToolRowFails
<1>3. /\ TraceFits(t) /\ (~Loaded(job[a]) => t.tools = <<>>) /\ trace = [trace EXCEPT ![a] = t]
      /\ node[a] # "answered" /\ t.run \notin {"success", "blocked"} /\ Loaded(job[a])
      /\ Loaded(job[a]) /\ life[said[a].veh] = "live" =>
           Recorded(history[said[a].veh], a, job[a], t)
  BY <1>1, StoredSoFar DEF AtTool, Stage
<1>4. CASE trace' = trace
  BY <1>1, <1>3, <1>4, GivesUpKeeps
<1>5. CASE trace' = WithTool(a, row)
  <2> DEFINE t2 == [t EXCEPT !.tools = Append(t.tools, row)]
  <2>1. trace' = [trace EXCEPT ![a] = t2]
    BY <1>5 DEF WithTool
  <2>2. row \in OutcomeType
        /\ (row.status = "SUCCESS" /\ life[said[a].veh] = "live" =>
              row.version > job[a].ctx.version
              /\ Did(history[said[a].veh], a, row.version, row.command))
    BY <1>1, <1>2, ToolRow
  <2> HIDE DEF t
  <2>3. /\ TraceFits(t2) /\ t2.run = t.run
        /\ (life[said[a].veh] = "live" => Recorded(history[said[a].veh], a, job[a], t2))
    BY <1>3, <2>2, OneRowMore
  <2> HIDE DEF t2
  <2> QED BY <1>1, <1>3, <2>1, <2>3, GivesUpKeeps
<1> QED BY <1>2, <1>4, <1>5

--------------------------------------------------------------------------------
\* The calls of a plan that the gate has approved.
LEMMA CountApproved ==
  ASSUME NEW j, JobFits(j), NEW m \in Nat
  PROVE  /\ Approved(j) \in SUBSET (1..Len(j.gate)) /\ Len(j.gate) \in Nat
         /\ UpTo(Approved(j), m) \in Nat
         /\ UpTo(Approved(j), m + 1) =
              IF m + 1 \in Approved(j) THEN UpTo(Approved(j), m) + 1 ELSE UpTo(Approved(j), m)
         /\ Len(j.gate) <= m => UpTo(Approved(j), m) = Cardinality(Approved(j))
<1> DEFINE A == Approved(j)
           n == Len(j.gate)
<1>1. n \in Nat /\ A \in SUBSET (1..n)
  BY DEF JobFits, Approved
<1> HIDE DEF A, n
<1>2. /\ UpTo(A, m) \in Nat
      /\ UpTo(A, m + 1) = IF m + 1 \in A THEN UpTo(A, m) + 1 ELSE UpTo(A, m)
      /\ n <= m => UpTo(A, m) = Cardinality(A)
  BY <1>1, UpToStep
<1> QED BY <1>1, <1>2 DEF A, n

\* What a chat knows once an outcome is recorded.
LEMMA OutcomeKnown ==
  ASSUME NEW h, NEW view, NEW a, NEW j, JobFits(j), NEW t, NEW o,
         Knows(h, view, a, "execute_tools", j, t, o),
         Len(j.outcomes) + 1 \in 1..Len(j.commands), Len(j.gate) = Len(j.commands),
         NEW row \in OutcomeType, row.command = NextCommand(j),
         \/ o = Twin!Idle /\ row.status = "BLOCKED" /\ j.gate[Len(j.outcomes) + 1] # "APPROVED"
         \/ /\ o.st = "done" /\ j.gate[Len(j.outcomes) + 1] = "APPROVED"
            /\ row.status = IF o.code = "ok" THEN "SUCCESS" ELSE "FAILED",
         NEW j2, JobFits(j2), j2.ctx = j.ctx, j2.commands = j.commands, j2.gate = j.gate,
         j2.outcomes = Append(j.outcomes, row),
         j2.current = IF o.st = "done" /\ o.code = "ok"
                      THEN [cells |-> o.view, version |-> o.version] ELSE j.current,
         NEW t2, Recorded(h, a, j, t2)
  PROVE  Knows(h, view, a, "execute_tools", j2, t2, Twin!Idle)
<1> DEFINE m == Len(j.outcomes)
           A == Approved(j)
           ok == o.st = "done" /\ o.code = "ok"
<1>1. /\ m \in Nat /\ Len(j2.outcomes) = m + 1 /\ j2.outcomes[m + 1] = row
      /\ \A i \in 1..m : j2.outcomes[i] = j.outcomes[i]
      /\ j.ctx.version \in Nat /\ j.current.version \in Nat
  <2> DEFINE w == j.outcomes
  <2>1. w \in Seq(OutcomeType) /\ j.ctx.version \in Nat /\ j.current.version \in Nat
    BY DEF JobFits
  <2>2. j2.outcomes = Append(w, row)
    OBVIOUS
  <2> HIDE DEF w
  <2>3. /\ Len(w) \in Nat /\ Len(Append(w, row)) = Len(w) + 1 /\ Append(w, row)[Len(w) + 1] = row
        /\ \A i \in 1..Len(w) : Append(w, row)[i] = w[i]
    BY <2>1, AppendProperties
  <2> QED BY <2>1, <2>2, <2>3 DEF w
<1>2. /\ Saw(h, view, a, j) /\ Told(h, view, a, j, o) /\ Recorded(h, a, j, t)
      /\ (NoFailed(j) => OnlyThose(h, a, j, o))
  BY DEF Knows, AtWork
<1>3. Approved(j2) = A
  BY DEF Approved
<1>4. A \in SUBSET (1..Len(j.gate)) /\ Len(j.gate) \in Nat
  BY DEF Approved, JobFits
<1>5. /\ UpTo(A, m) \in Nat
      /\ UpTo(A, m + 1) = IF m + 1 \in A THEN UpTo(A, m) + 1 ELSE UpTo(A, m)
  <2> HIDE DEF m
  <2> QED BY <1>1, CountApproved
<1>6. m + 1 \in A <=> j.gate[m + 1] = "APPROVED"
  BY DEF Approved
<1>7. CASE ok
  <2>1. j2.current.cells = o.view /\ j2.current.version = o.version
    BY <1>7
  <2>2. /\ o.version = j.current.version + 1 /\ Did(h, a, o.version, NextCommand(j))
        /\ (Len(h) = o.version => view = o.view) /\ Steady(j.ctx.cells, o.view)
    BY <1>2, <1>7 DEF Told
  <2>3. Saw(h, view, a, j2)
    <3>1. /\ j2.ctx.version <= j2.current.version /\ j2.current.version <= Len(h)
          /\ h[o.version].by = a
      BY <1>1, <1>2, <2>1, <2>2 DEF Saw, Did
    <3>2. ASSUME NEW k \in (j.ctx.version + 1)..o.version
          PROVE  h[k].by = a
      <4>1. k = o.version \/ k \in (j.ctx.version + 1)..j.current.version
        BY <1>1, <2>2
      <4> QED BY <1>2, <3>1, <4>1 DEF Saw
    <3> QED BY <2>1, <2>2, <3>1, <3>2 DEF Saw
  <2>4. ASSUME NoFailed(j2)
        PROVE  OnlyThose(h, a, j2, Twin!Idle)
    <3>1. NoFailed(j)
      BY <1>1, <2>4 DEF NoFailed
    <3>2. OnlyThose(h, a, j, o)
      BY <1>2, <3>1
    <3>3. o.version = j.ctx.version + UpTo(A, m + 1)
      BY <1>1, <1>5, <1>6, <1>7, <2>2, <3>2, IdleIsIdle DEF OnlyThose
    <3>4. ASSUME NEW i \in A, i <= m + 1
          PROVE  Did(h, a, j.ctx.version + UpTo(A, i), j.commands[i])
      <4>1. CASE i = m + 1
        BY <2>2, <3>3, <4>1 DEF NextCommand
      <4>2. CASE i <= m
        BY <3>2, <4>2 DEF OnlyThose
      <4> QED BY <1>1, <1>4, <3>4, <4>1, <4>2
    <3>5. NoMore(h, a, o.version)
      BY <1>7, <3>2 DEF OnlyThose
    <3> HIDE DEF A
    <3> QED BY <1>1, <1>3, <2>1, <3>3, <3>4, <3>5, IdleIsIdle DEF OnlyThose
  <2> QED BY <2>3, <2>4, IdleIsIdle DEF Knows, Told, Recorded
<1>8. CASE ~ok
  <2>1. j2.current = j.current
    BY <1>8
  <2>2. Saw(h, view, a, j2)
    BY <1>2, <2>1 DEF Saw
  <2>3. ASSUME NoFailed(j2)
        PROVE  OnlyThose(h, a, j2, Twin!Idle)
    <3>1. NoFailed(j) /\ row.status # "FAILED"
      BY <1>1, <2>3 DEF NoFailed
    <3>2. OnlyThose(h, a, j, o) /\ o = Twin!Idle /\ m + 1 \notin A
      BY <1>2, <1>6, <1>8, <3>1
    <3>3. UpTo(A, m + 1) = UpTo(A, m)
      BY <1>5, <3>2
    <3>4. ASSUME NEW i \in A, i <= m + 1
          PROVE  Did(h, a, j.ctx.version + UpTo(A, i), j.commands[i])
      <4>1. i <= m
        BY <1>1, <1>4, <3>2, <3>4
      <4> QED BY <3>2, <4>1 DEF OnlyThose
    <3> HIDE DEF A
    <3> QED BY <1>1, <1>3, <2>1, <3>2, <3>3, <3>4, IdleIsIdle DEF OnlyThose, A
  <2> QED BY <2>2, <2>3, IdleIsIdle DEF Knows, Told, Recorded
<1> QED BY <1>7, <1>8

\* The loop goes on once a call's outcome is recorded.
Extended(j, j2, w, x) ==
  /\ j2 = [f \in JobFields |-> j2[f]]
  /\ j2.ctx = j.ctx /\ j2.speed = j.speed /\ j2.commands = j.commands /\ j2.gate = j.gate
  /\ j2.outcomes = w /\ j2.current = x

LEMMA SetsThose ==
  ASSUME NEW j, j = [f \in JobFields |-> j[f]], NEW w, NEW x
  PROVE  /\ Extended(j, [j EXCEPT !.outcomes = w], w, j.current)
         /\ Extended(j, [j EXCEPT !.outcomes = w, !.current = x], w, x)
<1>1. Extended(j, [j EXCEPT !.outcomes = w], w, j.current)
  BY DEF Extended, JobFields
<1>2. Extended(j, [j EXCEPT !.outcomes = w, !.current = x], w, x)
  BY DEF Extended, JobFields
<1> QED BY <1>1, <1>2

LEMMA OutcomeFits ==
  ASSUME NEW j, JobFits(j), NEW row \in OutcomeType, Len(j.outcomes) + 1 \in 1..Len(j.commands),
         NEW j2, NEW x, x.version \in Nat, Extended(j, j2, Append(j.outcomes, row), x)
  PROVE  JobFits(j2)
<1> DEFINE w == j.outcomes
           w2 == Append(w, row)
<1>1. w \in Seq(OutcomeType) /\ Len(w) \in Nat
  BY DEF JobFits
<1>2. w2 \in Seq(OutcomeType) /\ Len(w2) = Len(w) + 1
  BY <1>1, AppendProperties
<1>3. Extended(j, j2, w2, x)
  OBVIOUS
<1> HIDE DEF w2
<1> QED BY <1>2, <1>3 DEF JobFits, Extended

RowOf(a, row) ==
  \/ op[a].st = "done" /\ row = ToolResult(a)
  \/ job[a].gate[Turn(a)] # "APPROVED" /\ row = Outcome(a, "BLOCKED", 0)
JobAfter(a, row) ==
  IF op[a].st = "done"
  THEN [job[a] EXCEPT !.outcomes = Append(job[a].outcomes, row), !.current = AfterCall(a)]
  ELSE [job[a] EXCEPT !.outcomes = Append(job[a].outcomes, row)]

LEMMA OutcomeKeeps ==
  ASSUME AgentInv, NEW a \in Agents, AtTool(a), NEW row, RowOf(a, row),
         job' = [job EXCEPT ![a] = JobAfter(a, row)],
         op' = [op EXCEPT ![a] = Twin!Idle] \/ (op' = op /\ op[a].st # "done"),
         trace' = WithTool(a, row), UNCHANGED <<life, cells, version, history, node, said>>
  PROVE  AgentInv'
<1> DEFINE v == said[a].veh
           j == job[a]
           t == trace[a]
           o == op[a]
           t2 == [t EXCEPT !.tools = Append(t.tools, row)]
           x == IF o.st = "done" THEN AfterCall(a) ELSE j.current
           j2 == JobAfter(a, row)
<1>1. /\ JobFits(j) /\ TraceFits(t) /\ Loaded(j) /\ Judged(j) /\ node[a] = "execute_tools"
      /\ t.run \notin {"success", "blocked"} /\ Len(j.outcomes) + 1 \in 1..Len(j.commands)
      /\ ChatFits(a, node[a], v, said[a].text, j, t, o, life[v], cells[v], history[v])
      /\ v \in Vehicles /\ said[a] = [veh |-> v, text |-> said[a].text] /\ Asked(o)
  BY StoredSoFar, AtToolMeans, Now DEF Stage
<1>2. /\ row \in OutcomeType /\ row.command = NextCommand(j)
      /\ o.st # "done" => o = Twin!Idle /\ row.status = "BLOCKED"
      /\ o.st = "done" =>
           /\ j.gate[Len(j.outcomes) + 1] = "APPROVED"
           /\ row.status = IF o.code = "ok" THEN "SUCCESS" ELSE "FAILED"
      /\ row.status = "SUCCESS" /\ life[v] = "live" =>
           row.version > j.ctx.version /\ Did(history[v], a, row.version, row.command)
  BY ToolRow DEF RowOf
<1>3. o.st # "done" => j.gate[Len(j.outcomes) + 1] # "APPROVED"
  BY DEF Turn, RowOf
<1>4. /\ node'[a] = node[a] /\ said'[a] = said[a] /\ job'[a] = j2 /\ trace'[a] = t2
      /\ Moves(a, Twin!Idle)
  <2>1. trace' = [trace EXCEPT ![a] = t2]
    BY DEF WithTool
  <2> HIDE DEF t2, t, j, j2
  <2> QED BY <1>2, <2>1, OnlyOne DEF AgentInv, Moves, j2
<1>5. x = IF o.st = "done" /\ o.code = "ok" THEN [cells |-> o.view, version |-> o.version]
          ELSE j.current
  BY DEF AfterCall
<1>6. x.version \in Nat
  <2>1. o.st = "done" => o.version \in Nat
    BY <1>1, IdleIsIdle DEF Asked, Done, Settings, Removals
  <2>2. j.current.version \in Nat
    BY <1>1 DEF JobFits
  <2> QED BY <1>5, <2>1, <2>2
<1>7. /\ JobFits(j2) /\ j2.ctx = j.ctx /\ j2.commands = j.commands /\ j2.gate = j.gate
      /\ j2.speed = j.speed /\ j2.outcomes = Append(j.outcomes, row) /\ j2.current = x
  <2>1. Extended(j, j2, Append(j.outcomes, row), x)
    <3>1. j = [f \in JobFields |-> j[f]]
      BY <1>1 DEF JobFits
    <3>2. CASE o.st = "done"
      <4>1. j2 = [j EXCEPT !.outcomes = Append(j.outcomes, row), !.current = x]
        BY <3>2 DEF JobAfter
      <4> HIDE DEF j2, j, x
      <4> QED BY <3>1, <4>1, SetsThose
    <3>3. CASE o.st # "done"
      <4>1. j2 = [j EXCEPT !.outcomes = Append(j.outcomes, row)] /\ x = j.current
        BY <3>3 DEF JobAfter
      <4> HIDE DEF j2, j, x
      <4> QED BY <3>1, <4>1, SetsThose
    <3> QED BY <3>2, <3>3
  <2>2. JobFits(j) /\ Len(j.outcomes) + 1 \in 1..Len(j.commands) /\ row \in OutcomeType
    BY <1>1, <1>2
  <2> HIDE DEF j, x, j2, v, t, t2, o
  <2>3. JobFits(j2)
    BY <1>6, <2>1, <2>2, OutcomeFits
  <2> QED BY <2>1, <2>3 DEF Extended
<1>8. /\ TraceFits(t2) /\ t2.run = t.run
      /\ (life[v] = "live" => Recorded(history[v], a, j, t2))
  <2>1. life[v] = "live" => Recorded(history[v], a, j, t)
    BY <1>1 DEF ChatFits, Knows
  <2> HIDE DEF t, j, v
  <2> QED BY <1>1, <1>2, <2>1, OneRowMore
<1> HIDE DEF t2, x, j2
<1>9. life[v] = "live" => Knows(history[v], cells[v], a, "execute_tools", j2, t2, Twin!Idle)
  <2>1. life[v] = "live" => Knows(history[v], cells[v], a, "execute_tools", j, t, o)
    BY <1>1 DEF ChatFits
  <2>2. Len(j.gate) = Len(j.commands)
    BY <1>1 DEF Judged
  <2> HIDE DEF j, v, t, o
  <2> QED BY <1>1, <1>2, <1>3, <1>5, <1>7, <1>8, <2>1, <2>2, OutcomeKnown
<1>10. Stage("execute_tools", j2, t2)
  BY <1>1, <1>7, <1>8 DEF Stage, Loaded, Judged, Nodes, GraphNodes
<1>11. Arrives(a, Twin!Idle)
  <2>1. /\ said[a].text \in Utterances /\ life[v] # "unborn"
    BY <1>1 DEF ChatFits
  <2>2. ChatFits(a, "execute_tools", v, said[a].text, j2, t2, Twin!Idle,
                 life[v], cells[v], history[v])
    BY <1>1, <1>7, <1>8, <1>9, <1>10, <2>1 DEF ChatFits, CallFits
  <2> QED BY <1>1, <1>4, <2>2 DEF Arrives
<1> QED BY <1>4, <1>11, IdleIsIdle, OwnMove

LEMMA ExecuteBlockedKeeps ==
  ASSUME AgentInv, NEW a \in Agents, ExecuteBlocked(a)
  PROVE  AgentInv'
<1> DEFINE row == Outcome(a, "BLOCKED", 0)
<1>1. /\ AtTool(a) /\ job[a].gate[Turn(a)] # "APPROVED"
      /\ job' = [job EXCEPT ![a] = [job[a] EXCEPT !.outcomes = Append(job[a].outcomes, row)]]
      /\ trace' = WithTool(a, row) /\ UNCHANGED <<life, cells, version, history, op, node, said>>
  BY DEF ExecuteBlocked, twinVars
<1>2. op[a].st # "done"
  <2>1. node[a] = "execute_tools" /\ CallFits(node[a], said[a].veh, job[a], op[a])
    BY <1>1, StoredSoFar DEF AtTool
  <2>2. op[a] = Twin!Idle
    BY <1>1, <2>1 DEF CallFits, Turn
  <2> QED BY <2>2, IdleIsIdle
<1>3. RowOf(a, row)
  BY <1>1 DEF RowOf
<1>4. job' = [job EXCEPT ![a] = JobAfter(a, row)]
  BY <1>1, <1>2 DEF JobAfter
<1> HIDE DEF row
<1> QED BY <1>1, <1>2, <1>3, <1>4, OutcomeKeeps

LEMMA ExecuteReturnKeeps ==
  ASSUME AgentInv, NEW a \in Agents, ExecuteReturn(a)
  PROVE  AgentInv'
<1> DEFINE row == ToolResult(a)
<1>1. /\ AtTool(a) /\ op[a].st = "done" /\ op' = [op EXCEPT ![a] = Twin!Idle]
      /\ job' = [job EXCEPT ![a] = [job[a] EXCEPT !.outcomes = Append(job[a].outcomes, row),
                                                  !.current = AfterCall(a)]]
      /\ trace' = WithTool(a, row) /\ UNCHANGED <<life, cells, version, history, node, said>>
  BY DEF ExecuteReturn
<1>2. RowOf(a, row)
  BY <1>1 DEF RowOf
<1>3. job' = [job EXCEPT ![a] = JobAfter(a, row)]
  BY <1>1 DEF JobAfter
<1> HIDE DEF row
<1> QED BY <1>1, <1>2, <1>3, OutcomeKeeps

--------------------------------------------------------------------------------
\* An approved command is put to the twin.
LEMMA CallIsAsked ==
  ASSUME NEW v \in Vehicles, NEW j, JobFits(j), NextCommand(j) \in GoodCommands
  PROVE  CallOf(v, j) \in Settings /\ CallOf(v, j).st = "setting"
<1> DEFINE c == NextCommand(j)
           n == j.current.version
<1>1. n \in Nat
  BY DEF JobFits
<1>2. /\ CellOf(c) \in WritableCells /\ CellOf(c)[1] = c.prop
      /\ Stored(c) \in ValuesOf(c.prop) /\ Stored(c) \in WritableValues
  BY DEF GoodCommands, GoodCommand, CellOf
<1> HIDE DEF c, n
<1>3. CallOf(v, j) = [st |-> "setting", veh |-> v, cell |-> CellOf(c), value |-> Stored(c),
                      expected |-> n]
  BY DEF CallOf, c, n
<1> QED BY <1>1, <1>2, <1>3 DEF Settings

LEMMA CallKnown ==
  ASSUME NEW h, NEW view, NEW a, NEW n, NEW j, NEW t, NEW o, Knows(h, view, a, n, j, t, o),
         o.st # "done", NEW o2, o2.st # "done"
  PROVE  Knows(h, view, a, n, j, t, o2)
BY DEF Knows, Told, OnlyThose

LEMMA ExecuteCallKeeps ==
  ASSUME AgentInv, NEW a \in Agents, ExecuteCall(a)
  PROVE  AgentInv' /\ op' = [op EXCEPT ![a] = CallOf(said[a].veh, job[a])]
         /\ CallOf(said[a].veh, job[a]) \in Settings
<1> DEFINE v == said[a].veh
           j == job[a]
           c == NextCommand(j)
           call == CallOf(v, j)
<1>1. /\ AtTool(a) /\ op[a] = Twin!Idle /\ j.gate[Turn(a)] = "APPROVED"
      /\ UNCHANGED <<life, cells, version, history, agentVars>>
  BY DEF ExecuteCall
<1>2. /\ JobFits(j) /\ node[a] = "execute_tools" /\ Len(j.outcomes) + 1 \in 1..Len(j.commands)
      /\ j.commands[Turn(a)] = c /\ Loaded(j) /\ v \in Vehicles
      /\ said[a] = [veh |-> v, text |-> said[a].text]
      /\ ChatFits(a, node[a], v, said[a].text, j, trace[a], op[a], life[v], cells[v], history[v])
  BY <1>1, StoredSoFar, AtToolMeans, Now DEF Stage
<1>3. c \in GoodCommands
  BY <1>2 DEF JobFits, NextCommand
<1>4. call \in Settings /\ call.st = "setting"
  BY <1>2, <1>3, CallIsAsked
<1>5. op' = [op EXCEPT ![a] = call]
  <2>1. NormalZone(c.prop, c.zone) = c.zone
    BY <1>3 DEF GoodCommands, GoodCommand
  <2> HIDE DEF c
  <2>2. op' = [op EXCEPT ![a] =
                 [st |-> "setting", veh |-> v, cell |-> <<c.prop, NormalZone(c.prop, c.zone)>>,
                  value |-> NormalValue(c.prop, c.value), expected |-> j.current.version]]
    BY <1>2 DEF ExecuteCall, ExpectedVersion
  <2> QED BY <2>1, <2>2 DEF CallOf, CellOf, Stored, c
<1>6. Moves(a, call)
  <2> HIDE DEF call
  <2> QED BY <1>1, <1>5, OnlyOne DEF Moves, agentVars, AgentInv
<1>7. ChatFits(a, node[a], v, said[a].text, j, trace[a], call, life[v], cells[v], history[v])
  <2>1. CallFits(node[a], v, j, call)
    BY <1>1, <1>2 DEF CallFits, Turn
  <2>2. Loaded(j) /\ life[v] = "live" =>
          Knows(history[v], cells[v], a, node[a], j, trace[a], call)
    <3> HIDE DEF v, j, call
    <3> QED BY <1>1, <1>2, <1>4, CallKnown, IdleIsIdle DEF ChatFits
  <2> HIDE DEF v, j, call
  <2> QED BY <1>2, <2>1, <2>2 DEF ChatFits
<1>8. Arrives(a, call)
  BY <1>1, <1>2, <1>7 DEF Arrives, agentVars
<1>9. Asked(call)
  BY <1>4 DEF Asked
<1> QED BY <1>4, <1>5, <1>6, <1>8, <1>9, OwnMove

\* A chat that goes on with its plan as it is.
LEMMA GoesOn ==
  ASSUME NEW a, NEW n, NEW v, NEW u, NEW j, NEW t, NEW o, NEW lf, NEW view, NEW h,
         ChatFits(a, n, v, u, j, t, o, lf, view, h), o = Twin!Idle, Loaded(j), AtWork(n),
         NEW n2, NEW j2, JobFits(j2), j2.ctx = j.ctx, j2.current = j.current,
         j2.commands = j.commands, j2.gate = j.gate, j2.outcomes = j.outcomes,
         NEW t2, TraceFits(t2), t2.tools = t.tools, Stage(n2, j2, t2)
  PROVE  ChatFits(a, n2, v, u, j2, t2, o, lf, view, h)
<1>1. lf = "live" => Knows(h, view, a, n2, j2, t2, o)
  <2>1. ASSUME lf = "live"
        PROVE  Knows(h, view, a, n, j, t, o)
    BY <2>1 DEF ChatFits
  <2> QED BY <2>1, SamePlan
<1> QED BY <1>1 DEF ChatFits, CallFits, Loaded

LEMMA ExecuteDoneKeeps ==
  ASSUME AgentInv, NEW a \in Agents, ExecuteDone(a)
  PROVE  AgentInv'
<1> DEFINE v == said[a].veh
           j == job[a]
           t == trace[a]
<1>1. /\ node[a] = "execute_tools" /\ ~AtTool(a) /\ Visit(a, "compose_response")
      /\ UNCHANGED <<twinVars, said, job>>
  BY DEF ExecuteDone
<1>2. /\ JobFits(j) /\ Loaded(j) /\ Judged(j) /\ t.run \notin {"success", "blocked"}
      /\ op[a] = Twin!Idle
  BY <1>1, StoredSoFar, NoCallThen DEF Stage
<1>3. Len(j.outcomes) = Len(j.commands)
  <2>1. ~(Len(j.outcomes) + 1 \in 1..Len(j.commands))
    BY <1>1, <1>2, AtToolMeans
  <2>2. Len(j.outcomes) \in Nat /\ Len(j.commands) \in Nat /\ Len(j.outcomes) <= Len(j.commands)
    BY <1>2 DEF JobFits
  <2> QED BY <2>1, <2>2
<1>4. /\ said'[a] = said[a] /\ job'[a] = j /\ Moves(a, op[a]) /\ node'[a] = "compose_response"
      /\ TraceFits(trace'[a]) /\ trace'[a].run = t.run /\ trace'[a].tools = t.tools
  BY <1>1, OnlyOne, Visited DEF twinVars, AgentInv, Moves
<1>5. Stage("compose_response", j, trace'[a])
  BY <1>2, <1>3, <1>4 DEF Stage, Nodes, GraphNodes
<1>6. Arrives(a, op[a])
  BY <1>1, <1>2, <1>4, <1>5, Now, GoesOn DEF Arrives, AtWork
<1> QED BY <1>4, <1>6, Now, OwnMove

LEMMA ComposeResponseKeeps ==
  ASSUME AgentInv, NEW a \in Agents, ComposeResponse(a)
  PROVE  AgentInv'
<1> DEFINE v == said[a].veh
           j == job[a]
           t == trace[a]
<1>1. PICK answer : job' = [job EXCEPT ![a] = [j EXCEPT !.answer = answer]]
  BY DEF ComposeResponse
<1> DEFINE j2 == [j EXCEPT !.answer = answer]
<1>2. /\ node[a] = "compose_response" /\ job' = [job EXCEPT ![a] = j2]
      /\ Visit(a, "complete_run") /\ UNCHANGED <<twinVars, said>>
  BY <1>1 DEF ComposeResponse
<1>3. /\ JobFits(j) /\ Loaded(j) /\ Judged(j) /\ t.run \notin {"success", "blocked"}
      /\ op[a] = Twin!Idle /\ Len(j.outcomes) = Len(j.commands)
  BY <1>2, StoredSoFar, NoCallThen DEF Stage, AtTool
<1>4. /\ JobFits(j2) /\ j2.ctx = j.ctx /\ j2.current = j.current /\ j2.commands = j.commands
      /\ j2.gate = j.gate /\ j2.outcomes = j.outcomes /\ j2.speed = j.speed
  <2> HIDE DEF j
  <2> QED BY <1>3 DEF JobFits, JobFields
<1> HIDE DEF j2
<1>5. /\ said'[a] = said[a] /\ job'[a] = j2 /\ Moves(a, op[a]) /\ node'[a] = "complete_run"
      /\ TraceFits(trace'[a]) /\ trace'[a].run = t.run /\ trace'[a].tools = t.tools
  BY <1>2, OnlyOne, Visited DEF twinVars, AgentInv, Moves
<1>6. Stage("complete_run", j2, trace'[a])
  BY <1>3, <1>4, <1>5 DEF Stage, Judged, Loaded, Nodes
<1>7. Arrives(a, op[a])
  <2>1. ChatFits(a, node[a], v, said[a].text, j, t, op[a], life[v], cells[v], history[v])
    BY Now
  <2>2. AtWork(node[a])
    BY <1>2 DEF AtWork
  <2> HIDE DEF v, j, t
  <2>3. ChatFits(a, "complete_run", v, said[a].text, j2, trace'[a], op[a],
                 life[v], cells[v], history[v])
    BY <1>3, <1>4, <1>5, <1>6, <2>1, <2>2, GoesOn
  <2> QED BY <1>5, <2>3, Now DEF Arrives, v
<1> QED BY <1>5, <1>7, Now, OwnMove

LEMMA CompleteRunKeeps ==
  ASSUME AgentInv, NEW a \in Agents, CompleteRun(a)
  PROVE  AgentInv'
<1> DEFINE v == said[a].veh
           j == job[a]
           t == trace[a]
<1>1. node[a] = "complete_run" /\ UNCHANGED <<twinVars, said, job>>
  BY DEF CompleteRun
<1>2. /\ JobFits(j) /\ Loaded(j) /\ Judged(j) /\ t.run \notin {"success", "blocked"}
      /\ op[a] = Twin!Idle /\ Len(j.outcomes) = Len(j.commands) /\ TraceFits(t)
  BY <1>1, StoredSoFar, NoCallThen DEF Stage, AtTool
<1>3. CASE Enter(a, "answered") /\ trace' = [trace EXCEPT ![a].run = Verdict(a)]
  <2> DEFINE t2 == [t EXCEPT !.run = Verdict(a)]
  <2>1. node' = [node EXCEPT ![a] = "answered"] /\ trace' = [trace EXCEPT ![a] = t2]
    BY <1>3 DEF Enter
  <2>2. Verdict(a) \in {"success", "blocked", "failed"}
        /\ (Verdict(a) # "failed" => ~Some(a, "FAILED"))
    BY DEF Verdict
  <2>3. TraceFits(t2) /\ t2.tools = t.tools /\ t2.run = Verdict(a)
    <3> HIDE DEF t
    <3> QED BY <1>2, <2>2 DEF TraceFits, TraceFields
  <2> HIDE DEF t2
  <2>4. ~Some(a, "FAILED") => NoFailed(j)
    <3>1. DOMAIN j.outcomes = 1..Len(j.outcomes)
      BY <1>2 DEF JobFits
    <3> QED BY <3>1 DEF Some, NoFailed
  <2>5. Stage("answered", j, t2)
    BY <1>2, <2>2, <2>3, <2>4 DEF Stage, Nodes, Rest
  <2>6. /\ said'[a] = said[a] /\ job'[a] = j /\ Moves(a, op[a]) /\ node'[a] = "answered"
        /\ trace'[a] = t2
    BY <1>1, <2>1, OnlyOne DEF twinVars, AgentInv, Moves
  <2>7. Arrives(a, op[a])
    BY <1>1, <1>2, <2>3, <2>5, <2>6, Now, GoesOn DEF Arrives, AtWork
  <2> QED BY <2>6, <2>7, Now, OwnMove
<1>4. CASE Enter(a, "error") /\ UNCHANGED trace
  <2>1. node' = [node EXCEPT ![a] = "error"] /\ trace' = [trace EXCEPT ![a] = t]
    BY <1>4, StoredSoFar DEF Enter
  <2> QED BY <1>1, <1>2, <2>1, StoredSoFar, GivesUpKeeps DEF twinVars
<1> QED BY <1>3, <1>4 DEF CompleteRun

--------------------------------------------------------------------------------
\* The other sessions.
LEMMA SessionKeeps ==
  ASSUME AgentInv, NEW s \in Sessions \ Agents, NEW o, Asked(o), op' = [op EXCEPT ![s] = o],
         UNCHANGED <<life, cells, version, history, agentVars>>
  PROVE  AgentInv'
<1>1. Shapes' /\ TwinFits' /\ ForOthers(s)
  BY StillRegisters DEF AgentInv
<1>2. ChatShapes'
  BY DEF AgentInv, ChatShapes, agentVars
<1>3. ASSUME NEW a \in Agents
      PROVE  Chat(a)'
  <2>1. said[a].veh \in Vehicles /\ a \in Sessions /\ a # s
    BY Now, AgentsAssumption
  <2>2. op'[a] = op[a]
    BY <1>1, <2>1 DEF ForOthers
  <2> QED BY <2>1, <2>2, OtherChats DEF agentVars, Meanwhile
<1> QED BY <1>1, <1>2, <1>3 DEF AgentInv

LEMMA AskedByOthers ==
  ASSUME NEW s \in Sessions \ Agents, ControlVehicle(s) \/ DeleteVehicle(s)
  PROVE  /\ UNCHANGED <<life, cells, version, history, agentVars>> /\ op[s] = Twin!Idle
         /\ \E o \in Settings \cup Removals : op' = [op EXCEPT ![s] = o]
<1>1. CASE ControlVehicle(s)
  <2>1. PICK v \in Vehicles, m \in ManualRequests, e \in 0..MaxVersion :
          op' = [op EXCEPT ![s] = [st |-> "setting", veh |-> v, cell |-> m[1], value |-> m[2],
                                   expected |-> e]]
    BY <1>1 DEF ControlVehicle
  <2>2. m[1] \in WritableCells /\ m[2] \in ValuesOf(m[1][1]) /\ e \in Nat
    BY ManualAssumption, AgentVersionAssumption
  <2>3. m[2] \in WritableValues
    BY <2>2 DEF ValuesOf, WritableValues, WritableCells, Cells, WritableProperties,
       ZonedProperties, TempProperties, GlobalProperties, ReadOnlyProperties
  <2>4. [st |-> "setting", veh |-> v, cell |-> m[1], value |-> m[2], expected |-> e] \in Settings
    BY <2>2, <2>3 DEF Settings
  <2> QED BY <1>1, <2>1, <2>4 DEF ControlVehicle
<1>2. CASE DeleteVehicle(s)
  BY <1>2 DEF DeleteVehicle, Removals
<1> QED BY <1>1, <1>2

LEMMA OthersKeep ==
  ASSUME AgentInv, NEW s \in Sessions \ Agents,
         ControlVehicle(s) \/ DeleteVehicle(s) \/ (Twin!Leave(s) /\ UNCHANGED agentVars)
  PROVE  AgentInv'
<1>1. UNCHANGED <<life, cells, version, history, agentVars>>
  BY AskedByOthers DEF Twin!Leave
<1>2. PICK o \in Settings \cup Removals \cup {Twin!Idle} : op' = [op EXCEPT ![s] = o]
  BY AskedByOthers DEF Twin!Leave, Twin!Tell
<1>3. Asked(o)
  BY DEF Asked
<1> QED BY <1>1, <1>2, <1>3, SessionKeeps

LEMMA TwinAnswersKeeps ==
  ASSUME AgentInv, NEW s \in Sessions, TwinAnswers(s)
  PROVE  AgentInv'
<1>1. Shapes' /\ TwinFits' /\ ForOthers(s)
  BY TwinMoves DEF AgentInv
<1>2. ChatShapes' /\ UNCHANGED agentVars
  BY DEF AgentInv, ChatShapes, agentVars, TwinAnswers
<1>3. ASSUME NEW a \in Agents
      PROVE  Chat(a)'
  <2>1. CASE a = s
    BY <2>1, OwnAnswer
  <2>2. CASE a # s
    <3>1. said[a].veh \in Vehicles /\ a \in Sessions
      BY Now
    <3>2. op'[a] = op[a]
      BY <1>1, <2>2, <3>1 DEF ForOthers
    <3>3. LET v == said[a].veh
          IN  Meanwhile(a, life[v], cells[v], history[v], life'[v], cells'[v], history'[v])
      BY <1>1, <2>2, <3>1 DEF ForOthers
    <3> QED BY <1>2, <3>2, <3>3, OtherChats DEF agentVars
  <2> QED BY <2>1, <2>2
<1> QED BY <1>1, <1>2, <1>3 DEF AgentInv

LEMMA CreateKeeps ==
  ASSUME AgentInv, NEW v \in Vehicles, Twin!Create(v), UNCHANGED agentVars
  PROVE  AgentInv'
<1>1. /\ Shapes' /\ TwinFits' /\ op' = op
      /\ \A a : \A w \in Vehicles :
           Meanwhile(a, life[w], cells[w], history[w], life'[w], cells'[w], history'[w])
  BY CreateMoves DEF AgentInv
<1>2. ChatShapes'
  BY DEF AgentInv, ChatShapes, agentVars
<1>3. ASSUME NEW a \in Agents
      PROVE  Chat(a)'
  <2>1. said[a].veh \in Vehicles
    BY Now
  <2>2. LET w == said[a].veh
        IN  Meanwhile(a, life[w], cells[w], history[w], life'[w], cells'[w], history'[w])
    BY <1>1, <2>1
  <2> QED BY <1>1, <2>2, OtherChats DEF agentVars
<1> QED BY <1>1, <1>2, <1>3 DEF AgentInv

LEMMA AgentInit == Init => AgentInv
<1> SUFFICES ASSUME Init
             PROVE  AgentInv
  OBVIOUS
<1>1. /\ life = [v \in Vehicles |-> IF v \in DemoVehicles THEN "live" ELSE "unborn"]
      /\ cells = [v \in Vehicles |-> IF v \in DemoVehicles THEN Twin!DemoCells ELSE Twin!NewCells]
      /\ version = [v \in Vehicles |-> 0] /\ history = [v \in Vehicles |-> <<>>]
      /\ op = [s \in Sessions |-> Twin!Idle]
      /\ node = [a \in Agents |-> "idle"] /\ said = [a \in Agents |-> NoChat]
      /\ job = [a \in Agents |-> NewJob] /\ trace = [a \in Agents |-> NoTrace]
  BY DEF Init, Twin!Init
<1>2. Shapes /\ ChatShapes
  BY <1>1 DEF Shapes, ChatShapes
<1>3. TwinFits
  <2>1. ASSUME NEW v \in Vehicles
        PROVE  RegisterFits(life[v], cells[v], version[v], history[v])
    <3>1. cells[v] \in {Twin!DemoCells, Twin!NewCells}
      BY <1>1
    <3>2. DOMAIN cells[v] = Cells /\ \A c \in WritableCells : cells[v][c] \in WritableValues
      BY <3>1, FirstCells
    <3>3. life[v] \in {"unborn", "live"} /\ version[v] = 0 /\ history[v] = <<>>
      BY <1>1
    <3>4. 0 \in 0..MaxVersion
      BY AgentVersionAssumption
    <3> QED BY <3>2, <3>3, <3>4 DEF RegisterFits, Numbered
  <2>2. \A s \in Sessions : Asked(op[s])
    BY <1>1, IdleIsIdle
  <2> QED BY <2>1, <2>2 DEF TwinFits
<1>4. ASSUME NEW a \in Agents
      PROVE  Chat(a)
  <2> DEFINE v == said[a].veh
             u == said[a].text
  <2>1. NoChat.veh \in Vehicles /\ NoChat.text \in Utterances
        /\ NoChat = [veh |-> NoChat.veh, text |-> NoChat.text]
    BY ChatAssumption DEF NoChat
  <2>2. /\ said[a] = NoChat /\ node[a] = "idle" /\ job[a] = NewJob /\ trace[a] = NoTrace
        /\ op[a] = Twin!Idle
    BY <1>1, AgentsAssumption
  <2>3. TraceFits(NoTrace) /\ NoTrace.tools = <<>> /\ NoTrace.run = "none"
    BY DEF TraceFits, TraceFields, NoTrace
  <2>4. Stage("idle", NewJob, NoTrace)
    BY <2>3, FreshJob DEF Stage, Nodes, Rest
  <2>5. ChatFits(a, "idle", v, u, NewJob, NoTrace, Twin!Idle, life[v], cells[v], history[v])
    BY <2>1, <2>2, <2>3, <2>4, FreshJob DEF ChatFits, CallFits
  <2> QED BY <2>1, <2>2, <2>5 DEF Chat
<1> QED BY <1>2, <1>3, <1>4 DEF AgentInv

LEMMA OwnStepKeeps ==
  ASSUME AgentInv, NEW a \in Agents, SendChat(a) \/ AgentStep(a) \/ Cancel(a)
  PROVE  AgentInv'
<1>1. CASE SendChat(a) \/ Cancel(a)
  BY <1>1, SendChatKeeps, CancelKeeps
<1>2. CASE LoadContext(a) \/ RouteIntent(a) \/ PlanWithModel(a) \/ ValidateTools(a)
           \/ SafetyGate(a)
  BY <1>2, LoadContextKeeps, RouteIntentKeeps, PlanWithModelKeeps, ValidateToolsKeeps,
     SafetyGateKeeps
<1>3. CASE ExecuteBlocked(a) \/ ExecuteCall(a) \/ ExecuteReturn(a) \/ ExecuteDone(a)
  BY <1>3, ExecuteBlockedKeeps, ExecuteCallKeeps, ExecuteReturnKeeps, ExecuteDoneKeeps
<1>4. CASE ComposeResponse(a) \/ CompleteRun(a)
  BY <1>4, ComposeResponseKeeps, CompleteRunKeeps
<1>5. CASE HandleError(a) \/ StepFails(a) \/ ToolRowFails(a)
  BY <1>5, HandleErrorKeeps, StepFailsKeeps, ToolRowFailsKeeps
<1> QED BY <1>1, <1>2, <1>3, <1>4, <1>5 DEF AgentStep

LEMMA AgentKeeps == AgentInv /\ [Next]_vars => AgentInv'
<1> SUFFICES ASSUME AgentInv, [Next]_vars
             PROVE  AgentInv'
  OBVIOUS
<1>1. CASE UNCHANGED vars
  <2>1. UNCHANGED <<life, cells, version, history, op>> /\ UNCHANGED agentVars
    BY <1>1 DEF vars, agentVars
  <2>2. Shapes' /\ ChatShapes' /\ TwinFits'
    BY <2>1 DEF AgentInv, Shapes, ChatShapes, TwinFits, agentVars
  <2>3. ASSUME NEW a \in Agents
        PROVE  Chat(a)'
    BY <2>1, OtherChats DEF agentVars, Meanwhile
  <2> QED BY <2>2, <2>3 DEF AgentInv
<1>2. CASE Next
  BY <1>2, CreateKeeps, OwnStepKeeps, OthersKeep, TwinAnswersKeeps DEF Next
<1> QED BY <1>1, <1>2

LEMMA AgentAlways == Spec => []AgentInv
<1> QED BY AgentInit, AgentKeeps, PTL DEF Spec

--------------------------------------------------------------------------------
\* Whatever the model plans, the commands that reach the gate are the vehicle's own.
LEMMA AgentTypes == AgentInv => TypeOK
<1> SUFFICES ASSUME AgentInv
             PROVE  TypeOK
  OBVIOUS
<1>1. ASSUME NEW a \in Agents
      PROVE  /\ said[a] \in [veh : Vehicles, text : Utterances]
             /\ node[a] \in Rest \cup GraphNodes \cup {"complete_run", "raising"}
             /\ job[a].speed \in Nat
             /\ \A i \in DOMAIN job[a].commands :
                  /\ job[a].commands[i] \in CommandType
                  /\ Normalizable(job[a].commands[i].prop, job[a].commands[i].zone,
                                  job[a].commands[i].value)
             /\ \A i \in DOMAIN job[a].gate : job[a].gate[i] \in SafetyCodes
             /\ \A i \in DOMAIN job[a].outcomes : job[a].outcomes[i] \in OutcomeType
             /\ trace[a].run \in {"none", "running", "success", "blocked", "failed"}
  <2> DEFINE v == said[a].veh
             u == said[a].text
  <2>1. /\ said[a] = [veh |-> v, text |-> u] /\ v \in Vehicles /\ u \in Utterances
        /\ JobFits(job[a]) /\ TraceFits(trace[a]) /\ node[a] \in Nodes
    BY Now DEF ChatFits, Stage
  <2>2. said[a] \in [veh : Vehicles, text : Utterances]
    <3> HIDE DEF v, u
    <3> QED BY <2>1
  <2>3. \A i \in DOMAIN job[a].commands :
          /\ job[a].commands[i] \in CommandType
          /\ Normalizable(job[a].commands[i].prop, job[a].commands[i].zone,
                          job[a].commands[i].value)
    BY <2>1 DEF JobFits, GoodCommands, GoodCommand
  <2>4. /\ job[a].speed \in Nat
        /\ \A i \in DOMAIN job[a].gate : job[a].gate[i] \in SafetyCodes
        /\ \A i \in DOMAIN job[a].outcomes : job[a].outcomes[i] \in OutcomeType
    <3> DEFINE gate == job[a].gate  outcomes == job[a].outcomes
    <3>1. job[a].speed \in Nat /\ gate \in Seq(SafetyCodes) /\ outcomes \in Seq(OutcomeType)
      BY <2>1 DEF JobFits
    <3> HIDE DEF gate, outcomes
    <3>2. (\A i \in DOMAIN gate : gate[i] \in SafetyCodes)
          /\ (\A i \in DOMAIN outcomes : outcomes[i] \in OutcomeType)
      BY <3>1
    <3> QED BY <3>1, <3>2 DEF gate, outcomes
  <2> QED BY <2>1, <2>2, <2>3, <2>4 DEF TraceFits, Nodes
<1>2. node = [a \in Agents |-> node[a]]
  BY DEF AgentInv, ChatShapes
<1> QED BY <1>1, <1>2 DEF TypeOK

\* Type correctness of the agent's state.  Whatever the model plans, what is behind the
\* validator is a command of a known tool on the tool's own cell, with a value it may hold.
THEOREM AgentTyped == Spec => []TypeOK
<1> QED BY AgentAlways, AgentTypes, PTL

LEMMA AgentSaw == AgentInv => ActsOnWhatItSaw
<1> SUFFICES ASSUME AgentInv, NEW a \in Agents,
                    job[a].ctx # NoState, life[said[a].veh] = "live"
             PROVE  LET v == said[a].veh
                    IN  /\ \A n \in (job[a].ctx.version + 1)..job[a].current.version :
                             history[v][n].by = a
                        /\ version[v] = job[a].current.version => cells[v] = job[a].current.cells
  BY DEF ActsOnWhatItSaw
<1> DEFINE v == said[a].veh
<1>1. Saw(history[v], cells[v], a, job[a])
  BY Now DEF ChatFits, Loaded, Knows
<1>2. Len(history[v]) = version[v]
  BY Now DEF RegisterFits
<1> QED BY <1>1, <1>2 DEF Saw

\* The gate's verdict is about the state that the calls are made on: nobody else's
\* change is between the state a chat loaded and the version it last saw.
THEOREM AgentActsOnWhatItSaw == Spec => []ActsOnWhatItSaw
<1> QED BY AgentAlways, AgentSaw, PTL

--------------------------------------------------------------------------------
LEMMA ChangeMade ==
  ASSUME NEW h \in Seq(ChangeType), Numbered(h), NEW n \in 1..Len(h)
  PROVE  h[n] \in Range(h) /\ h[n].version = n
BY DEF Range, Numbered

LEMMA AgentTold == AgentInv => TraceIsTrue
<1> SUFFICES ASSUME AgentInv, NEW a \in Agents, life[said[a].veh] = "live"
             PROVE  /\ \A row \in Range(trace[a].tools) :
                         row.status = "SUCCESS" =>
                           \E e \in Changes(a) :
                             /\ e.version = row.version
                             /\ e.cell = CellOf(row.command) /\ e.new = Stored(row.command)
                    /\ trace[a].run \in {"success", "blocked"} =>
                         LET approved == {i \in DOMAIN job[a].commands : job[a].gate[i] = "APPROVED"}
                             nth(i) == Cardinality({k \in approved : k <= i})
                         IN  {<<e.cell, e.new, e.version>> : e \in Changes(a)} =
                               {<<CellOf(job[a].commands[i]), Stored(job[a].commands[i]),
                                  job[a].ctx.version + nth(i)>> : i \in approved}
  BY DEF TraceIsTrue
<1> DEFINE v == said[a].veh
           j == job[a]
           t == trace[a]
           h == history[v]
<1>1. /\ JobFits(j) /\ TraceFits(t) /\ Stage(node[a], j, t) /\ CallFits(node[a], v, j, op[a])
      /\ (Loaded(j) => Knows(h, cells[v], a, node[a], j, t, op[a]))
      /\ h \in Seq(ChangeType) /\ Numbered(h)
  BY Now DEF ChatFits, RegisterFits
<1>2. j.ctx.version \in Nat /\ j.current.version \in Nat /\ t.tools \in Seq(OutcomeType)
  BY <1>1 DEF JobFits, TraceFits
<1>3. Changes(a) = {e \in Range(h) : e.by = a /\ e.version > j.ctx.version}
  BY DEF Changes
<1>4. ASSUME NEW n, NEW c, Did(h, a, n, c), n > j.ctx.version
      PROVE  h[n] \in Changes(a) /\ h[n].version = n
             /\ h[n].cell = CellOf(c) /\ h[n].new = Stored(c)
  BY <1>1, <1>3, <1>4, ChangeMade DEF Did
<1> HIDE DEF h, j, t, v
<1>5. ASSUME NEW row \in Range(t.tools), row.status = "SUCCESS"
      PROVE  \E e \in Changes(a) :
               /\ e.version = row.version
               /\ e.cell = CellOf(row.command) /\ e.new = Stored(row.command)
  <2>1. PICK i \in 1..Len(t.tools) : row = t.tools[i]
    BY <1>2 DEF Range
  <2>2. Loaded(j)
    <3>1. t.tools # <<>>
      BY <1>2, <2>1
    <3> QED BY <1>1, <3>1 DEF Stage
  <2>3. row.version > j.ctx.version /\ Did(h, a, row.version, row.command)
    BY <1>1, <1>5, <2>1, <2>2 DEF Knows, Recorded
  <2> QED BY <1>4, <2>3
<1>6. ASSUME t.run \in {"success", "blocked"}
      PROVE  LET approved == {i \in DOMAIN j.commands : j.gate[i] = "APPROVED"}
                 nth(i) == Cardinality({k \in approved : k <= i})
             IN  {<<e.cell, e.new, e.version>> : e \in Changes(a)} =
                   {<<CellOf(j.commands[i]), Stored(j.commands[i]), j.ctx.version + nth(i)>> :
                      i \in approved}
  <2> DEFINE A == {i \in DOMAIN j.commands : j.gate[i] = "APPROVED"}
             told(i) == <<CellOf(j.commands[i]), Stored(j.commands[i]),
                          j.ctx.version + UpTo(A, i)>>
  <2>1. node[a] = "answered" /\ NoFailed(j) /\ Loaded(j) /\ Judged(j)
        /\ Len(j.outcomes) = Len(j.commands)
    BY <1>1, <1>6 DEF Stage
  <2>2. op[a].st # "done" /\ OnlyThose(h, a, j, op[a])
    BY <1>1, <2>1, IdleIsIdle DEF CallFits, Knows, AtWork
  <2>3. A = Approved(j) /\ Len(j.gate) = Len(j.commands) /\ Len(j.commands) \in Nat
    BY <1>1, <2>1 DEF Judged, Approved, JobFits
  <2>4. /\ \A m \in Nat : UpTo(A, m) \in Nat
        /\ UpTo(A, Len(j.commands)) = Cardinality(A)
        /\ A \in SUBSET (1..Len(j.commands)) /\ Cardinality(A) \in Nat
    <3>1. ASSUME NEW m \in Nat
          PROVE  /\ UpTo(A, m) \in Nat
                 /\ Len(j.commands) <= m => UpTo(A, m) = Cardinality(A)
      BY <1>1, <2>3, CountApproved
    <3>2. A \in SUBSET (1..Len(j.commands))
      BY <2>3 DEF Approved
    <3>3. UpTo(A, Len(j.commands)) \in Nat /\ UpTo(A, Len(j.commands)) = Cardinality(A)
      <4>1. Len(j.commands) <= Len(j.commands)
        BY <2>3
      <4> QED BY <2>3, <3>1, <4>1
    <3> QED BY <3>1, <3>2, <3>3
  <2> HIDE DEF A
  <2>5. /\ j.current.version = j.ctx.version + Cardinality(A) /\ NoMore(h, a, j.current.version)
        /\ \A i \in A : Did(h, a, j.ctx.version + UpTo(A, i), j.commands[i])
    BY <2>1, <2>2, <2>3, <2>4 DEF OnlyThose
  <2>6. ASSUME NEW i \in A
        PROVE  \E e \in Changes(a) : told(i) = <<e.cell, e.new, e.version>>
    <3> DEFINE n == j.ctx.version + UpTo(A, i)
    <3>1. i \in 1..Len(j.commands) /\ UpTo(A, i) \in Nat
      BY <2>4
    <3>2. UpTo(A, i) >= 1
      <4>1. PICK m \in Nat : i = m + 1
        <5>1. i - 1 \in Nat /\ i = (i - 1) + 1
          BY <3>1
        <5> QED BY <5>1
      <4>2. UpTo(A, m + 1) = UpTo(A, m) + 1 /\ UpTo(A, m) \in Nat
        BY <1>1, <2>3, <4>1, CountApproved
      <4> QED BY <4>1, <4>2
    <3>3. Did(h, a, n, j.commands[i]) /\ n > j.ctx.version
      BY <1>2, <2>5, <3>1, <3>2
    <3> HIDE DEF n
    <3>4. h[n] \in Changes(a) /\ h[n].version = n
          /\ h[n].cell = CellOf(j.commands[i]) /\ h[n].new = Stored(j.commands[i])
      BY <1>4, <3>3
    <3> QED BY <3>4 DEF n
  <2>7. ASSUME NEW e \in Changes(a)
        PROVE  \E i \in A : told(i) = <<e.cell, e.new, e.version>>
    <3>1. PICK n \in 1..Len(h) : e = h[n]
      BY <1>1, <1>3 DEF Range
    <3>2. e.version = n /\ e.by = a /\ n > j.ctx.version /\ Len(h) \in Nat
      BY <1>1, <1>3, <3>1, ChangeMade
    <3>3. n <= j.current.version
      <4>1. ~(n \in (j.current.version + 1)..Len(h))
        BY <2>5, <3>1, <3>2 DEF NoMore
      <4> QED BY <1>2, <3>1, <3>2, <4>1
    <3> DEFINE k == n - j.ctx.version
    <3>4. k \in 1..Cardinality(A) /\ n = j.ctx.version + k
      <4> DEFINE x == j.ctx.version  y == j.current.version  z == Cardinality(A)
      <4>0. z \in Nat /\ y = x + z
        BY <2>4, <2>5
      <4>1. x \in Nat /\ y \in Nat /\ z \in Nat /\ y = x + z /\ n > x /\ n <= y /\ n \in Int
        BY <1>2, <4>0, <3>1, <3>2, <3>3
      <4> HIDE DEF x, y, z
      <4>2. n - x \in 1..z /\ n = x + (n - x)
        BY <4>1
      <4> QED BY <4>2 DEF x, z
    <3> HIDE DEF k
    <3>5. PICK i \in A : UpTo(A, i) = k
      BY <2>3, <2>4, <3>4, Ranked
    <3>6. Did(h, a, n, j.commands[i])
      BY <2>5, <3>4, <3>5
    <3>7. e.cell = CellOf(j.commands[i]) /\ e.new = Stored(j.commands[i])
      BY <3>1, <3>6 DEF Did
    <3> QED BY <3>2, <3>4, <3>5, <3>7
  <2>8. {<<e.cell, e.new, e.version>> : e \in Changes(a)} = {told(i) : i \in A}
    BY <2>6, <2>7
  <2> QED BY <2>8 DEF A, UpTo
<1> QED BY <1>5, <1>6 DEF j, t

\* What is stored of a run is what happened, whoever else drives the vehicle and
\* whichever acknowledgement is lost.
THEOREM AgentTellsTheTruth == Spec => []TraceIsTrue
<1> QED BY AgentAlways, AgentTold, PTL

--------------------------------------------------------------------------------
\* The twin's clients: the chats and the others keep its protocol.
LEMMA SameValues ==
  /\ Twin!WritableValues = WritableValues
  /\ \A p \in WritableProperties : Twin!ValuesOf(p) = ValuesOf(p)
<1>1. /\ Twin!Doors = Doors /\ Twin!Gears = Gears /\ Twin!Lights = Lights /\ Twin!Charges = Charges
      /\ Twin!TempProperties = TempProperties
  BY DEF Doors, Gears, Lights, Charges, Twin!Doors, Twin!Gears, Twin!Lights, Twin!Charges,
     TempProperties, Twin!TempProperties
<1>2. Twin!WritableValues = WritableValues
  BY <1>1 DEF WritableValues, Twin!WritableValues
<1>3. ASSUME NEW p \in WritableProperties
      PROVE  Twin!ValuesOf(p) = ValuesOf(p)
  BY <1>1 DEF ValuesOf, Twin!ValuesOf
<1> QED BY <1>2, <1>3

LEMMA CallsTwin ==
  ASSUME Shapes, NEW s \in Sessions, op[s] = Twin!Idle, NEW o \in Settings \cup Removals,
         op' = [op EXCEPT ![s] = o], UNCHANGED <<life, cells, version, history>>
  PROVE  Twin!Call(s)
<1>1. op'[s] = o
  BY DEF Shapes
<1>2. CASE o \in Removals
  BY <1>1, <1>2 DEF Removals, Twin!Call, Twin!Tell
<1>3. CASE o \in Settings
  <2>1. o \in [st : {"setting"}, veh : Vehicles, cell : WritableCells, value : WritableValues,
               expected : Nat] /\ o.value \in ValuesOf(o.cell[1])
    BY <1>3 DEF Settings
  <2>2. o.cell[1] \in WritableProperties
    BY <2>1 DEF WritableCells
  <2>3. o \in [st : {"setting"}, veh : Vehicles, cell : Twin!WritableCells,
               value : Twin!WritableValues, expected : Nat]
        /\ o.value \in Twin!ValuesOf(o.cell[1])
    BY <2>1, <2>2, SameCells, SameValues
  <2> QED BY <1>1, <2>3 DEF Twin!Call, Twin!Tell
<1> QED BY <1>2, <1>3

LEMMA LeavesTwin ==
  ASSUME Shapes, NEW s \in Sessions, op' = [op EXCEPT ![s] = Twin!Idle],
         UNCHANGED <<life, cells, version, history>>
  PROVE  Twin!Leave(s) \/ UNCHANGED Twin!twinVars
<1>1. CASE op[s] = Twin!Idle
  BY <1>1 DEF Shapes, Twin!twinVars
<1>2. CASE op[s] # Twin!Idle
  BY <1>2 DEF Twin!Leave, Twin!Tell
<1> QED BY <1>1, <1>2

LEMMA TwinStep == AgentInv /\ [Next]_vars => [Twin!Next]_(Twin!twinVars)
<1> SUFFICES ASSUME AgentInv, [Next]_vars
             PROVE  Twin!Next \/ UNCHANGED Twin!twinVars
  OBVIOUS
<1>1. CASE UNCHANGED vars
  BY <1>1 DEF vars, Twin!twinVars
<1>2. ASSUME NEW v \in Vehicles, Twin!Create(v)
      PROVE  Twin!Next
  BY <1>2 DEF Twin!Next
<1>3. ASSUME NEW a \in Agents, SendChat(a) \/ AgentStep(a) \/ Cancel(a)
      PROVE  Twin!Next \/ UNCHANGED Twin!twinVars
  <2>1. a \in Sessions /\ Shapes
    BY AgentsAssumption DEF AgentInv
  <2>2. CASE ExecuteCall(a)
    <3>1. Twin!Call(a)
      BY <2>1, <2>2, ExecuteCallKeeps, CallsTwin DEF ExecuteCall
    <3> QED BY <2>1, <3>1 DEF Twin!Next
  <2>3. CASE ExecuteReturn(a) \/ ToolRowFails(a) \/ Cancel(a)
    <3>1. Twin!Leave(a) \/ UNCHANGED Twin!twinVars
      BY <2>1, <2>3, LeavesTwin DEF ExecuteReturn, ToolRowFails, Cancel
    <3> QED BY <2>1, <3>1 DEF Twin!Next
  <2>4. CASE SendChat(a) \/ LoadContext(a) \/ RouteIntent(a) \/ PlanWithModel(a)
             \/ ValidateTools(a) \/ SafetyGate(a) \/ ExecuteBlocked(a) \/ ExecuteDone(a)
             \/ ComposeResponse(a) \/ CompleteRun(a) \/ HandleError(a) \/ StepFails(a)
    BY <2>4 DEF SendChat, LoadContext, RouteIntent, PlanWithModel, ValidateTools, SafetyGate,
       ExecuteBlocked, ExecuteDone, ComposeResponse, CompleteRun, HandleError, StepFails,
       twinVars, Twin!twinVars
  <2> QED BY <1>3, <2>2, <2>3, <2>4 DEF AgentStep
<1>4. ASSUME NEW s \in Sessions \ Agents, ControlVehicle(s) \/ DeleteVehicle(s) \/ Twin!Leave(s)
      PROVE  Twin!Next
  <2>1. CASE ControlVehicle(s) \/ DeleteVehicle(s)
    <3>1. Twin!Call(s)
      BY <2>1, AskedByOthers, CallsTwin DEF AgentInv
    <3> QED BY <3>1 DEF Twin!Next
  <2>2. CASE Twin!Leave(s)
    BY <2>2 DEF Twin!Next
  <2> QED BY <1>4, <2>1, <2>2
<1>5. ASSUME NEW s \in Sessions, TwinAnswers(s)
      PROVE  Twin!Next
  BY <1>5 DEF TwinAnswers, Twin!Next
<1> QED BY <1>1, <1>2, <1>3, <1>4, <1>5 DEF Next

\* An agent's command, once validated and normalised, is a call that the twin takes,
\* and every step of the system is one of the twin's or leaves it alone: what the
\* twin promises holds here.
THEOREM AgentKeepsTwinProtocol == Spec => KeepsTwinProtocol
<1>1. Init => Twin!Init
  BY DEF Init
<1> QED BY <1>1, AgentAlways, TwinStep, PTL DEF Spec, KeepsTwinProtocol, Twin!Spec

--------------------------------------------------------------------------------
\* Time of check to time of use.
LEMMA OnlySets ==
  ASSUME AgentInv, [Next]_vars, NEW v \in Vehicles, Len(history'[v]) > Len(history[v])
  PROVE  \E s \in Sessions : TwinAnswers(s) /\ Twin!Set(s)
<1>1. history'[v] # history[v]
  <2>1. history[v] \in Seq(ChangeType)
    BY DEF AgentInv, TwinFits, RegisterFits
  <2>2. Len(history[v]) \in Nat
    BY <2>1
  <2> QED BY <2>2
<1>2. PICK s \in Sessions : TwinAnswers(s) /\ (Twin!Set(s) \/ Twin!Remove(s))
  <2>1. Next /\ history' # history
    BY <1>1 DEF vars
  <2>2. ASSUME NEW a \in Agents
        PROVE  ~(SendChat(a) \/ AgentStep(a) \/ Cancel(a))
    BY <2>1 DEF AgentStep, SendChat, LoadContext, RouteIntent, PlanWithModel, ValidateTools,
       SafetyGate, ExecuteBlocked, ExecuteCall, ExecuteReturn, ExecuteDone, ComposeResponse,
       CompleteRun, HandleError, StepFails, ToolRowFails, Cancel, twinVars
  <2>3. ASSUME NEW q \in Sessions
        PROVE  ~(ControlVehicle(q) \/ DeleteVehicle(q) \/ Twin!Leave(q))
    BY <2>1 DEF ControlVehicle, DeleteVehicle, Twin!Leave
  <2>4. ASSUME NEW w \in Vehicles
        PROVE  ~Twin!Create(w)
    BY <2>1 DEF Twin!Create
  <2>5. PICK s \in Sessions : TwinAnswers(s)
    BY <2>1, <2>2, <2>3, <2>4 DEF Next
  <2>6. ~(Twin!Conflict(s) \/ Twin!NotFound(s) \/ Twin!Fail(s))
    BY <2>1 DEF Twin!Conflict, Twin!NotFound, Twin!Fail
  <2> QED BY <2>5, <2>6 DEF TwinAnswers
<1>3. CASE Twin!Remove(s)
  <2>1. history' = [history EXCEPT ![op[s].veh] = <<>>]
    BY <1>3 DEF Twin!Remove
  <2>2. v = op[s].veh => history'[v] = <<>>
    BY <2>1 DEF AgentInv, Shapes
  <2>3. v # op[s].veh => history'[v] = history[v]
    BY <2>1 DEF AgentInv, Shapes
  <2>4. Len(history[v]) \in Nat
    <3>1. history[v] \in Seq(ChangeType)
      BY DEF AgentInv, TwinFits, RegisterFits
    <3> QED BY <3>1
  <2> QED BY <1>1, <2>2, <2>3, <2>4
<1> QED BY <1>2, <1>3

\* What the policy reads is what the chat's own state and the vehicle have in common.
LEMMA SameVerdict ==
  ASSUME NEW c, GoodCommand(c), NEW seen, NEW state, Steady(seen.cells, state.cells), NEW observed
  PROVE  GateCode([prop |-> c.prop, value |-> Stored(c)], state, observed)
           = GateCode(c, seen, observed)
<1> DEFINE d == [prop |-> c.prop, value |-> Stored(c)]
<1>1. Gear(state) = Gear(seen) /\ Speed(state) = Speed(seen)
  BY DEF Steady, Gear, Speed
<1>2. d.prop = c.prop /\ d.value = Stored(c)
  OBVIOUS
<1>3. (OpensDoor(d) <=> OpensDoor(c)) /\ (StartsCharge(d) <=> StartsCharge(c))
  BY <1>2 DEF OpensDoor, StartsCharge, GoodCommand
<1> HIDE DEF d
<1>4. GateCode(d, state, observed) = GateCode(c, seen, observed)
  BY <1>1, <1>2, <1>3 DEF GateCode, Evaluate
<1> QED BY <1>4 DEF d

LEMMA GateStep ==
  ASSUME AgentInv, [Next]_vars, NEW a \in Agents, NEW v \in Vehicles,
         Len(history'[v]) > Len(history[v]), Last(history'[v]).by = a
  PROVE  \E c \in Range(job[a].commands) :
           /\ <<CellOf(c), Stored(c)>> = <<Last(history'[v]).cell, Last(history'[v]).new>>
           /\ GateCode([prop |-> c.prop, value |-> Stored(c)], Seen(v), job[a].speed) = "APPROVED"
<1> DEFINE j == job[a]
           c == NextCommand(j)
           i == Len(j.outcomes) + 1
<1>1. PICK s \in Sessions : Twin!Set(s)
  BY OnlySets
<1> DEFINE e == ChangeOf(s, op[s], cells[op[s].veh], version[op[s].veh])
<1>2. /\ op[s] \in Settings /\ op[s].veh \in Vehicles /\ life[op[s].veh] = "live"
      /\ version[op[s].veh] = op[s].expected
      /\ Len(history[op[s].veh]) = version[op[s].veh] /\ e \in ChangeType
      /\ history' = [history EXCEPT ![op[s].veh] = Append(history[op[s].veh], e)]
  BY <1>1, SetMakes DEF AgentInv
<1>3. history[v] \in Seq(ChangeType) /\ Len(history[v]) \in Nat
  <2>1. history[v] \in Seq(ChangeType)
    BY DEF AgentInv, TwinFits, RegisterFits
  <2> QED BY <2>1
<1>4. v = op[s].veh
  <2>1. v # op[s].veh => history'[v] = history[v]
    BY <1>2 DEF AgentInv, Shapes
  <2> QED BY <1>3, <2>1
<1>5. Last(history'[v]) = e
  <2> HIDE DEF e
  <2>1. history'[v] = Append(history[v], e)
    BY <1>2, <1>4 DEF AgentInv, Shapes
  <2>2. Len(Append(history[v], e)) = Len(history[v]) + 1
        /\ Append(history[v], e)[Len(history[v]) + 1] = e
    BY <1>2, <1>3, AppendProperties
  <2> QED BY <2>1, <2>2 DEF Last
<1>6. s = a /\ e.cell = op[s].cell /\ e.new = op[s].value
  BY <1>5 DEF ChangeOf
<1>7. /\ JobFits(j) /\ Stage(node[a], j, trace[a]) /\ CallFits(node[a], said[a].veh, j, op[a])
  BY StoredSoFar
<1>8. /\ op[a] = CallOf(said[a].veh, j) /\ node[a] = "execute_tools" /\ i \in 1..Len(j.commands)
      /\ j.gate[i] = "APPROVED"
  <2>1. op[a].st = "setting"
    BY <1>2, <1>6 DEF Settings
  <2> QED BY <1>7, <2>1, IdleIsIdle DEF CallFits
<1>9. /\ said[a].veh = v /\ op[a].cell = CellOf(c) /\ op[a].value = Stored(c)
      /\ version[v] = j.current.version
  BY <1>2, <1>4, <1>6, <1>8 DEF CallOf
<1>10. GoodCommand(c) /\ c \in Range(j.commands) /\ Loaded(j) /\ Judged(j)
  <2>1. c \in GoodCommands
    BY <1>7, <1>8 DEF JobFits, NextCommand
  <2>2. DOMAIN j.commands = 1..Len(j.commands)
    BY <1>7 DEF JobFits
  <2>3. c \in Range(j.commands)
    BY <1>8, <2>2 DEF Range, NextCommand
  <2> QED BY <1>7, <1>8, <2>1, <2>3 DEF Stage, GoodCommands
<1>11. GateCode(c, j.ctx, j.speed) = "APPROVED"
  BY <1>8, <1>10 DEF Judged, NextCommand
<1>12. Steady(j.ctx.cells, Seen(v).cells)
  <2>1. Knows(history[v], cells[v], a, node[a], j, trace[a], op[a])
    BY <1>2, <1>4, <1>9, <1>10, Now DEF ChatFits
  <2>2. Steady(j.ctx.cells, cells[v])
    BY <1>2, <1>4, <1>9, <2>1 DEF Knows, Saw
  <2> QED BY <2>2 DEF Seen
<1> HIDE DEF c, j, e
<1>13. GateCode([prop |-> c.prop, value |-> Stored(c)], Seen(v), j.speed) = "APPROVED"
  BY <1>10, <1>11, <1>12, SameVerdict
<1> QED BY <1>5, <1>6, <1>9, <1>10, <1>13 DEF j

\* Whatever a chat changes is approved by the policy on the very state it is applied
\* to, though the gate read an earlier one.
THEOREM AgentGateHolds == Spec => GateHoldsAtTheCall
<1>1. AgentInv /\ [Next]_vars =>
        [\A a \in Agents, v \in Vehicles :
           (Len(history'[v]) > Len(history[v]) /\ Last(history'[v]).by = a) =>
             \E c \in Range(job[a].commands) :
               /\ <<CellOf(c), Stored(c)>> = <<Last(history'[v]).cell, Last(history'[v]).new>>
               /\ GateCode([prop |-> c.prop, value |-> Stored(c)], Seen(v), job[a].speed)
                    = "APPROVED"]_vars
  BY GateStep
<1> QED BY <1>1, AgentAlways, PTL DEF Spec, GateHoldsAtTheCall
================================================================================
