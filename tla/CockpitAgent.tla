------------------------------ MODULE CockpitAgent -----------------------------
(***************************************************************************)
(* One chat request through the cockpit agent: POST /chat resolves the     *)
(* vehicle, CockpitAgentService.run opens a run, drives the graph          *)
(*   load_context -> route_intent [-> model_plan] -> validate_tools        *)
(*     -> safety_gate -> execute_tools -> compose_response                 *)
(* and closes the run.  Each node ends by recording its step; each tool    *)
(* call is recorded as it returns.  Any of those writes may fail.          *)
(*                                                                         *)
(* While a chat runs, other sessions set the same vehicle.  The vehicle is *)
(* VehicleTwin, which VehicleHAL implements: a tool call is a call of the  *)
(* twin, and takes effect at one instant before it returns.                *)
(***************************************************************************)
EXTENDS SafetyPolicy, CheapRouter, SequencesExt

CONSTANTS Vehicles, DemoVehicles,
          Sessions,         \* everything that calls the twin: the chats, and others
          Agents,           \* the sessions that are chats
          Utterances,       \* what users may say
          ModelPlans,       \* the calls the model may plan
          ManualRequests,   \* the <<cell, value>> that the other sessions set
          MaxVersion

ASSUME AgentsAssumption == Agents \subseteq Sessions
ASSUME AgentVersionAssumption == MaxVersion \in Nat
ASSUME ChatAssumption == Vehicles # {} /\ Utterances # {} /\ \A u \in Utterances : u.speed \in Nat
ASSUME PlanAssumption == \A plan \in ModelPlans : \E n \in 0..4 : DOMAIN plan = 1..n
ASSUME ManualAssumption == \A m \in ManualRequests :
                             m[1] \in WritableCells /\ m[2] \in ValuesOf(m[1][1])

VARIABLES life, cells, version, history, op,   \* the twin's
          node,     \* node[a]  : the graph node that agent a runs next, or how it ended
          said,     \* said[a]  : the vehicle and the text of its request
          job,      \* job[a]   : AgentState
          trace     \* trace[a] : what is stored of the run: status, steps, tool_calls

twinVars == <<life, cells, version, history, op>>
agentVars == <<node, said, job, trace>>
vars == <<life, cells, version, history, op, node, said, job, trace>>

Twin == INSTANCE VehicleTwin

--------------------------------------------------------------------------------
GraphNodes ==
  {"load_context", "route_intent", "model_plan", "validate_tools", "safety_gate",
   "execute_tools", "compose_response"}
\* At rest: no chat yet, answered, answered with an error, or cancelled.
Rest == {"idle", "answered", "error", "lost"}

Seen(v) == [cells |-> cells[v], version |-> version[v]]
Gear(state) == state.cells[<<"GEAR", "global">>][2]
Speed(state) == state.cells[<<"VEHICLE_SPEED", "global">>][2]

NoState == [cells |-> <<>>, version |-> 0]        \* before load_context
NewJob ==
  [ctx |-> NoState, speed |-> 0, route |-> "none", calls |-> <<>>, commands |-> <<>>,
   gate |-> <<>>, current |-> NoState, outcomes |-> <<>>, answer |-> "none"]
NoChat == [veh |-> CHOOSE v \in Vehicles : TRUE, text |-> CHOOSE u \in Utterances : TRUE]
NoTrace == [run |-> "none", steps |-> <<>>, tools |-> <<>>]

Init ==
  /\ Twin!Init
  /\ node = [a \in Agents |-> "idle"]
  /\ said = [a \in Agents |-> NoChat]
  /\ job = [a \in Agents |-> NewJob]
  /\ trace = [a \in Agents |-> NoTrace]

Enter(a, n) == node' = [node EXCEPT ![a] = n]
WithStep(a) == [trace EXCEPT ![a].steps = Append(@, node[a])]
WithTool(a, row) == [trace EXCEPT ![a].tools = Append(@, row)]

\* A node ends: its step is stored and the graph goes on.
Visit(a, n) == Enter(a, n) /\ trace' = WithStep(a)

--------------------------------------------------------------------------------
\* POST /chat and create_run, which may fail: an error, and no run.
SendChat(a) ==
  /\ node[a] \in Rest
  /\ \E v \in Vehicles, u \in Utterances :
       /\ life[v] = "live"
       /\ said' = [said EXCEPT ![a] = [veh |-> v, text |-> u]]
  /\ job' = [job EXCEPT ![a] = NewJob]
  /\ \/ /\ Enter(a, "load_context")
        /\ trace' = [trace EXCEPT ![a] = [NoTrace EXCEPT !.run = "running"]]
     \/ Enter(a, "error") /\ trace' = [trace EXCEPT ![a] = NoTrace]
  /\ UNCHANGED twinVars

LoadContext(a) ==
  LET v == said[a].veh
  IN  /\ node[a] = "load_context"
      /\ \/ /\ life[v] = "live"
            /\ job' = [job EXCEPT ![a].ctx = Seen(v), ![a].current = Seen(v)]
            /\ Visit(a, "route_intent")
         \/ life[v] # "live" /\ Enter(a, "raising") /\ UNCHANGED <<job, trace>>
      /\ UNCHANGED <<twinVars, said>>

RouteIntent(a) ==
  LET r == Route(said[a].text)
  IN  /\ node[a] = "route_intent"
      /\ job' = [job EXCEPT ![a].route = r.route, ![a].calls = r.calls, ![a].speed = r.speed]
      /\ Visit(a, CASE r.route = "rule"         -> "validate_tools"
                    [] r.route = "vehicle_info" -> "compose_response"
                    [] r.route = "model"        -> "model_plan")
      /\ UNCHANGED <<twinVars, said>>

\* One call of the model: its plan, or none when it is disabled or fails.
ModelAnswers == ModelPlans \cup {<<>>}
PlanWithModel(a) ==
  /\ node[a] = "model_plan"
  /\ \E plan \in ModelAnswers : job' = [job EXCEPT ![a].calls = plan]
  /\ Visit(a, "validate_tools")
  /\ UNCHANGED <<twinVars, said>>

ValidateTools(a) ==
  /\ node[a] = "validate_tools"
  /\ job' = [job EXCEPT ![a].commands = Commands(job[a].calls)]
  /\ Visit(a, "safety_gate")
  /\ UNCHANGED <<twinVars, said>>

GateCode(c, state, observed) == Evaluate(c, Gear(state), Speed(state), observed)

\* The whole plan is judged on the state that was loaded, before any of it is
\* executed.
SafetyGate(a) ==
  /\ node[a] = "safety_gate"
  /\ job' = [job EXCEPT ![a].gate =
               [i \in DOMAIN job[a].commands |->
                  GateCode(job[a].commands[i], job[a].ctx, job[a].speed)]]
  /\ Visit(a, "execute_tools")
  /\ UNCHANGED <<twinVars, said>>

--------------------------------------------------------------------------------
Turn(a) == Len(job[a].outcomes) + 1
AtTool(a) == node[a] = "execute_tools" /\ Turn(a) \in DOMAIN job[a].commands
Outcome(a, status, n) == [command |-> job[a].commands[Turn(a)], status |-> status, version |-> n]

\* The loop over the gate's decisions: a blocked command is only recorded,
ExecuteBlocked(a) ==
  /\ AtTool(a)
  /\ job[a].gate[Turn(a)] # "APPROVED"
  /\ LET row == Outcome(a, "BLOCKED", 0)
     IN  /\ job' = [job EXCEPT ![a].outcomes = Append(@, row)]
         /\ trace' = WithTool(a, row)
  /\ UNCHANGED <<twinVars, node, said>>

\* an approved one is put to the twin, on the version the agent last saw,
ExpectedVersion_AtTheCall(a) == version[said[a].veh]      \* fault
ExpectedVersion(a) == job[a].current.version

ExecuteCall(a) ==
  LET c == job[a].commands[Turn(a)]
  IN  /\ AtTool(a)
      /\ job[a].gate[Turn(a)] = "APPROVED"
      /\ op[a] = Twin!Idle
      /\ op' = [op EXCEPT ![a] =
                  [st |-> "setting", veh |-> said[a].veh,
                   cell |-> <<c.prop, NormalZone(c.prop, c.zone)>>,
                   value |-> NormalValue(c.prop, c.value), expected |-> ExpectedVersion(a)]]
      /\ UNCHANGED <<life, cells, version, history, agentVars>>

\* and its answer is recorded: the new state becomes current, any exception is
\* a failed call, and the loop goes on.
ToolResult(a) ==
  IF op[a].code = "ok"
  THEN Outcome(a, "SUCCESS", op[a].version)
  ELSE Outcome(a, "FAILED", 0)

\* Faults: a conflict is tried again; a conflict's version is adopted.
ExecuteReturn_Retry(a) ==
  /\ AtTool(a) /\ op[a].st = "done"
  /\ op' = [op EXCEPT ![a] = Twin!Idle]
  /\ \/ op[a].code = "conflict" /\ UNCHANGED <<job, trace>>
     \/ /\ op[a].code # "conflict"
        /\ job' = [job EXCEPT ![a].outcomes = Append(@, ToolResult(a))]
        /\ trace' = WithTool(a, ToolResult(a))
  /\ UNCHANGED <<life, cells, version, history, node, said>>
AfterCall_Adopts(a) ==
  IF op[a].code \in {"ok", "conflict"}
  THEN [cells |-> IF op[a].code = "ok" THEN op[a].view ELSE job[a].current.cells,
        version |-> op[a].version]
  ELSE job[a].current
AfterCall(a) ==
  IF op[a].code = "ok" THEN [cells |-> op[a].view, version |-> op[a].version]
  ELSE job[a].current

ExecuteReturn(a) ==
  /\ AtTool(a)
  /\ op[a].st = "done"
  /\ op' = [op EXCEPT ![a] = Twin!Idle]
  /\ job' = [job EXCEPT ![a].outcomes = Append(@, ToolResult(a)), ![a].current = AfterCall(a)]
  /\ trace' = WithTool(a, ToolResult(a))
  /\ UNCHANGED <<life, cells, version, history, node, said>>

ExecuteDone(a) ==
  /\ node[a] = "execute_tools"
  /\ ~AtTool(a)
  /\ Visit(a, "compose_response")
  /\ UNCHANGED <<twinVars, said, job>>

--------------------------------------------------------------------------------
Some(a, status) == \E i \in DOMAIN job[a].outcomes : job[a].outcomes[i].status = status

ComposeResponse(a) ==
  /\ node[a] = "compose_response"
  /\ job' = [job EXCEPT ![a].answer =
               CASE Some(a, "BLOCKED")                        -> "not_executed"
                 [] ~Some(a, "BLOCKED") /\ Some(a, "FAILED")  -> "not_completed"
                 [] job[a].route = "vehicle_info"             -> "charge_and_range"
                 [] job[a].route # "vehicle_info" /\ job[a].outcomes = <<>> -> "unsure"
                 [] OTHER                                     -> "all_set"]
  /\ Visit(a, "complete_run")
  /\ UNCHANGED <<twinVars, said>>

\* The status a run is closed with; fault: only the last outcome is looked at.
Verdict_OfLast(a) ==
  IF job[a].outcomes = <<>> THEN "success"
  ELSE CASE Last(job[a].outcomes).status = "FAILED"  -> "failed"
         [] Last(job[a].outcomes).status = "BLOCKED" -> "blocked"
         [] OTHER -> "success"
Verdict(a) ==
  CASE Some(a, "FAILED")                       -> "failed"
    [] ~Some(a, "FAILED") /\ Some(a, "BLOCKED") -> "blocked"
    [] OTHER                                   -> "success"

\* complete_run; when it fails there is an error answer and the run stays open.
CompleteRun(a) ==
  /\ node[a] = "complete_run"
  /\ \/ Enter(a, "answered") /\ trace' = [trace EXCEPT ![a].run = Verdict(a)]
     \/ Enter(a, "error") /\ UNCHANGED trace
  /\ UNCHANGED <<twinVars, said, job>>

\* run's except clause: the run is closed as failed, unless that fails too.
HandleError(a) ==
  /\ node[a] = "raising"
  /\ Enter(a, "error")
  /\ \/ trace' = [trace EXCEPT ![a].run = "failed"]
     \/ UNCHANGED trace
  /\ UNCHANGED <<twinVars, said, job>>

--------------------------------------------------------------------------------
\* A node's own query, or the recording of its step or of its tool call, fails:
\* the row is stored or it is not, and the graph raises.
StepFails(a) ==
  /\ node[a] \in GraphNodes /\ ~AtTool(a)
  /\ Enter(a, "raising")
  /\ \/ trace' = WithStep(a)
     \/ UNCHANGED trace
  /\ UNCHANGED <<twinVars, said, job>>

ToolRowFails(a) ==
  /\ AtTool(a)
  /\ \/ op[a].st = "done" /\ trace' \in {trace, WithTool(a, ToolResult(a))}
     \/ /\ job[a].gate[Turn(a)] # "APPROVED"
        /\ trace' \in {trace, WithTool(a, Outcome(a, "BLOCKED", 0))}
  /\ op' = [op EXCEPT ![a] = Twin!Idle]
  /\ Enter(a, "raising")
  /\ UNCHANGED <<life, cells, version, history, said, job>>

\* The handler is cancelled (the server stops, or passes on the middleware's
\* deadline) or the process dies: no except clause runs, a transaction under way is rolled back.
Cancel(a) ==
  /\ node[a] \notin Rest
  /\ Enter(a, "lost")
  /\ op' = [op EXCEPT ![a] = Twin!Idle]
  /\ UNCHANGED <<life, cells, version, history, said, job, trace>>

AgentStep(a) ==
  \/ LoadContext(a) \/ RouteIntent(a) \/ PlanWithModel(a) \/ ValidateTools(a) \/ SafetyGate(a)
  \/ ExecuteBlocked(a) \/ ExecuteCall(a) \/ ExecuteReturn(a) \/ ExecuteDone(a)
  \/ ComposeResponse(a) \/ CompleteRun(a) \/ HandleError(a)
  \/ StepFails(a) \/ ToolRowFails(a)

--------------------------------------------------------------------------------
\* The other sessions: POST /vehicle/control and the garage's delete.
ControlVehicle(s) ==
  /\ op[s] = Twin!Idle
  /\ \E v \in Vehicles, m \in ManualRequests, e \in 0..MaxVersion :
       op' = [op EXCEPT ![s] = [st |-> "setting", veh |-> v, cell |-> m[1], value |-> m[2],
                                expected |-> e]]
  /\ UNCHANGED <<life, cells, version, history, agentVars>>

DeleteVehicle(s) ==
  /\ op[s] = Twin!Idle
  /\ \E v \in Vehicles \ DemoVehicles : op' = [op EXCEPT ![s] = [st |-> "removing", veh |-> v]]
  /\ UNCHANGED <<life, cells, version, history, agentVars>>

\* The twin's answer to a call.
TwinAnswers(s) ==
  /\ Twin!Set(s) \/ Twin!Remove(s) \/ Twin!Conflict(s) \/ Twin!NotFound(s) \/ Twin!Fail(s)
  /\ UNCHANGED agentVars

Next ==
  \/ \E v \in Vehicles : Twin!Create(v) /\ UNCHANGED agentVars
  \/ \E a \in Agents : SendChat(a) \/ AgentStep(a) \/ Cancel(a)
  \/ \E s \in Sessions \ Agents :
       \/ ControlVehicle(s) \/ DeleteVehicle(s)
       \/ Twin!Leave(s) /\ UNCHANGED agentVars
  \/ \E s \in Sessions : TwinAnswers(s)

Spec == Init /\ [][Next]_vars

\* Whoever calls the vehicle, only well-formed calls reach it: the twin sees a
\* client that keeps its protocol, and an agent's command, once validated and
\* normalised, is within the vehicle's own rules.
KeepsTwinProtocol == Twin!Spec

\* The event loop runs what is ready; the model's call and every statement end,
\* by an answer or by their timeout (VehicleHAL!CallsEnd for the twin's calls).
Fairness == \A a \in Agents : WF_vars(AgentStep(a)) /\ WF_vars(TwinAnswers(a))
FairSpec == Spec /\ Fairness

--------------------------------------------------------------------------------
CommandType ==
  [name : ToolNames, prop : WritableProperties, zone : ZoneNames,
   value : WritableValues \cup {"int"} \X (0..100)]
OutcomeType == [command : CommandType, status : {"SUCCESS", "FAILED", "BLOCKED"}, version : Nat]

\* Types.  Every command that came out of validate_tools, whatever the model
\* planned, is one that the vehicle's own rules accept, so a FAILED outcome is
\* never a validation error in disguise, and is spelled as the vehicle spells
\* it, so that the gate's comparison with "OPEN" cannot miss an "open".
TypeOK ==
  /\ node \in [Agents -> Rest \cup GraphNodes \cup {"complete_run", "raising"}]
  /\ \A a \in Agents :
       /\ said[a] \in [veh : Vehicles, text : Utterances]
       /\ job[a].speed \in Nat
       /\ \A i \in DOMAIN job[a].commands :
            /\ job[a].commands[i] \in CommandType
            /\ Normalizable(job[a].commands[i].prop, job[a].commands[i].zone,
                            job[a].commands[i].value)
       /\ \A i \in DOMAIN job[a].gate : job[a].gate[i] \in SafetyCodes
       /\ \A i \in DOMAIN job[a].outcomes : job[a].outcomes[i] \in OutcomeType
       /\ trace[a].run \in {"none", "running", "success", "blocked", "failed"}

CellOf(c) == <<c.prop, c.zone>>
Stored(c) == NormalValue(c.prop, c.value)

\* The changes agent a made to its vehicle since it loaded the state.
Changes(a) ==
  {h \in Range(history[said[a].veh]) : h.by = a /\ h.version > job[a].ctx.version}

\* Time of check to time of use: the gate judges a plan once, before its first
\* call, and other sessions shift gears meanwhile.  Still, whatever an agent
\* changes is approved by the policy on the very state it is applied to.
GateHoldsAtTheCall ==
  [][\A a \in Agents, v \in Vehicles :
       (Len(history'[v]) > Len(history[v]) /\ Last(history'[v]).by = a) =>
         \E c \in Range(job[a].commands) :
           /\ <<CellOf(c), Stored(c)>> = <<Last(history'[v]).cell, Last(history'[v]).new>>
           /\ GateCode([prop |-> c.prop, value |-> Stored(c)], Seen(v), job[a].speed)
                = "APPROVED"]_vars

\* The state an agent works on is the vehicle's own, with nobody else's change
\* between the state its plan was judged on and its last success; the state it
\* shows the user is one the vehicle had.
ActsOnWhatItSaw ==
  \A a \in Agents :
    LET v == said[a].veh
    IN  (job[a].ctx # NoState /\ life[v] = "live") =>
          /\ \A n \in (job[a].ctx.version + 1)..job[a].current.version :
               history[v][n].by = a
          /\ version[v] = job[a].current.version => cells[v] = job[a].current.cells

\* The stored run tells the truth: a tool call stored as a success is in the
\* vehicle's history, and a run closed as success or as blocked did all that
\* the gate approved, in order, and nothing else - even when acknowledgements
\* were lost and other sessions interfered.
TraceIsTrue ==
  \A a \in Agents :
    life[said[a].veh] = "live" =>
      /\ \A row \in Range(trace[a].tools) :
           row.status = "SUCCESS" =>
             \E h \in Changes(a) :
               /\ h.version = row.version
               /\ h.cell = CellOf(row.command) /\ h.new = Stored(row.command)
      /\ trace[a].run \in {"success", "blocked"} =>
           LET approved == {i \in DOMAIN job[a].commands : job[a].gate[i] = "APPROVED"}
               nth(i) == Cardinality({j \in approved : j <= i})
           IN  {<<h.cell, h.new, h.version>> : h \in Changes(a)} =
                 {<<CellOf(job[a].commands[i]), Stored(job[a].commands[i]),
                    job[a].ctx.version + nth(i)>> : i \in approved}

\* Every chat ends in an answer or an error, whatever fails under way.
ChatEnds == \A a \in Agents : node[a] \notin Rest ~> node[a] \in Rest

\* docs/phase-2-architecture.md: a door is never opened when the user's stated
\* speed is above 0.  Not so when the model plans the call.
StatedSpeedBlocksDoor ==
  \A a \in Agents :
    \A i \in DOMAIN job[a].outcomes :
      ~(/\ said[a].text.speed > 0
        /\ OpensDoor(job[a].outcomes[i].command)
        /\ job[a].outcomes[i].status = "SUCCESS")
================================================================================
