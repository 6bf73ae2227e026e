------------------------------- MODULE VehicleHAL ------------------------------
(***************************************************************************)
(* The vehicle's digital twin as the API keeps it in Postgres:             *)
(* PostgresVehicleHAL and VehicleService (set_property), the route         *)
(* POST /vehicle/control, and the garage's create and delete, which cut    *)
(* across it.                                                              *)
(*                                                                         *)
(* A session is one request's database session.  Its transaction is split  *)
(* at every statement, because READ COMMITTED lets other sessions commit   *)
(* in between: SELECT, UPDATE ... WHERE version, INSERT of the audit row,  *)
(* COMMIT.  The two row locks that matter are derived from where the       *)
(* sessions are: the vehicle_states row is locked from the UPDATE (or the  *)
(* cascading DELETE) to the end of the transaction, the vehicles row       *)
(* shared from the INSERT (its foreign key) and exclusively from the       *)
(* DELETE.                                                                 *)
(***************************************************************************)
EXTENDS VehicleProperties, Sequences, SequencesExt

CONSTANTS Vehicles, DemoVehicles,   \* all vehicles; those a migration seeds
          Sessions,                 \* database sessions, one per running request
          RawRequests,              \* the <<property, zone, raw value>> a caller may send
          ExpectedVersions,         \* the expected_version a caller may send
          MaxVersion                \* the largest value the version column holds

ASSUME MaxVersionAssumption == MaxVersion \in Nat
ASSUME VehiclesAssumption == Vehicles # {}
ASSUME DemoAssumption == DemoVehicles \subseteq Vehicles
ASSUME ExpectedAssumption == ExpectedVersions \subseteq Nat

VARIABLES life,     \* life[v]   : is there a vehicles row, not yet, or no more
          store,    \* store[v]  : the committed vehicle_states row
          audits,   \* audits[v] : the committed vehicle_state_audits rows, oldest first
          pc,       \* pc[s]     : where session s is
          req,      \* req[s]    : the normalised request it carries out
          snap,     \* snap[s]   : the state it read; after its UPDATE, the state it wrote
          reply     \* reply[s]  : the answer it has been given

rowVars == <<life, store, audits>>
sessionVars == <<pc, req, snap, reply>>
vars == <<life, store, audits, pc, req, snap, reply>>

--------------------------------------------------------------------------------
SetSteps == {"read", "update", "reread", "audit", "commit"}
DeleteSteps == {"d_parent", "d_child", "d_commit"}

\* The states rows are born with: the migration's demo vehicle, and
\* GarageRepository.create.
BornWith(soc, km) ==
  [speed_kph |-> 0, gear |-> "P", battery_soc |-> soc, range_km |-> km,
   climate |-> [z \in SeatZones |-> 22], seat_heat |-> [z \in SeatZones |-> 0],
   window_position |-> [z \in SeatZones |-> 0],
   door_state |-> [z \in SeatZones |-> "CLOSED"],
   light_state |-> "OFF", charge_status |-> "IDLE", version |-> 0]
DemoState == BornWith(78, 421)
NewState == BornWith(0, 0)
BirthState(v) == IF v \in DemoVehicles THEN DemoState ELSE NewState

Request(v, p, z, x, e) == [veh |-> v, prop |-> p, zone |-> z, value |-> x, expected |-> e]
Removal(v) == Request(v, "LIGHT_STATE", "global", Text("OFF"), 0)     \* only veh matters
NoRequest == Removal(CHOOSE v \in Vehicles : TRUE)
Reply(code, n) == [code |-> code, version |-> n]
NoReply == Reply("none", 0)

Init ==
  /\ life = [v \in Vehicles |-> IF v \in DemoVehicles THEN "live" ELSE "unborn"]
  /\ store = [v \in Vehicles |-> BirthState(v)]
  /\ audits = [v \in Vehicles |-> <<>>]
  /\ pc = [s \in Sessions |-> "idle"]
  /\ req = [s \in Sessions |-> NoRequest]
  /\ snap = [s \in Sessions |-> NewState]
  /\ reply = [s \in Sessions |-> NoReply]

--------------------------------------------------------------------------------
Goto(s, step) == pc' = [pc EXCEPT ![s] = step]

\* The transaction ends, committed or rolled back, and the caller is answered.
Finish(s, code, n) ==
  /\ Goto(s, "done")
  /\ reply' = [reply EXCEPT ![s] = Reply(code, n)]

\* Another session's transaction holds the vehicle_states row, the vehicles row.
At(v, steps) == \E t \in Sessions : pc[t] \in steps /\ req[t].veh = v
RowLocked(v) == At(v, {"audit", "commit", "d_commit"})
ParentLocked(v) == At(v, {"d_child", "d_commit"})
ParentShared(v) == At(v, {"commit"})

Live(v) == life[v] = "live"

\* A normalised call of PostgresVehicleHAL.set_property enters its transaction.
BeginSet(s, v, p, z, x, e) ==
  /\ Goto(s, "read")
  /\ req' = [req EXCEPT ![s] = Request(v, p, z, x, e)]
  /\ UNCHANGED <<snap, reply>>

\* POST /vehicle/control: the garage resolves the vehicle, then
\* VehicleService.set_property normalises the value.
ControlVehicle(s) ==
  /\ pc[s] = "idle"
  /\ \E v \in Vehicles, r \in RawRequests, e \in ExpectedVersions :
       \/ ~Live(v) /\ Finish(s, "not_found", 0) /\ UNCHANGED <<req, snap>>
       \/ Live(v) /\ ~Normalizable(r[1], r[2], r[3])
            /\ Finish(s, "invalid", 0) /\ UNCHANGED <<req, snap>>
       \/ Live(v) /\ Normalizable(r[1], r[2], r[3])
            /\ BeginSet(s, v, r[1], NormalZone(r[1], r[2]), NormalValue(r[1], r[3]), e)
  /\ UNCHANGED rowVars

\* SELECT, and the comparison with expected_version.
TxnRead(s) ==
  LET v == req[s].veh
  IN  /\ pc[s] = "read"
      /\ \/ ~Live(v) /\ Finish(s, "not_found", 0) /\ UNCHANGED snap
         \/ /\ Live(v) /\ store[v].version # req[s].expected
            /\ Finish(s, "conflict", store[v].version) /\ UNCHANGED snap
         \/ /\ Live(v) /\ store[v].version = req[s].expected
            /\ Goto(s, "update") /\ snap' = [snap EXCEPT ![s] = store[v]]
            /\ UNCHANGED reply
      /\ UNCHANGED <<rowVars, req>>

\* UPDATE ... WHERE version = the version read: waits for the row's lock, then
\* looks at the row as the holder left it.
RowMatches_AnyVersion(s) == Live(req[s].veh)      \* fault: no version in the WHERE
RowMatches(s) == Live(req[s].veh) /\ store[req[s].veh].version = snap[s].version

TxnUpdate(s) ==
  /\ pc[s] = "update"
  /\ ~RowLocked(req[s].veh)
  /\ \/ ~RowMatches(s) /\ Goto(s, "reread") /\ UNCHANGED reply
     \/ RowMatches(s) /\ snap[s].version < MaxVersion /\ Goto(s, "audit") /\ UNCHANGED reply
     \/ RowMatches(s) /\ snap[s].version >= MaxVersion /\ Finish(s, "storage", 0)
  /\ UNCHANGED <<rowVars, req, snap>>

\* Faults: the conflict tells the version that was read; the row is waited for.
CurrentVersion_Stale(s) ==
  /\ pc[s] = "reread"
  /\ Finish(s, "conflict", snap[s].version)
  /\ UNCHANGED <<rowVars, req, snap>>
CurrentVersion_WaitsForRow(s) ==
  /\ pc[s] = "reread" /\ Live(req[s].veh)
  /\ Finish(s, "conflict", store[req[s].veh].version)
  /\ UNCHANGED <<rowVars, req, snap>>

\* _current_version, for the conflict answer.
CurrentVersion(s) ==
  LET v == req[s].veh
  IN  /\ pc[s] = "reread"
      /\ \/ Live(v) /\ Finish(s, "conflict", store[v].version)
         \/ ~Live(v) /\ Finish(s, "not_found", 0)
      /\ UNCHANGED <<rowVars, req, snap>>

\* The audit row is flushed; its foreign key shares the vehicles row.
InsertAudit(s) ==
  /\ pc[s] = "audit"
  /\ ~ParentLocked(req[s].veh)
  /\ Goto(s, "commit")
  /\ UNCHANGED <<rowVars, req, snap, reply>>

\* What the UPDATE writes: every writable column, from the state that was read.
Candidate(s) == ApplyProperty(snap[s], req[s].prop, req[s].zone, req[s].value)
WriteColumns_KeepVersion(row, c, n) == [c EXCEPT !.version = row.version]    \* fault
WriteColumns(row, c, n) ==
  [row EXCEPT !.gear = c.gear, !.climate = c.climate, !.seat_heat = c.seat_heat,
              !.window_position = c.window_position, !.door_state = c.door_state,
              !.light_state = c.light_state, !.charge_status = c.charge_status,
              !.version = n]
AuditRow(s) ==
  [by |-> s, cell |-> <<req[s].prop, req[s].zone>>,
   old |-> ReadProperty(snap[s], req[s].prop, req[s].zone),
   new |-> req[s].value, version |-> snap[s].version + 1]

CommitRows(s) ==
  LET v == req[s].veh
  IN  /\ store' = [store EXCEPT ![v] = WriteColumns(@, Candidate(s), snap[s].version + 1)]
      /\ audits' = [audits EXCEPT ![v] = Append(@, AuditRow(s))]
      /\ snap' = [snap EXCEPT ![s] = store'[v]]
      /\ UNCHANGED <<life, req>>

TxnCommit(s) ==
  /\ pc[s] = "commit"
  /\ CommitRows(s)
  /\ Finish(s, "ok", snap[s].version + 1)

\* The COMMIT took effect and its acknowledgement is lost: a storage error.
TxnCommitAckLost(s) ==
  /\ pc[s] = "commit"
  /\ CommitRows(s)
  /\ Finish(s, "storage", 0)

--------------------------------------------------------------------------------
\* GarageRepository.create: the vehicle and its state in one transaction.
GarageCreate(v) ==
  /\ life[v] = "unborn"
  /\ life' = [life EXCEPT ![v] = "live"]
  /\ UNCHANGED <<store, audits, sessionVars>>

\* GarageRepository.delete: DELETE of the vehicles row, which cascades.
GarageDelete(s) ==
  /\ pc[s] = "idle"
  /\ \E v \in Vehicles \ DemoVehicles : req' = [req EXCEPT ![s] = Removal(v)]
  /\ Goto(s, "d_parent")
  /\ UNCHANGED <<rowVars, snap, reply>>

DeleteParent(s) ==
  LET v == req[s].veh
  IN  /\ pc[s] = "d_parent"
      /\ ~ParentLocked(v) /\ ~ParentShared(v)
      /\ \/ Live(v) /\ Goto(s, "d_child") /\ UNCHANGED reply
         \/ ~Live(v) /\ Finish(s, "not_found", 0)
      /\ UNCHANGED <<rowVars, req, snap>>

DeleteCascade(s) ==
  /\ pc[s] = "d_child"
  /\ ~RowLocked(req[s].veh)
  /\ Goto(s, "d_commit")
  /\ UNCHANGED <<rowVars, req, snap, reply>>

DeleteCommit(s) ==
  LET v == req[s].veh
  IN  /\ pc[s] = "d_commit"
      /\ life' = [life EXCEPT ![v] = "removed"]
      /\ audits' = [audits EXCEPT ![v] = <<>>]
      /\ \/ Finish(s, "ok", 0)
         \/ Finish(s, "storage", 0)
      /\ UNCHANGED <<store, req, snap>>

--------------------------------------------------------------------------------
InTransaction(s) == pc[s] \in SetSteps \cup DeleteSteps

\* A setter holds the state row and wants the vehicles row, a deleter holds
\* the vehicles row and wants the state row: Postgres aborts one of the two.
DeadlockVictim(s) ==
  /\ \/ pc[s] = "audit" /\ At(req[s].veh, {"d_child"})
     \/ pc[s] = "d_child" /\ At(req[s].veh, {"audit"})
  /\ Finish(s, "storage", 0)
  /\ UNCHANGED <<rowVars, req, snap>>

\* Any statement may fail (SQLAlchemyError): rollback, VehicleStorageError.
StorageFail(s) ==
  /\ InTransaction(s)
  /\ Finish(s, "storage", 0)
  /\ UNCHANGED <<rowVars, req, snap>>

Reset(s) ==
  /\ Goto(s, "idle")
  /\ req' = [req EXCEPT ![s] = NoRequest]
  /\ snap' = [snap EXCEPT ![s] = NewState]
  /\ reply' = [reply EXCEPT ![s] = NoReply]
  /\ UNCHANGED rowVars

\* The request is cancelled, or the process dies: rollback, and no answer.
Abandon(s) == InTransaction(s) /\ Reset(s)

\* The caller has its answer and the session is free.
Respond(s) == pc[s] = "done" /\ Reset(s)

Work(s) ==
  \/ TxnRead(s) \/ TxnUpdate(s) \/ CurrentVersion(s) \/ InsertAudit(s)
  \/ TxnCommit(s) \/ TxnCommitAckLost(s)
  \/ DeleteParent(s) \/ DeleteCascade(s) \/ DeleteCommit(s)

Fault(s) == DeadlockVictim(s) \/ StorageFail(s) \/ Abandon(s)

Next ==
  \/ \E v \in Vehicles : GarageCreate(v)
  \/ \E s \in Sessions : ControlVehicle(s) \/ GarageDelete(s)
                           \/ Work(s) \/ Fault(s) \/ Respond(s)

Spec == Init /\ [][Next]_vars

\* A session's next statement is sent in the end; a lock is granted in the
\* order of its queue, so one that is free again and again is granted (SF);
\* Postgres finds a deadlock after deadlock_timeout.
Fairness ==
  \A s \in Sessions :
    /\ SF_vars(Work(s))
    /\ WF_vars(DeadlockVictim(s))
FairSpec == Spec /\ Fairness

--------------------------------------------------------------------------------
Requests ==
  [veh : Vehicles, prop : WritableProperties, zone : ZoneNames, value : WritableValues,
   expected : Nat]
Codes == {"none", "ok", "conflict", "not_found", "invalid", "storage"}

\* A request that set_property hands on is normalised: it names a cell and a
\* value that cell may hold.
Normalised(r) == <<r.prop, r.zone>> \in WritableCells /\ r.value \in ValuesOf(r.prop)

AuditEntry ==
  [by : Sessions, cell : WritableCells, old : WritableValues, new : WritableValues,
   version : Nat]

\* Types.  Every stored state keeps to the bounds of its properties: no request,
\* however it is spelled, brings a value outside them into the store.
TypeOK ==
  /\ life \in [Vehicles -> {"unborn", "live", "removed"}]
  /\ store \in [Vehicles -> VehicleState]
  /\ audits \in [Vehicles -> Seq(AuditEntry)]
  /\ pc \in [Sessions -> {"idle", "done"} \cup SetSteps \cup DeleteSteps]
  /\ req \in [Sessions -> Requests]
  /\ \A s \in Sessions : Normalised(req[s])
  /\ snap \in [Sessions -> VehicleState]
  /\ reply \in [Sessions -> [code : Codes, version : Nat]]

\* The state row belongs to at most one transaction between its UPDATE and its
\* end, and while it does the row is still the one that transaction read: the
\* candidate it is about to commit was computed from the current state, so no
\* other session's write is lost under it.
NoLostUpdate ==
  \A s \in Sessions :
    pc[s] \in {"audit", "commit"} =>
      /\ Live(req[s].veh)
      /\ snap[s] = store[req[s].veh]
      /\ \A t \in Sessions \ {s} :
           req[t].veh = req[s].veh => pc[t] \notin {"audit", "commit", "d_commit"}

\* Cell c of vehicle v held value x after its first n changes, as the audit
\* rows tell it.
HeldAfter(v, c, n, x) ==
  \/ /\ x = ReadProperty(BirthState(v), c[1], c[2])
     /\ \A i \in 1..n : audits[v][i].cell # c
  \/ \E i \in 1..n :
       /\ audits[v][i].cell = c /\ audits[v][i].new = x
       /\ \A j \in (i + 1)..n : audits[v][j].cell # c

\* The audit rows are the history of the twin: one for each version, in order,
\* each telling the value it replaced, and replaying them gives the state that
\* is stored.  A lost update, an audit row without its write, or a write that
\* touched a second property would break it.
AuditReplay ==
  \A v \in Vehicles :
    life[v] # "removed" =>
      /\ Len(audits[v]) = store[v].version
      /\ \A i \in 1..Len(audits[v]) :
           /\ audits[v][i].version = i
           /\ HeldAfter(v, audits[v][i].cell, i - 1, audits[v][i].old)
      /\ \A c \in Cells :
           HeldAfter(v, c, Len(audits[v]), ReadProperty(store[v], c[1], c[2]))

\* What a vehicle's state may do in one step: nothing, or one more version
\* with one more audit row (docs/phase-1-architecture.md: the update succeeds
\* only while the version matches; audits are immutable events).
HistoryOnlyGrows ==
  [][\A v \in Vehicles :
       life'[v] # "removed" =>
         \/ store'[v] = store[v] /\ audits'[v] = audits[v]
         \/ /\ store'[v].version = store[v].version + 1
            /\ audits'[v] = Append(audits[v], Last(audits'[v]))]_vars

\* Every call is answered: no transaction waits for ever for a row, deadlocks
\* between set_property and the garage's delete included.
CallsEnd == \A s \in Sessions : InTransaction(s) ~> ~InTransaction(s)

\* The refinement mapping: a call's transaction is one step of the twin.
OpOf(s) ==
  CASE pc[s] = "idle" -> [st |-> "idle"]
    [] pc[s] \in SetSteps ->
         [st |-> "setting", veh |-> req[s].veh, cell |-> <<req[s].prop, req[s].zone>>,
          value |-> req[s].value, expected |-> req[s].expected]
    [] pc[s] \in DeleteSteps -> [st |-> "removing", veh |-> req[s].veh]
    [] pc[s] = "done" ->
         [st |-> "done", code |-> reply[s].code, version |-> reply[s].version,
          view |-> IF reply[s].code = "ok" /\ reply[s].version > 0
                   THEN [c \in Cells |-> ReadProperty(snap[s], c[1], c[2])] ELSE <<>>]

TwinOf == INSTANCE VehicleTwin WITH
  cells   <- [v \in Vehicles |-> [c \in Cells |-> ReadProperty(store[v], c[1], c[2])]],
  version <- [v \in Vehicles |-> store[v].version],
  history <- audits,
  op      <- [s \in Sessions |-> OpOf(s)]

\* Linearizability: whatever the sessions' statements interleave to, every call
\* of set_property and of the garage's delete behaves as one atomic step of
\* VehicleTwin between its call and its answer, and its answer is true.
ImplementsTwin == TwinOf!Spec
================================================================================
