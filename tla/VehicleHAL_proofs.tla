---------------------------- MODULE VehicleHAL_proofs --------------------------
(***************************************************************************)
(* Safety of VehicleHAL for any vehicles, sessions, requests and column    *)
(* width.  The layers: types; then NoLostUpdate, which needs to know what  *)
(* a session that waits for its UPDATE may still hold (SnapshotInv); then  *)
(* AuditReplay, which rests on NoLostUpdate at the commit; then the        *)
(* refinement of VehicleTwin, which needs what each call may count on.     *)
(***************************************************************************)
EXTENDS VehicleHAL, SequenceTheorems, TLAPS

--------------------------------------------------------------------------------
\* What the property rules guarantee, for every request and every state.

\* A request that normalize_property_value lets through names a cell that can be
\* written and a value that cell may hold, whatever zone was left out and
\* however the value was spelled.
LEMMA NormalizeTyped ==
  ASSUME NEW p, NEW z, NEW raw, Normalizable(p, z, raw)
  PROVE  /\ <<p, NormalZone(p, z)>> \in WritableCells
         /\ NormalValue(p, raw) \in ValuesOf(p)
<1>1. p \in TempProperties \/ p \in ZonedProperties \/ p \in GlobalProperties
  BY DEF Normalizable, ZoneAccepted, TempProperties
<1>2. <<p, NormalZone(p, z)>> \in WritableCells
  BY <1>1 DEF Normalizable, ZoneAccepted, NormalZone, WritableCells, Cells,
     WritableProperties, TempProperties, ZonedProperties, GlobalProperties,
     ReadOnlyProperties, SeatZones
<1>3. NormalValue(p, raw) \in ValuesOf(p)
  BY <1>1 DEF Normalizable, ValueAccepted, NormalValue, ValuesOf, Float, Integer, Text,
     RequireNumber, RequireInteger, RequireChoice,
     TempProperties, ZonedProperties, GlobalProperties
<1> QED BY <1>2, <1>3

\* The cells that can be written, one kind at a time.
LEMMA WritableCellKinds ==
  ASSUME NEW c \in WritableCells
  PROVE  /\ c = <<c[1], c[2]>>
         /\ \/ c[1] \in {"SEAT_HEAT", "WINDOW_POSITION", "DOOR_STATE"} /\ c[2] \in SeatZones
            \/ c[1] \in {"GEAR", "LIGHT_STATE", "CHARGE_STATUS"} /\ c[2] = "global"
            \/ c[1] = "DRIVER_TEMP" /\ c[2] = "driver"
            \/ c[1] = "PASSENGER_TEMP" /\ c[2] = "passenger"
  BY DEF WritableCells, Cells, WritableProperties, TempProperties, ZonedProperties,
     GlobalProperties, ReadOnlyProperties

\* apply_property keeps a state within its bounds and leaves its version alone.
LEMMA ApplyTyped ==
  ASSUME NEW st \in VehicleState, NEW c \in WritableCells, NEW v \in ValuesOf(c[1])
  PROVE  /\ ApplyProperty(st, c[1], c[2], v) \in VehicleState
         /\ ApplyProperty(st, c[1], c[2], v).version = st.version
<1> USE DEF ApplyProperty, VehicleState, ValuesOf, TempProperties, SeatZones
<1>1. CASE c[1] = "SEAT_HEAT"
  BY <1>1, WritableCellKinds
<1>2. CASE c[1] = "WINDOW_POSITION"
  BY <1>2, WritableCellKinds
<1>3. CASE c[1] = "DOOR_STATE"
  BY <1>3, WritableCellKinds
<1>4. CASE c[1] = "GEAR"
  BY <1>4, WritableCellKinds
<1>5. CASE c[1] = "LIGHT_STATE"
  BY <1>5, WritableCellKinds
<1>6. CASE c[1] = "CHARGE_STATUS"
  BY <1>6, WritableCellKinds
<1>7. CASE c[1] = "DRIVER_TEMP"
  BY <1>7, WritableCellKinds
<1>8. CASE c[1] = "PASSENGER_TEMP"
  BY <1>8, WritableCellKinds
<1> QED BY <1>1, <1>2, <1>3, <1>4, <1>5, <1>6, <1>7, <1>8, WritableCellKinds

\* What was written is what is read back.
LEMMA ReadAfterApply ==
  ASSUME NEW st \in VehicleState, NEW c \in WritableCells, NEW v \in ValuesOf(c[1])
  PROVE  ReadProperty(ApplyProperty(st, c[1], c[2], v), c[1], c[2]) = v
  BY DEF ApplyProperty, ReadProperty, VehicleState, WritableCells, Cells, ValuesOf,
     WritableProperties, TempProperties, ZonedProperties, GlobalProperties,
     ReadOnlyProperties, SeatZones, Float, Integer, Text

\* Nothing else is touched: one write, one cell.
LEMMA ReadElsewhere ==
  ASSUME NEW st \in VehicleState, NEW c \in WritableCells, NEW v \in ValuesOf(c[1]),
         NEW d \in Cells, d # c
  PROVE  ReadProperty(ApplyProperty(st, c[1], c[2], v), d[1], d[2])
           = ReadProperty(st, d[1], d[2])
  BY DEF ApplyProperty, ReadProperty, VehicleState, WritableCells, Cells, ValuesOf,
     WritableProperties, TempProperties, ZonedProperties, GlobalProperties,
     ReadOnlyProperties, SeatZones, Float, Integer, Text

\* A cell that can be written holds a value it may hold.
LEMMA ReadTyped ==
  ASSUME NEW st \in VehicleState, NEW c \in WritableCells
  PROVE  ReadProperty(st, c[1], c[2]) \in ValuesOf(c[1])
  BY DEF ReadProperty, VehicleState, WritableCells, Cells, ValuesOf,
     WritableProperties, TempProperties, ZonedProperties, GlobalProperties,
     ReadOnlyProperties, SeatZones, Float, Integer, Text

\* The values of one property are among the values of all.
LEMMA ValuesTyped ==
  ASSUME NEW p \in WritableProperties
  PROVE  ValuesOf(p) \subseteq WritableValues
  BY DEF ValuesOf, WritableValues, WritableProperties, TempProperties, ZonedProperties,
     GlobalProperties

--------------------------------------------------------------------------------
\* The states rows are born with are within bounds.
LEMMA BirthTyped ==
  /\ DemoState \in VehicleState
  /\ NewState \in VehicleState
  /\ \A v \in Vehicles : BirthState(v) \in VehicleState
<1>1. \A soc \in 0..100, km \in Nat : BornWith(soc, km) \in VehicleState
  BY DEF BornWith, VehicleState, SeatZones, Gears, Doors, Lights, Charges
<1> QED BY <1>1 DEF DemoState, NewState, BirthState

\* A request that names only a vehicle is a normalised request.
LEMMA RemovalTyped ==
  ASSUME NEW v \in Vehicles
  PROVE  Removal(v) \in Requests /\ Normalised(Removal(v))
<1>1. <<"LIGHT_STATE", "global">> \in WritableCells
  BY DEF WritableCells, Cells, WritableProperties, GlobalProperties
<1>2. Text("OFF") \in ValuesOf("LIGHT_STATE") /\ "LIGHT_STATE" \in WritableProperties
  BY DEF ValuesOf, Text, Lights, TempProperties, WritableProperties, GlobalProperties
<1>3. Text("OFF") \in WritableValues
  BY <1>2, ValuesTyped
<1> QED
  BY <1>1, <1>2, <1>3 DEF Removal, Request, Requests, Normalised, ZoneNames

LEMMA NoRequestTyped == NoRequest \in Requests /\ Normalised(NoRequest)
<1>1. (CHOOSE v \in Vehicles : TRUE) \in Vehicles
  BY VehiclesAssumption
<1> QED BY <1>1, RemovalTyped DEF NoRequest

\* What set_property hands on is a normalised request.
LEMMA SetRequestTyped ==
  ASSUME NEW v \in Vehicles, NEW p, NEW z, NEW raw, NEW e \in Nat, Normalizable(p, z, raw)
  PROVE  LET r == Request(v, p, NormalZone(p, z), NormalValue(p, raw), e)
         IN  r \in Requests /\ Normalised(r)
<1>1. <<p, NormalZone(p, z)>> \in WritableCells /\ NormalValue(p, raw) \in ValuesOf(p)
  BY NormalizeTyped
<1>2. p \in WritableProperties /\ NormalZone(p, z) \in ZoneNames
  BY <1>1 DEF WritableCells, Cells, ZoneNames, SeatZones
<1>3. NormalValue(p, raw) \in WritableValues
  BY <1>1, <1>2, ValuesTyped
<1> QED BY <1>1, <1>2, <1>3 DEF Request, Requests, Normalised

\* The UPDATE names every column a property can write and leaves the others as
\* they are, so what it stores is the candidate under the next version.
LEMMA WriteIsCandidate ==
  ASSUME NEW st \in VehicleState, NEW c \in WritableCells, NEW x \in ValuesOf(c[1]),
         NEW n \in Nat
  PROVE  /\ WriteColumns(st, ApplyProperty(st, c[1], c[2], x), n) \in VehicleState
         /\ WriteColumns(st, ApplyProperty(st, c[1], c[2], x), n).version = n
         /\ \A d \in Cells :
              ReadProperty(WriteColumns(st, ApplyProperty(st, c[1], c[2], x), n), d[1], d[2])
                = ReadProperty(ApplyProperty(st, c[1], c[2], x), d[1], d[2])
<1> DEFINE cand == ApplyProperty(st, c[1], c[2], x)
           row == WriteColumns(st, cand, n)
<1>1. cand \in VehicleState
  BY ApplyTyped
<1>2. /\ cand.speed_kph = st.speed_kph
      /\ cand.battery_soc = st.battery_soc
      /\ cand.range_km = st.range_km
  BY WritableCellKinds DEF ApplyProperty, VehicleState
<1>3. row = [cand EXCEPT !.version = n]
  BY <1>1, <1>2 DEF WriteColumns, VehicleState
<1>4. row \in VehicleState /\ row.version = n
  BY <1>1, <1>3 DEF VehicleState
<1>5. ASSUME NEW d \in Cells
      PROVE  ReadProperty(row, d[1], d[2]) = ReadProperty(cand, d[1], d[2])
  BY <1>1, <1>3 DEF ReadProperty, VehicleState
<1> QED BY <1>4, <1>5

--------------------------------------------------------------------------------
\* Stepping: what the helpers of the actions do to one session's variables.
Steps == {"idle", "done"} \cup SetSteps \cup DeleteSteps

LEMMA StepTyped ==
  ASSUME TypeOK, NEW s \in Sessions,
         \/ UNCHANGED reply /\ \E step \in Steps : Goto(s, step)
         \/ \E code \in Codes, n \in Nat : Finish(s, code, n)
  PROVE  /\ pc' \in [Sessions -> Steps]
         /\ reply' \in [Sessions -> [code : Codes, version : Nat]]
<1>1. CASE UNCHANGED reply /\ \E step \in Steps : Goto(s, step)
  BY <1>1 DEF TypeOK, Steps, Goto
<1>2. CASE \E code \in Codes, n \in Nat : Finish(s, code, n)
  <2>1. PICK code \in Codes, n \in Nat : Finish(s, code, n)
    BY <1>2
  <2>2. Reply(code, n) \in [code : Codes, version : Nat]
    BY DEF Reply
  <2> QED BY <2>1, <2>2 DEF TypeOK, Steps, Finish, Goto
<1> QED BY <1>1, <1>2

\* The rows a commit writes are within bounds and the audit row is well formed.
LEMMA CommitTyped ==
  ASSUME TypeOK, NEW s \in Sessions, CommitRows(s)
  PROVE  /\ store' \in [Vehicles -> VehicleState]
         /\ audits' \in [Vehicles -> Seq(AuditEntry)]
         /\ snap' \in [Sessions -> VehicleState]
         /\ snap[s].version + 1 \in Nat
<1> DEFINE v == req[s].veh
           c == <<req[s].prop, req[s].zone>>
           row == WriteColumns(store[v], Candidate(s), snap[s].version + 1)
<1>1. /\ v \in Vehicles /\ store[v] \in VehicleState /\ snap[s] \in VehicleState
      /\ c \in WritableCells /\ req[s].value \in ValuesOf(c[1])
      /\ req[s].prop \in WritableProperties /\ req[s].value \in WritableValues
  BY DEF TypeOK, Requests, Normalised
<1>2. snap[s].version + 1 \in Nat
  BY <1>1 DEF VehicleState
<1>3. Candidate(s) \in VehicleState
  BY <1>1, ApplyTyped DEF Candidate
<1>4. row \in VehicleState
  BY <1>1, <1>2, <1>3 DEF WriteColumns, VehicleState
<1>5. store' = [store EXCEPT ![v] = row]
  BY DEF CommitRows
<1>6. store' \in [Vehicles -> VehicleState]
  BY <1>4, <1>5 DEF TypeOK
<1>7. snap' \in [Sessions -> VehicleState]
  BY <1>1, <1>6 DEF TypeOK, CommitRows
<1>8. AuditRow(s) \in AuditEntry
  <2>1. ReadProperty(snap[s], c[1], c[2]) \in WritableValues
    BY <1>1, ReadTyped, ValuesTyped
  <2> QED BY <1>1, <1>2, <2>1 DEF AuditRow, AuditEntry
<1>9. audits' \in [Vehicles -> Seq(AuditEntry)]
  <2>1. audits[v] \in Seq(AuditEntry)
    BY <1>1 DEF TypeOK
  <2>2. Append(audits[v], AuditRow(s)) \in Seq(AuditEntry)
    BY <1>8, <2>1, AppendProperties
  <2> QED BY <2>2 DEF TypeOK, CommitRows
<1> QED BY <1>2, <1>6, <1>7, <1>9

\* Every step keeps the types.
LEMMA TypeStep == TypeOK /\ [Next]_vars => TypeOK'
<1> SUFFICES ASSUME TypeOK, [Next]_vars PROVE TypeOK'
  OBVIOUS
<1> USE DEF Steps, Codes, SetSteps, DeleteSteps
<1>1. CASE UNCHANGED vars
  BY <1>1 DEF TypeOK, vars, Normalised
<1>2. ASSUME NEW v \in Vehicles, GarageCreate(v)
      PROVE  TypeOK'
  BY <1>2 DEF TypeOK, GarageCreate, sessionVars, Normalised
<1>3. ASSUME NEW s \in Sessions, ControlVehicle(s)
      PROVE  TypeOK'
  <2>1. PICK v \in Vehicles, r \in RawRequests, e \in ExpectedVersions :
          \/ /\ \E code \in {"not_found", "invalid"} : Finish(s, code, 0)
             /\ UNCHANGED <<req, snap>>
          \/ /\ Normalizable(r[1], r[2], r[3])
             /\ BeginSet(s, v, r[1], NormalZone(r[1], r[2]), NormalValue(r[1], r[3]), e)
    BY <1>3 DEF ControlVehicle
  <2>2. UNCHANGED rowVars
    BY <1>3 DEF ControlVehicle
  <2>3. CASE /\ \E code \in {"not_found", "invalid"} : Finish(s, code, 0)
             /\ UNCHANGED <<req, snap>>
    <3>1. /\ pc' \in [Sessions -> Steps]
          /\ reply' \in [Sessions -> [code : Codes, version : Nat]]
      BY <2>3, StepTyped
    <3> QED BY <2>2, <2>3, <3>1 DEF TypeOK, rowVars, Normalised
  <2>4. CASE /\ Normalizable(r[1], r[2], r[3])
             /\ BeginSet(s, v, r[1], NormalZone(r[1], r[2]), NormalValue(r[1], r[3]), e)
    <3> DEFINE q == Request(v, r[1], NormalZone(r[1], r[2]), NormalValue(r[1], r[3]), e)
    <3>1. q \in Requests /\ Normalised(q)
      BY <2>4, SetRequestTyped, ExpectedAssumption
    <3>2. req' = [req EXCEPT ![s] = q] /\ Goto(s, "read") /\ UNCHANGED <<snap, reply>>
      BY <2>4 DEF BeginSet
    <3>3. req' \in [Sessions -> Requests] /\ \A t \in Sessions : Normalised(req'[t])
      BY <3>1, <3>2 DEF TypeOK
    <3>4. pc' \in [Sessions -> Steps]
      BY <3>2, StepTyped
    <3> QED BY <2>2, <3>2, <3>3, <3>4 DEF TypeOK, rowVars, Normalised
  <2> QED BY <2>1, <2>3, <2>4
<1>4. ASSUME NEW s \in Sessions, GarageDelete(s)
      PROVE  TypeOK'
  <2>1. PICK v \in Vehicles : req' = [req EXCEPT ![s] = Removal(v)]
    BY <1>4 DEF GarageDelete
  <2>2. req' \in [Sessions -> Requests] /\ \A t \in Sessions : Normalised(req'[t])
    BY <2>1, RemovalTyped DEF TypeOK
  <2>3. pc' \in [Sessions -> Steps]
    BY <1>4, StepTyped DEF GarageDelete
  <2> QED BY <1>4, <2>2, <2>3 DEF TypeOK, GarageDelete, rowVars, Normalised
<1>5. ASSUME NEW s \in Sessions, UNCHANGED <<rowVars, req>>,
             snap' \in [Sessions -> VehicleState],
             \/ UNCHANGED reply /\ \E step \in Steps : Goto(s, step)
             \/ \E code \in Codes, n \in Nat : Finish(s, code, n)
      PROVE  TypeOK'
  <2>1. /\ pc' \in [Sessions -> Steps]
        /\ reply' \in [Sessions -> [code : Codes, version : Nat]]
    BY <1>5, StepTyped
  <2> QED BY <1>5, <2>1 DEF TypeOK, rowVars, Normalised
<1>6. ASSUME NEW s \in Sessions, Work(s)
      PROVE  TypeOK'
  <2>0. /\ req[s].veh \in Vehicles
        /\ store[req[s].veh] \in VehicleState
        /\ store[req[s].veh].version \in Nat
    BY DEF TypeOK, Requests, VehicleState
  <2>1. CASE TxnRead(s)
    <3>1. snap' \in [Sessions -> VehicleState]
      BY <2>0, <2>1 DEF TxnRead, TypeOK
    <3>2. \/ UNCHANGED reply /\ Goto(s, "update")
          \/ Finish(s, "not_found", 0)
          \/ Finish(s, "conflict", store[req[s].veh].version)
      BY <2>1 DEF TxnRead
    <3> QED BY <1>5, <2>0, <2>1, <3>1, <3>2 DEF TxnRead
  <2>2. CASE TxnUpdate(s)
    BY <1>5, <2>2 DEF TxnUpdate, TypeOK
  <2>3. CASE CurrentVersion(s)
    BY <1>5, <2>0, <2>3 DEF CurrentVersion, TypeOK
  <2>4. CASE InsertAudit(s)
    BY <1>5, <2>4 DEF InsertAudit, TypeOK
  <2>5. CASE TxnCommit(s) \/ TxnCommitAckLost(s)
    <3>1. CommitRows(s)
      BY <2>5 DEF TxnCommit, TxnCommitAckLost
    <3>2. \E code \in Codes, n \in Nat : Finish(s, code, n)
      BY <2>5, <3>1, CommitTyped DEF TxnCommit, TxnCommitAckLost
    <3>3. /\ pc' \in [Sessions -> Steps]
          /\ reply' \in [Sessions -> [code : Codes, version : Nat]]
      BY <3>2, StepTyped
    <3> QED BY <3>1, <3>3, CommitTyped DEF TypeOK, CommitRows, Normalised
  <2>6. CASE DeleteParent(s)
    BY <1>5, <2>6 DEF DeleteParent, TypeOK
  <2>7. CASE DeleteCascade(s)
    BY <1>5, <2>7 DEF DeleteCascade, TypeOK
  <2>8. CASE DeleteCommit(s)
    <3>1. /\ pc' \in [Sessions -> Steps]
          /\ reply' \in [Sessions -> [code : Codes, version : Nat]]
      BY <2>8, StepTyped DEF DeleteCommit
    <3>2. <<>> \in Seq(AuditEntry)
      OBVIOUS
    <3> QED BY <2>8, <3>1, <3>2 DEF TypeOK, DeleteCommit, Normalised
  <2> QED BY <1>6, <2>1, <2>2, <2>3, <2>4, <2>5, <2>6, <2>7, <2>8 DEF Work
<1>7. ASSUME NEW s \in Sessions, Reset(s)
      PROVE  TypeOK'
  <2>1. req' \in [Sessions -> Requests] /\ \A t \in Sessions : Normalised(req'[t])
    BY <1>7, NoRequestTyped DEF TypeOK, Reset
  <2>2. NoReply \in [code : Codes, version : Nat]
    BY DEF NoReply, Reply
  <2>3. snap' \in [Sessions -> VehicleState]
    BY <1>7, BirthTyped DEF TypeOK, Reset
  <2> QED BY <1>7, <2>1, <2>2, <2>3 DEF TypeOK, Reset, Goto, rowVars, Normalised
<1>8. ASSUME NEW s \in Sessions, Fault(s) \/ Respond(s)
      PROVE  TypeOK'
  <2>1. CASE Reset(s)
    BY <1>7, <2>1
  <2>2. CASE Finish(s, "storage", 0) /\ UNCHANGED <<rowVars, req, snap>>
    BY <1>5, <2>2 DEF TypeOK
  <2> QED
    BY <1>8, <2>1, <2>2 DEF Fault, DeadlockVictim, StorageFail, Abandon, Respond
<1> QED
  BY <1>1, <1>2, <1>3, <1>4, <1>6, <1>8 DEF Next

\* The types hold in every state, for any number of vehicles and sessions: no
\* request brings a value outside its property's bounds into a vehicle's state.
THEOREM TypeCorrect == Spec => []TypeOK
<1>1. Init => TypeOK
  BY BirthTyped, NoRequestTyped
     DEF Init, TypeOK, NoReply, Reply, Codes, Normalised
<1> QED BY <1>1, TypeStep, PTL DEF Spec

--------------------------------------------------------------------------------
\* A session waiting for its UPDATE holds a state that is at most as recent as
\* the row; when the versions are equal the states are: versions are never
\* used twice.
SnapshotInv ==
  \A s \in Sessions :
    pc[s] = "update" =>
      /\ snap[s].version <= store[req[s].veh].version
      /\ snap[s].version = store[req[s].veh].version => snap[s] = store[req[s].veh]

LockInv == TypeOK /\ NoLostUpdate /\ SnapshotInv

\* A commit stores, over the state its transaction read, the request's value
\* in the request's cell, under the next version.
LEMMA CommitEffect ==
  ASSUME TypeOK, NoLostUpdate, NEW s \in Sessions, pc[s] = "commit", CommitRows(s)
  PROVE  LET v == req[s].veh
             c == <<req[s].prop, req[s].zone>>
         IN  /\ v \in Vehicles /\ c \in WritableCells /\ Live(v)
             /\ \A u \in Vehicles \ {v} : store'[u] = store[u] /\ audits'[u] = audits[u]
             /\ store'[v].version = store[v].version + 1
             /\ ReadProperty(store'[v], c[1], c[2]) = req[s].value
             /\ \A d \in Cells \ {c} : ReadProperty(store'[v], d[1], d[2])
                                         = ReadProperty(store[v], d[1], d[2])
             /\ audits'[v] = Append(audits[v], AuditRow(s))
             /\ AuditRow(s).cell = c /\ AuditRow(s).new = req[s].value
             /\ AuditRow(s).version = store[v].version + 1
             /\ AuditRow(s).old = ReadProperty(store[v], c[1], c[2])
<1> DEFINE v == req[s].veh
           c == <<req[s].prop, req[s].zone>>
           x == req[s].value
           row == WriteColumns(store[v], ApplyProperty(store[v], c[1], c[2], x),
                               store[v].version + 1)
<1>1. /\ v \in Vehicles /\ store[v] \in VehicleState
      /\ c \in WritableCells /\ x \in ValuesOf(c[1])
      /\ store[v].version + 1 \in Nat
  BY DEF TypeOK, Requests, Normalised, VehicleState
<1>2. snap[s] = store[v] /\ Live(v)
  BY DEF NoLostUpdate
<1>3. store'[v] = row /\ \A u \in Vehicles \ {v} : store'[u] = store[u]
  BY <1>1, <1>2 DEF CommitRows, Candidate, TypeOK
<1>4. /\ audits'[v] = Append(audits[v], AuditRow(s))
      /\ \A u \in Vehicles \ {v} : audits'[u] = audits[u]
  BY <1>1 DEF CommitRows, TypeOK
<1>5. /\ row.version = store[v].version + 1
      /\ \A d \in Cells : ReadProperty(row, d[1], d[2])
            = ReadProperty(ApplyProperty(store[v], c[1], c[2], x), d[1], d[2])
  <2> HIDE DEF v, c, x
  <2> QED BY <1>1, WriteIsCandidate
<1>6. c \in Cells
  BY <1>1 DEF WritableCells
<1>7. ReadProperty(row, c[1], c[2]) = x
  BY <1>1, <1>5, <1>6, ReadAfterApply
<1>8. \A d \in Cells \ {c} : ReadProperty(row, d[1], d[2]) = ReadProperty(store[v], d[1], d[2])
  BY <1>1, <1>5, ReadElsewhere
<1>9. /\ AuditRow(s).cell = c /\ AuditRow(s).new = req[s].value
      /\ AuditRow(s).version = store[v].version + 1
      /\ AuditRow(s).old = ReadProperty(store[v], c[1], c[2])
  BY <1>2 DEF AuditRow
<1> HIDE DEF row
<1> QED BY <1>1, <1>2, <1>3, <1>4, <1>5, <1>7, <1>8, <1>9

\* Every step keeps the locks' promise.
LEMMA LockStep == LockInv /\ [Next]_vars => LockInv'
<1> SUFFICES ASSUME LockInv, [Next]_vars PROVE LockInv'
  OBVIOUS
<1>0. TypeOK'
  BY TypeStep DEF LockInv
<1> USE DEF LockInv
<1>1. CASE UNCHANGED vars
  BY <1>0, <1>1 DEF vars, NoLostUpdate, SnapshotInv, Live
<1>2. ASSUME NEW v \in Vehicles, GarageCreate(v)
      PROVE  LockInv'
  BY <1>0, <1>2 DEF GarageCreate, sessionVars, NoLostUpdate, SnapshotInv, Live, TypeOK, Requests
\* A step that leaves the rows alone and takes its session outside the lock.
<1>3. ASSUME NEW s \in Sessions, NEW step \in Steps \ {"update", "audit", "commit", "d_commit"},
             Goto(s, step), UNCHANGED rowVars,
             \A t \in Sessions \ {s} : req'[t] = req[t] /\ snap'[t] = snap[t]
      PROVE  LockInv'
  BY <1>0, <1>3 DEF Goto, rowVars, NoLostUpdate, SnapshotInv, Live, TypeOK
<1>4. ASSUME NEW s \in Sessions, ControlVehicle(s) \/ GarageDelete(s)
      PROVE  LockInv'
  BY <1>3, <1>4 DEF ControlVehicle, GarageDelete, BeginSet, Finish, Steps, SetSteps, DeleteSteps,
     rowVars, TypeOK
<1>5. ASSUME NEW s \in Sessions, TxnRead(s)
      PROVE  LockInv'
  <2>1. CASE Goto(s, "update") /\ snap' = [snap EXCEPT ![s] = store[req[s].veh]]
    <3>1. /\ UNCHANGED <<rowVars, req>> /\ pc[s] = "read"
          /\ pc' = [pc EXCEPT ![s] = "update"]
      BY <1>5, <2>1 DEF TxnRead, Goto
    <3>2. NoLostUpdate'
      BY <2>1, <3>1 DEF rowVars, NoLostUpdate, Live, TypeOK
    <3>3. /\ snap'[s] = store[req[s].veh]
          /\ store[req[s].veh].version \in Nat
      BY <2>1 DEF TypeOK, Requests, VehicleState
    <3>4. SnapshotInv'
      BY <2>1, <3>1, <3>3 DEF rowVars, SnapshotInv, TypeOK
    <3> QED BY <1>0, <3>2, <3>4
  <2>2. CASE \E code \in Codes, n \in Nat : Finish(s, code, n) /\ UNCHANGED snap
    BY <1>3, <1>5, <2>2 DEF TxnRead, Finish, Steps, rowVars
  <2>3. store[req[s].veh].version \in Nat
    BY DEF TypeOK, Requests, VehicleState
  <2> QED BY <1>5, <2>1, <2>2, <2>3 DEF TxnRead, Codes
<1>6. ASSUME NEW s \in Sessions, TxnUpdate(s)
      PROVE  LockInv'
  <2>1. CASE RowMatches(s) /\ Goto(s, "audit")
    <3>1. snap[s] = store[req[s].veh] /\ Live(req[s].veh)
      BY <1>6, <2>1 DEF TxnUpdate, RowMatches, SnapshotInv
    <3>2. \A t \in Sessions \ {s} :
            req[t].veh = req[s].veh => pc[t] \notin {"audit", "commit", "d_commit"}
      BY <1>6 DEF TxnUpdate, RowLocked, At
    <3> QED BY <1>0, <1>6, <2>1, <3>1, <3>2
            DEF TxnUpdate, Goto, rowVars, NoLostUpdate, SnapshotInv, Live, TypeOK
  <2>2. CASE Goto(s, "reread") \/ Finish(s, "storage", 0)
    BY <1>3, <1>6, <2>2 DEF TxnUpdate, Finish, Steps, SetSteps
  <2> QED BY <1>6, <2>1, <2>2 DEF TxnUpdate
<1>7. ASSUME NEW s \in Sessions, CurrentVersion(s)
      PROVE  LockInv'
  BY <1>3, <1>7 DEF CurrentVersion, Finish, Steps
<1>8. ASSUME NEW s \in Sessions, InsertAudit(s)
      PROVE  LockInv'
  BY <1>0, <1>8 DEF InsertAudit, Goto, rowVars, NoLostUpdate, SnapshotInv, Live, TypeOK
<1>9. ASSUME NEW s \in Sessions, TxnCommit(s) \/ TxnCommitAckLost(s)
      PROVE  LockInv'
  <2> DEFINE v == req[s].veh
  <2>1. /\ pc[s] = "commit" /\ CommitRows(s) /\ Goto(s, "done")
        /\ UNCHANGED <<life, req>>
    BY <1>9 DEF TxnCommit, TxnCommitAckLost, CommitRows, Finish
  <2>2. /\ \A u \in Vehicles \ {v} : store'[u] = store[u]
        /\ store'[v].version = store[v].version + 1
    BY <2>1, CommitEffect
  <2>3. \A t \in Sessions \ {s} : snap'[t] = snap[t] /\ pc'[t] = pc[t]
    BY <2>1 DEF CommitRows, Goto, TypeOK
  <2>4. NoLostUpdate'
    <3> SUFFICES ASSUME NEW a \in Sessions, pc'[a] \in {"audit", "commit"}
                 PROVE  /\ Live(req[a].veh)' /\ snap'[a] = store'[req[a].veh]
                        /\ \A t \in Sessions \ {a} : req[t].veh = req[a].veh =>
                             pc'[t] \notin {"audit", "commit", "d_commit"}
      BY <2>1 DEF NoLostUpdate
    <3>1. a # s /\ pc[a] \in {"audit", "commit"} /\ req[a].veh # v
      BY <2>1, <2>3 DEF NoLostUpdate, Goto, TypeOK
    <3>2. req[a].veh \in Vehicles
      BY DEF TypeOK, Requests
    <3> QED BY <2>1, <2>2, <2>3, <3>1, <3>2 DEF NoLostUpdate, Live, Goto, TypeOK
  <2>5. SnapshotInv'
    <3> SUFFICES ASSUME NEW a \in Sessions, pc'[a] = "update"
                 PROVE  /\ snap'[a].version <= store'[req[a].veh].version
                        /\ snap'[a].version = store'[req[a].veh].version
                             => snap'[a] = store'[req[a].veh]
      BY <2>1 DEF SnapshotInv
    <3>1. a # s /\ pc[a] = "update" /\ snap'[a] = snap[a]
      BY <2>1, <2>3 DEF Goto, TypeOK
    <3>2. /\ req[a].veh \in Vehicles /\ snap[a].version \in Nat
          /\ store[req[a].veh].version \in Nat
      BY DEF TypeOK, Requests, VehicleState
    <3>3. /\ snap[a].version <= store[req[a].veh].version
          /\ snap[a].version = store[req[a].veh].version => snap[a] = store[req[a].veh]
      BY <3>1 DEF SnapshotInv
    <3> QED BY <2>2, <3>1, <3>2, <3>3
  <2> QED BY <1>0, <2>4, <2>5
<1>10. ASSUME NEW s \in Sessions, DeleteParent(s)
       PROVE  LockInv'
  BY <1>3, <1>10 DEF DeleteParent, Finish, Steps, DeleteSteps
<1>11. ASSUME NEW s \in Sessions, DeleteCascade(s)
       PROVE  LockInv'
  <2>1. \A a \in Sessions : pc[a] \in {"audit", "commit"} => req[a].veh # req[s].veh
    BY <1>11 DEF DeleteCascade, RowLocked, At
  <2> QED BY <1>0, <1>11, <2>1
          DEF DeleteCascade, Goto, rowVars, NoLostUpdate, SnapshotInv, Live, TypeOK
<1>12. ASSUME NEW s \in Sessions, DeleteCommit(s)
       PROVE  LockInv'
  <2>1. \A a \in Sessions : pc[a] \in {"audit", "commit"} => req[a].veh # req[s].veh
    BY <1>12 DEF DeleteCommit, NoLostUpdate
  <2> QED BY <1>0, <1>12, <2>1
          DEF DeleteCommit, Finish, Goto, NoLostUpdate, SnapshotInv, Live, TypeOK
<1>13. ASSUME NEW s \in Sessions, Fault(s) \/ Respond(s)
       PROVE  LockInv'
  BY <1>3, <1>13 DEF Fault, DeadlockVictim, StorageFail, Abandon, Respond, Reset, Finish, Steps,
     rowVars, TypeOK
<1> QED
  BY <1>1, <1>2, <1>4, <1>5, <1>6, <1>7, <1>8, <1>9, <1>10, <1>11, <1>12, <1>13
     DEF Next, Work

\* The UPDATE's WHERE clause and the row lock together are what optimistic
\* locking needs: no interleaving of any number of sessions, with failures,
\* cancellations and vehicles removed underneath, loses a committed write.
THEOREM LostUpdateFree == Spec => []NoLostUpdate
<1>1. Init => LockInv
  <2>1. Init => TypeOK
    BY BirthTyped, NoRequestTyped DEF Init, TypeOK, NoReply, Reply, Codes, Normalised
  <2> QED BY <2>1 DEF Init, LockInv, NoLostUpdate, SnapshotInv
<1>2. LockInv => NoLostUpdate
  BY DEF LockInv
<1> QED BY <1>1, <1>2, LockStep, PTL DEF Spec

--------------------------------------------------------------------------------
\* What a step may do to the rows: commit one write, or leave every vehicle that
\* is not removed as it was.
LEMMA RowsStep ==
  ASSUME TypeOK, [Next]_vars
  PROVE  \/ \E s \in Sessions : pc[s] = "commit" /\ CommitRows(s)
         \/ \A v \in Vehicles :
              \/ life'[v] = "removed"
              \/ store'[v] = store[v] /\ audits'[v] = audits[v] /\ life[v] # "removed"
<1> DEFINE Quiet == \A v \in Vehicles :
                      \/ life'[v] = "removed"
                      \/ store'[v] = store[v] /\ audits'[v] = audits[v] /\ life[v] # "removed"
<1>1. UNCHANGED rowVars => Quiet
  BY DEF rowVars
<1>2. ASSUME NEW v \in Vehicles, GarageCreate(v) PROVE Quiet
  BY <1>2 DEF GarageCreate, TypeOK
<1>3. ASSUME NEW s \in Sessions, DeleteCommit(s) PROVE Quiet
  BY <1>3 DEF DeleteCommit, TypeOK
<1>4. ASSUME NEW s \in Sessions, TxnCommit(s) \/ TxnCommitAckLost(s)
      PROVE  pc[s] = "commit" /\ CommitRows(s)
  BY <1>4 DEF TxnCommit, TxnCommitAckLost
<1>5. ASSUME NEW s \in Sessions,
             \/ ControlVehicle(s) \/ GarageDelete(s) \/ Fault(s) \/ Respond(s)
             \/ TxnRead(s) \/ TxnUpdate(s) \/ CurrentVersion(s) \/ InsertAudit(s)
             \/ DeleteParent(s) \/ DeleteCascade(s)
      PROVE  UNCHANGED rowVars
  BY <1>5 DEF ControlVehicle, GarageDelete, Fault, Respond, TxnRead, TxnUpdate,
     CurrentVersion, InsertAudit, DeleteParent, DeleteCascade, DeadlockVictim,
     StorageFail, Abandon, Reset
<1>6. CASE UNCHANGED vars
  BY <1>1, <1>6 DEF vars, rowVars
<1> QED BY <1>1, <1>2, <1>3, <1>4, <1>5, <1>6 DEF Next, Work

\* Appending an audit row does not change what the earlier rows tell.
LEMMA HeldKept ==
  ASSUME NEW v \in Vehicles, NEW row, audits[v] \in Seq(AuditEntry), row \in AuditEntry,
         audits'[v] = Append(audits[v], row),
         NEW n \in 0..Len(audits[v]), NEW c, NEW x, HeldAfter(v, c, n, x)
  PROVE  HeldAfter(v, c, n, x)'
<1>1. \A i \in 1..n : audits'[v][i] = audits[v][i]
  BY AppendProperties
<1> QED BY <1>1 DEF HeldAfter

\* The audit rows of vehicle v replay to its state.
Replays(v) ==
  /\ Len(audits[v]) = store[v].version
  /\ \A i \in 1..Len(audits[v]) :
       /\ audits[v][i].version = i
       /\ HeldAfter(v, audits[v][i].cell, i - 1, audits[v][i].old)
  /\ \A d \in Cells : HeldAfter(v, d, Len(audits[v]), ReadProperty(store[v], d[1], d[2]))

\* A vehicle whose rows are not touched keeps its replay.
LEMMA ReplayKept ==
  ASSUME NEW v \in Vehicles, Replays(v), store'[v] = store[v], audits'[v] = audits[v]
  PROVE  Replays(v)'
<1>1. \A c, n, x : HeldAfter(v, c, n, x)' <=> HeldAfter(v, c, n, x)
  BY DEF HeldAfter
<1>2. /\ Len(audits'[v]) = store'[v].version
      /\ \A i \in 1..Len(audits'[v]) : audits'[v][i].version = i
  BY DEF Replays
<1>3. ASSUME NEW i \in 1..Len(audits'[v])
      PROVE  HeldAfter(v, audits[v][i].cell, i - 1, audits[v][i].old)'
  <2>1. PICK c, x : c = audits[v][i].cell /\ x = audits[v][i].old
    OBVIOUS
  <2>2. HeldAfter(v, c, i - 1, x)'
    BY <1>1, <2>1 DEF Replays
  <2> QED BY <2>1, <2>2
<1>4. ASSUME NEW d \in Cells
      PROVE  HeldAfter(v, d, Len(audits[v]), ReadProperty(store[v], d[1], d[2]))'
  <2>1. PICK n, x : n = Len(audits[v]) /\ x = ReadProperty(store[v], d[1], d[2])
    OBVIOUS
  <2>2. HeldAfter(v, d, n, x)'
    BY <1>1, <2>1 DEF Replays
  <2> QED BY <2>1, <2>2
<1> QED BY <1>2, <1>3, <1>4 DEF Replays

\* A write of one cell together with its audit row extends the replay.
LEMMA ReplayExtends ==
  ASSUME NEW v \in Vehicles, NEW c \in Cells, NEW n \in Nat, NEW row \in AuditEntry,
         audits[v] \in Seq(AuditEntry), Len(audits[v]) = n, Replays(v),
         audits'[v] = Append(audits[v], row),
         store'[v].version = n + 1,
         row.cell = c, row.version = n + 1,
         row.old = ReadProperty(store[v], c[1], c[2]),
         row.new = ReadProperty(store'[v], c[1], c[2]),
         \A d \in Cells \ {c} : ReadProperty(store'[v], d[1], d[2])
                                  = ReadProperty(store[v], d[1], d[2])
  PROVE  Replays(v)'
<1>1. /\ Len(audits'[v]) = n + 1
      /\ audits'[v][n + 1] = row
      /\ \A i \in 1..n : audits'[v][i] = audits[v][i]
  BY AppendProperties
<1>2. \A d, x : \A m \in 0..n : HeldAfter(v, d, m, x) => HeldAfter(v, d, m, x)'
  BY HeldKept
<1>3. ASSUME NEW i \in 1..(n + 1)
      PROVE  /\ audits'[v][i].version = i
             /\ HeldAfter(v, audits[v][i].cell, i - 1, audits[v][i].old)'
  <2>1. CASE i \in 1..n
    <3>1. PICK d, x : d = audits[v][i].cell /\ x = audits[v][i].old
      OBVIOUS
    <3>2. audits[v][i].version = i /\ HeldAfter(v, d, i - 1, x)
      BY <2>1, <3>1 DEF Replays
    <3>3. HeldAfter(v, d, i - 1, x)' /\ d = audits'[v][i].cell /\ x = audits'[v][i].old
      BY <1>1, <1>2, <2>1, <3>1, <3>2
    <3> QED BY <1>1, <2>1, <3>2, <3>3
  <2>2. CASE i = n + 1
    <3>1. PICK x : x = row.old
      OBVIOUS
    <3>2. HeldAfter(v, c, n, x)
      BY <3>1 DEF Replays
    <3>3. HeldAfter(v, c, n, x)'
      BY <1>2, <3>2
    <3> QED BY <1>1, <2>2, <3>1, <3>3
  <2> QED BY <2>1, <2>2
<1>4. ASSUME NEW d \in Cells
      PROVE  HeldAfter(v, d, n + 1, ReadProperty(store[v], d[1], d[2]))'
  <2>1. PICK x : x = ReadProperty(store'[v], d[1], d[2])
    OBVIOUS
  <2>2. HeldAfter(v, d, n + 1, x)'
    <3>1. CASE d = c
      BY <1>1, <2>1, <3>1 DEF HeldAfter
    <3>2. CASE d # c
      <4>1. x = ReadProperty(store[v], d[1], d[2])
        BY <2>1, <3>2
      <4>2. HeldAfter(v, d, n, x)
        BY <4>1 DEF Replays
      <4>3. HeldAfter(v, d, n, x)'
        BY <1>2, <4>2
      <4> QED BY <1>1, <3>2, <4>3 DEF HeldAfter
    <3> QED BY <3>1, <3>2
  <2> QED BY <2>1, <2>2
<1> QED BY <1>1, <1>3, <1>4 DEF Replays

\* A commit is such a write.
LEMMA CommitReplay ==
  ASSUME TypeOK, NoLostUpdate, AuditReplay,
         NEW s \in Sessions, pc[s] = "commit", CommitRows(s)
  PROVE  AuditReplay'
<1>1. PICK v, c, n, row : /\ v = req[s].veh /\ c = <<req[s].prop, req[s].zone>>
                          /\ n = Len(audits[v]) /\ row = AuditRow(s)
  OBVIOUS
<1>2. /\ v \in Vehicles /\ c \in WritableCells /\ Live(v)
      /\ \A u \in Vehicles \ {v} : store'[u] = store[u] /\ audits'[u] = audits[u]
      /\ store'[v].version = store[v].version + 1
      /\ ReadProperty(store'[v], c[1], c[2]) = req[s].value
      /\ \A d \in Cells \ {c} : ReadProperty(store'[v], d[1], d[2])
                                  = ReadProperty(store[v], d[1], d[2])
      /\ audits'[v] = Append(audits[v], row)
      /\ row.cell = c /\ row.new = req[s].value
      /\ row.version = store[v].version + 1
      /\ row.old = ReadProperty(store[v], c[1], c[2])
  BY <1>1, CommitEffect
<1>3. UNCHANGED life /\ life[v] # "removed"
  BY <1>2 DEF CommitRows, Live
<1>4. /\ audits[v] \in Seq(AuditEntry) /\ n \in Nat
      /\ audits'[v] \in Seq(AuditEntry)
  BY <1>1, <1>2, CommitTyped DEF TypeOK
<1>5. row \in AuditEntry
  <2>1. row = Append(audits[v], row)[n + 1] /\ Len(Append(audits[v], row)) = n + 1
    BY <1>1, <1>4
  <2> QED BY <1>2, <1>4, <2>1, ElementOfSeq
<1>6. Replays(v) /\ n = store[v].version /\ c \in Cells
  BY <1>1, <1>2, <1>3 DEF AuditReplay, Replays, WritableCells
<1>7. Replays(v)'
  <2>1. /\ Len(audits[v]) = n
        /\ audits'[v] = Append(audits[v], row)
        /\ store'[v].version = n + 1
        /\ row.cell = c /\ row.version = n + 1
        /\ row.old = ReadProperty(store[v], c[1], c[2])
        /\ row.new = ReadProperty(store'[v], c[1], c[2])
    BY <1>1, <1>2, <1>6
  <2>2. \A d \in Cells \ {c} : ReadProperty(store'[v], d[1], d[2])
                                = ReadProperty(store[v], d[1], d[2])
    BY <1>2
  <2>3. /\ v \in Vehicles /\ c \in Cells /\ n \in Nat /\ row \in AuditEntry
        /\ audits[v] \in Seq(AuditEntry) /\ Replays(v)
    BY <1>2, <1>4, <1>5, <1>6
  <2> QED BY ONLY <2>1, <2>2, <2>3, ReplayExtends
<1>8. ASSUME NEW u \in Vehicles \ {v}, life[u] # "removed"
      PROVE  Replays(u)'
  BY <1>2, <1>8, ReplayKept DEF AuditReplay, Replays
<1> QED BY <1>3, <1>7, <1>8 DEF AuditReplay, Replays

AuditInv == LockInv /\ AuditReplay

LEMMA AuditStep == AuditInv /\ [Next]_vars => AuditInv'
<1> SUFFICES ASSUME AuditInv, [Next]_vars PROVE AuditReplay'
  BY LockStep DEF AuditInv
<1>1. CASE \E s \in Sessions : pc[s] = "commit" /\ CommitRows(s)
  BY <1>1, CommitReplay DEF AuditInv, LockInv
<1>2. CASE \A v \in Vehicles :
             \/ life'[v] = "removed"
             \/ store'[v] = store[v] /\ audits'[v] = audits[v] /\ life[v] # "removed"
  <2>1. \A v \in Vehicles : life'[v] # "removed" => Replays(v)'
    BY <1>2, ReplayKept DEF AuditInv, AuditReplay, Replays
  <2> QED BY <2>1 DEF AuditReplay, Replays
<1> QED BY <1>1, <1>2, RowsStep DEF AuditInv, LockInv

LEMMA AuditInit == Init => AuditInv
<1> SUFFICES ASSUME Init PROVE AuditInv
  OBVIOUS
<1>1. TypeOK
  BY BirthTyped, NoRequestTyped DEF Init, TypeOK, NoReply, Reply, Codes, Normalised
<1>2. NoLostUpdate /\ SnapshotInv
  BY DEF Init, NoLostUpdate, SnapshotInv
<1>3. \A v \in Vehicles : BirthState(v).version = 0
  BY DEF BirthState, DemoState, NewState, BornWith
<1>4. AuditReplay
  BY <1>3 DEF Init, AuditReplay, HeldAfter
<1> QED BY <1>1, <1>2, <1>4 DEF AuditInv, LockInv

\* Replaying a vehicle's audit rows from the state it was born with gives the
\* state that is stored, version by version and old value by old value.
THEOREM AuditFaithful == Spec => []AuditReplay
<1>1. AuditInv => AuditReplay
  BY DEF AuditInv
<1> QED BY <1>1, AuditInit, AuditStep, PTL DEF Spec

\* The version of a vehicle that is not removed never goes back or skips, and
\* its audit rows are only ever appended to, one for each version.
THEOREM HistoryGrows == Spec => HistoryOnlyGrows
<1> DEFINE Grow == \A v \in Vehicles :
       life'[v] # "removed" =>
         \/ store'[v] = store[v] /\ audits'[v] = audits[v]
         \/ /\ store'[v].version = store[v].version + 1
            /\ audits'[v] = Append(audits[v], Last(audits'[v]))
<1>1. ASSUME AuditInv, [Next]_vars PROVE Grow
  <2>1. CASE \E s \in Sessions : pc[s] = "commit" /\ CommitRows(s)
    <3>1. PICK s \in Sessions : pc[s] = "commit" /\ CommitRows(s)
      BY <2>1
    <3> DEFINE v == req[s].veh
    <3>2. /\ v \in Vehicles
          /\ \A u \in Vehicles \ {v} : store'[u] = store[u] /\ audits'[u] = audits[u]
          /\ store'[v].version = store[v].version + 1
          /\ audits'[v] = Append(audits[v], AuditRow(s))
      BY <1>1, <3>1, CommitEffect DEF AuditInv, LockInv
    <3>3. Last(audits'[v]) = AuditRow(s)
      <4>1. audits[v] \in Seq(AuditEntry) /\ audits'[v] \in Seq(AuditEntry)
        BY <1>1, <3>1, <3>2, CommitTyped DEF AuditInv, LockInv, TypeOK
      <4> QED BY <3>2, <4>1, AppendProperties DEF Last
    <3> QED BY <3>2, <3>3
  <2>2. CASE \A v \in Vehicles :
               \/ life'[v] = "removed"
               \/ store'[v] = store[v] /\ audits'[v] = audits[v] /\ life[v] # "removed"
    BY <2>2
  <2> QED BY <1>1, <2>1, <2>2, RowsStep DEF AuditInv, LockInv
<1>2. AuditInv /\ [Next]_vars => [Grow]_vars
  BY <1>1
<1> QED BY <1>2, AuditInit, AuditStep, PTL DEF Spec, HistoryOnlyGrows

--------------------------------------------------------------------------------
\* What the twin's answers rest on: a session past its SELECT goes on from the version
\* its caller expects, one whose UPDATE found no row is behind the row, and one that
\* deletes has the vehicle for itself.
Expecting(s) ==
  /\ pc[s] \in SetSteps => life[req[s].veh] # "unborn"
  /\ pc[s] \in {"update", "audit", "commit"} => snap[s].version = req[s].expected
  /\ pc[s] \in {"audit", "commit"} => snap[s].version < MaxVersion
  /\ pc[s] = "reread" => \/ life[req[s].veh] = "removed"
                         \/ req[s].expected < store[req[s].veh].version
DeletesAlone(s) ==
  pc[s] \in {"d_child", "d_commit"} =>
    /\ Live(req[s].veh)
    /\ \A t \in Sessions \ {s} :
         pc[t] \in {"d_child", "d_commit"} => req[t].veh # req[s].veh
CallInv == LockInv /\ \A s \in Sessions : Expecting(s) /\ DeletesAlone(s)

\* A row's version never goes back, and a vehicle that was born stays born.
Onward ==
  \A v \in Vehicles :
    /\ store[v].version <= store'[v].version
    /\ life[v] # "unborn" => life'[v] # "unborn"
    /\ life[v] = "removed" => life'[v] = "removed"

LEMMA GoesOnward == LockInv /\ [Next]_vars => Onward
<1> SUFFICES ASSUME LockInv, [Next]_vars PROVE Onward
  OBVIOUS
<1>0. \A v \in Vehicles : store[v].version \in Nat
  BY DEF LockInv, TypeOK, VehicleState
<1>1. CASE \E s \in Sessions : pc[s] = "commit" /\ CommitRows(s)
  <2>1. PICK s \in Sessions : pc[s] = "commit" /\ CommitRows(s)
    BY <1>1
  <2>2. UNCHANGED life
    BY <2>1 DEF CommitRows
  <2>3. \A v \in Vehicles : store'[v] = store[v] \/ store'[v].version = store[v].version + 1
    BY <2>1, CommitEffect DEF LockInv
  <2> QED BY <1>0, <2>2, <2>3 DEF Onward
<1>2. ASSUME UNCHANGED store, UNCHANGED life \/ (\E v \in Vehicles : GarageCreate(v))
                                \/ (\E s \in Sessions : DeleteCommit(s))
      PROVE  Onward
  BY <1>0, <1>2 DEF Onward, GarageCreate, DeleteCommit, LockInv, TypeOK
<1>3. ASSUME NEW s \in Sessions, TxnCommit(s) \/ TxnCommitAckLost(s)
      PROVE  Onward
  BY <1>1, <1>3 DEF TxnCommit, TxnCommitAckLost
<1>4. ASSUME NEW s \in Sessions,
             \/ ControlVehicle(s) \/ GarageDelete(s) \/ Fault(s) \/ Respond(s)
             \/ TxnRead(s) \/ TxnUpdate(s) \/ CurrentVersion(s) \/ InsertAudit(s)
             \/ DeleteParent(s) \/ DeleteCascade(s)
      PROVE  UNCHANGED rowVars
  BY <1>4 DEF ControlVehicle, GarageDelete, Fault, Respond, TxnRead, TxnUpdate,
     CurrentVersion, InsertAudit, DeleteParent, DeleteCascade, DeadlockVictim,
     StorageFail, Abandon, Reset
<1>5. CASE UNCHANGED vars
  BY <1>2, <1>5 DEF vars
<1>6. ASSUME NEW v \in Vehicles, GarageCreate(v)
      PROVE  Onward
  BY <1>2, <1>6 DEF GarageCreate
<1>7. ASSUME NEW s \in Sessions, DeleteCommit(s)
      PROVE  Onward
  BY <1>2, <1>7 DEF DeleteCommit
<1> QED BY <1>2, <1>3, <1>4, <1>5, <1>6, <1>7 DEF Next, Work, rowVars

\* An action of a session moves that session alone.
LEMMA OneMoves ==
  ASSUME TypeOK, NEW s \in Sessions,
         \/ ControlVehicle(s) \/ GarageDelete(s) \/ Work(s) \/ Fault(s) \/ Respond(s),
         NEW t \in Sessions \ {s}
  PROVE  pc'[t] = pc[t] /\ req'[t] = req[t] /\ snap'[t] = snap[t] /\ reply'[t] = reply[t]
<1> USE DEF Goto, Finish, TypeOK
<1>1. CASE ControlVehicle(s) \/ GarageDelete(s)
  BY <1>1 DEF ControlVehicle, GarageDelete, BeginSet
<1>2. CASE Fault(s) \/ Respond(s)
  BY <1>2 DEF Fault, Respond, DeadlockVictim, StorageFail, Abandon, Reset
<1>3. CASE TxnRead(s) \/ TxnUpdate(s) \/ CurrentVersion(s) \/ InsertAudit(s)
  BY <1>3 DEF TxnRead, TxnUpdate, CurrentVersion, InsertAudit
<1>4. CASE TxnCommit(s) \/ TxnCommitAckLost(s)
  BY <1>4 DEF TxnCommit, TxnCommitAckLost, CommitRows
<1>5. CASE DeleteParent(s) \/ DeleteCascade(s) \/ DeleteCommit(s)
  BY <1>5 DEF DeleteParent, DeleteCascade, DeleteCommit
<1> QED BY <1>1, <1>2, <1>3, <1>4, <1>5 DEF Work

\* Only DeleteCommit ends a vehicle's life, and only DeleteParent locks its row.
LEMMA OnlyDeletesEnd ==
  ASSUME TypeOK, NEW s \in Sessions, ~DeleteParent(s), ~DeleteCommit(s),
         \/ ControlVehicle(s) \/ GarageDelete(s) \/ Work(s) \/ Fault(s) \/ Respond(s)
  PROVE  /\ \A v \in Vehicles : Live(v) => life'[v] = "live"
         /\ pc'[s] \in {"d_child", "d_commit"} =>
              pc[s] \in {"d_child", "d_commit"} /\ req'[s] = req[s]
<1> USE DEF Goto, Finish, TypeOK, Live, rowVars
<1>1. CASE ControlVehicle(s) \/ GarageDelete(s)
  BY <1>1 DEF ControlVehicle, GarageDelete, BeginSet
<1>2. CASE Fault(s) \/ Respond(s)
  BY <1>2 DEF Fault, Respond, DeadlockVictim, StorageFail, Abandon, Reset
<1>3. CASE TxnRead(s) \/ TxnUpdate(s) \/ CurrentVersion(s) \/ InsertAudit(s)
  BY <1>3 DEF TxnRead, TxnUpdate, CurrentVersion, InsertAudit
<1>4. CASE TxnCommit(s) \/ TxnCommitAckLost(s)
  BY <1>4 DEF TxnCommit, TxnCommitAckLost, CommitRows
<1>5. CASE DeleteCascade(s)
  BY <1>5 DEF DeleteCascade
<1> QED BY <1>1, <1>2, <1>3, <1>4, <1>5 DEF Work

\* A session that does not move goes on expecting what it did.
LEMMA ExpectingKept ==
  ASSUME CallInv, Onward, TypeOK', NEW t \in Sessions, pc'[t] = pc[t], req'[t] = req[t],
         snap'[t] = snap[t]
  PROVE  Expecting(t)'
<1>1. /\ req[t].veh \in Vehicles /\ req[t].expected \in Nat
      /\ store[req[t].veh].version \in Nat /\ store'[req[t].veh].version \in Nat
  BY DEF CallInv, LockInv, TypeOK, Requests, VehicleState
<1>2. Expecting(t)
  BY DEF CallInv
<1> QED BY <1>1, <1>2 DEF Expecting, Onward

\* The session that moves: each statement hands on what the next one expects.
LEMMA ExpectingMoves ==
  ASSUME CallInv, TypeOK', NEW s \in Sessions,
         \/ ControlVehicle(s) \/ GarageDelete(s) \/ Work(s) \/ Fault(s) \/ Respond(s)
  PROVE  Expecting(s)'
<1>1. ASSUME \E step \in Steps \ SetSteps : Goto(s, step)
      PROVE  Expecting(s)'
  BY <1>1 DEF Expecting, Goto, CallInv, LockInv, TypeOK, SetSteps
<1>2. /\ req[s].veh \in Vehicles /\ req[s].expected \in Nat /\ snap[s].version \in Nat
      /\ store[req[s].veh].version \in Nat
  BY DEF CallInv, LockInv, TypeOK, Requests, VehicleState
<1>3. CASE ControlVehicle(s)
  <2>1. CASE Goto(s, "done")
    BY <1>1, <2>1 DEF Steps, SetSteps
  <2>2. CASE \E v \in Vehicles : Live(v) /\ \E p, z, x, e : BeginSet(s, v, p, z, x, e)
    <3>1. PICK v \in Vehicles : Live(v) /\ \E p, z, x, e : BeginSet(s, v, p, z, x, e)
      BY <2>2
    <3>2. pc'[s] = "read" /\ req'[s].veh = v /\ UNCHANGED life
      BY <1>3, <3>1 DEF ControlVehicle, BeginSet, Request, Goto, rowVars, CallInv, LockInv, TypeOK
    <3> QED BY <3>1, <3>2 DEF Expecting, Live
  <2> QED BY <1>3, <2>1, <2>2 DEF ControlVehicle, Finish
<1>4. CASE TxnRead(s)
  <2>1. CASE Goto(s, "update")
    BY <1>2, <1>4, <2>1 DEF TxnRead, Finish, Goto, Expecting, Live, rowVars, CallInv, LockInv,
       TypeOK, SetSteps
  <2>2. CASE Goto(s, "done")
    BY <1>1, <2>2 DEF Steps, SetSteps
  <2> QED BY <1>4, <2>1, <2>2 DEF TxnRead, Finish
<1>5. CASE TxnUpdate(s)
  <2>1. /\ pc[s] = "update" /\ UNCHANGED <<life, store, req, snap>>
        /\ life[req[s].veh] # "unborn" /\ snap[s].version = req[s].expected
        /\ snap[s].version <= store[req[s].veh].version
    BY <1>5 DEF TxnUpdate, rowVars, CallInv, Expecting, LockInv, SnapshotInv, SetSteps
  <2>2. CASE Goto(s, "reread") /\ ~RowMatches(s)
    <3>1. life[req[s].veh] \in {"live", "removed"}
      BY <1>2, <2>1 DEF CallInv, LockInv, TypeOK
    <3>2. life[req[s].veh] = "removed" \/ req[s].expected < store[req[s].veh].version
      BY <1>2, <2>1, <2>2, <3>1 DEF RowMatches, Live
    <3>3. pc'[s] = "reread"
      BY <2>2 DEF Goto, CallInv, LockInv, TypeOK
    <3> QED BY <2>1, <3>2, <3>3 DEF Expecting
  <2>3. CASE Goto(s, "audit") /\ snap[s].version < MaxVersion
    <3>1. pc'[s] = "audit"
      BY <2>3 DEF Goto, CallInv, LockInv, TypeOK
    <3> QED BY <2>1, <2>3, <3>1 DEF Expecting
  <2>4. CASE Goto(s, "done")
    BY <1>1, <2>4 DEF Steps, SetSteps
  <2> QED BY <1>5, <2>2, <2>3, <2>4 DEF TxnUpdate, Finish
<1>6. CASE InsertAudit(s)
  <2>1. pc[s] = "audit" /\ pc'[s] = "commit" /\ UNCHANGED <<life, store, req, snap>>
    BY <1>6 DEF InsertAudit, Goto, rowVars, CallInv, LockInv, TypeOK
  <2> QED BY <2>1 DEF Expecting, CallInv, SetSteps
<1>7. CASE \/ GarageDelete(s) \/ CurrentVersion(s) \/ TxnCommit(s) \/ TxnCommitAckLost(s)
           \/ DeleteParent(s) \/ DeleteCascade(s) \/ DeleteCommit(s) \/ Fault(s) \/ Respond(s)
  <2>1. \E step \in {"idle", "done", "d_parent", "d_child", "d_commit"} : Goto(s, step)
    BY <1>7 DEF GarageDelete, CurrentVersion, TxnCommit, TxnCommitAckLost, DeleteParent,
       DeleteCascade, DeleteCommit, Fault, Respond, DeadlockVictim, StorageFail, Abandon,
       Reset, Finish
  <2> QED BY <1>1, <2>1 DEF Steps, SetSteps, DeleteSteps
<1> QED BY <1>3, <1>4, <1>5, <1>6, <1>7 DEF Work

\* A session that stays out of the deleters' way leaves them to it.
LEMMA DeletesKept ==
  ASSUME CallInv, TypeOK', NEW s \in Sessions,
         \A t \in Sessions \ {s} : pc'[t] = pc[t] /\ req'[t] = req[t],
         pc'[s] \in {"d_child", "d_commit"} => pc[s] \in {"d_child", "d_commit"} /\ req'[s] = req[s],
         \A v \in Vehicles : Live(v) => life'[v] = "live"
  PROVE  \A t \in Sessions : DeletesAlone(t)'
<1> SUFFICES ASSUME NEW t \in Sessions, pc'[t] \in {"d_child", "d_commit"}
             PROVE  /\ life'[req'[t].veh] = "live"
                    /\ \A u \in Sessions \ {t} :
                         pc'[u] \in {"d_child", "d_commit"} => req'[u].veh # req'[t].veh
  BY DEF DeletesAlone, Live
<1>1. \A u \in Sessions : pc'[u] \in {"d_child", "d_commit"} =>
                            pc[u] \in {"d_child", "d_commit"} /\ req'[u] = req[u]
  OBVIOUS
<1>2. DeletesAlone(t) /\ req[t].veh \in Vehicles
  BY DEF CallInv, LockInv, TypeOK, Requests
<1> QED BY <1>1, <1>2 DEF DeletesAlone

LEMMA DeletesMove ==
  ASSUME CallInv, TypeOK', NEW s \in Sessions, DeleteParent(s) \/ DeleteCommit(s)
  PROVE  \A t \in Sessions : DeletesAlone(t)'
<1>1. CASE pc'[s] = "done" /\ UNCHANGED life
  BY <1>1, DeletesKept DEF DeleteParent, DeleteCommit, Finish, Goto, Live, CallInv, LockInv, TypeOK
<1>2. CASE DeleteParent(s) /\ Goto(s, "d_child")
  <2>1. /\ Live(req[s].veh) /\ UNCHANGED <<life, req>> /\ pc' = [pc EXCEPT ![s] = "d_child"]
        /\ \A t \in Sessions : pc[t] \in {"d_child", "d_commit"} => req[t].veh # req[s].veh
    BY <1>2 DEF DeleteParent, Goto, ParentLocked, At, rowVars, Finish, CallInv, LockInv, TypeOK
  <2> QED BY <2>1 DEF DeletesAlone, Live, CallInv, LockInv, TypeOK
<1>3. CASE DeleteCommit(s)
  <2>1. /\ pc[s] = "d_commit" /\ pc' = [pc EXCEPT ![s] = "done"] /\ UNCHANGED req
        /\ life' = [life EXCEPT ![req[s].veh] = "removed"]
    BY <1>3 DEF DeleteCommit, Finish, Goto
  <2>2. \A t \in Sessions \ {s} : pc[t] \in {"d_child", "d_commit"} => req[t].veh # req[s].veh
    BY <2>1 DEF CallInv, DeletesAlone
  <2> QED BY <2>1, <2>2 DEF DeletesAlone, Live, CallInv, LockInv, TypeOK, Requests
<1> QED BY <1>1, <1>2, <1>3 DEF DeleteParent, Finish, Goto, rowVars, CallInv, LockInv, TypeOK

LEMMA CallStep == CallInv /\ [Next]_vars => CallInv'
<1> SUFFICES ASSUME CallInv, [Next]_vars
             PROVE  \A t \in Sessions : Expecting(t)' /\ DeletesAlone(t)'
  BY LockStep DEF CallInv
<1>1. Onward /\ TypeOK' /\ TypeOK
  BY GoesOnward, TypeStep DEF CallInv, LockInv
<1>2. CASE UNCHANGED vars
  BY <1>1, <1>2, ExpectingKept DEF vars, DeletesAlone, Live, CallInv
<1>3. ASSUME NEW v \in Vehicles, GarageCreate(v)
      PROVE  \A t \in Sessions : Expecting(t)' /\ DeletesAlone(t)'
  <2>1. UNCHANGED sessionVars /\ \A u \in Vehicles : Live(u) => life'[u] = "live"
    BY <1>1, <1>3 DEF GarageCreate, Live, TypeOK
  <2>2. \A t \in Sessions : Expecting(t)'
    BY <1>1, <2>1, ExpectingKept DEF sessionVars
  <2>3. \A t \in Sessions : DeletesAlone(t)'
    BY <1>1, <2>1 DEF sessionVars, DeletesAlone, Live, CallInv, TypeOK, Requests
  <2> QED BY <2>2, <2>3
<1>4. ASSUME NEW s \in Sessions,
             ControlVehicle(s) \/ GarageDelete(s) \/ Work(s) \/ Fault(s) \/ Respond(s)
      PROVE  \A t \in Sessions : Expecting(t)' /\ DeletesAlone(t)'
  <2>1. \A t \in Sessions \ {s} : pc'[t] = pc[t] /\ req'[t] = req[t] /\ snap'[t] = snap[t]
    BY <1>1, <1>4, OneMoves
  <2>2. \A t \in Sessions : Expecting(t)'
    BY <1>1, <1>4, <2>1, ExpectingKept, ExpectingMoves
  <2>3. CASE DeleteParent(s) \/ DeleteCommit(s)
    BY <1>1, <2>2, <2>3, DeletesMove
  <2>4. CASE ~DeleteParent(s) /\ ~DeleteCommit(s)
    <3>1. \A v \in Vehicles : Live(v) => life'[v] = "live"
      BY <1>1, <1>4, <2>4, OnlyDeletesEnd
    <3>2. pc'[s] \in {"d_child", "d_commit"} => pc[s] \in {"d_child", "d_commit"} /\ req'[s] = req[s]
      BY <1>1, <1>4, <2>4, OnlyDeletesEnd
    <3> QED BY <1>1, <2>1, <2>2, <3>1, <3>2, DeletesKept
  <2> QED BY <2>3, <2>4
<1> QED BY <1>2, <1>3, <1>4 DEF Next

--------------------------------------------------------------------------------
\* VehicleHAL implements VehicleTwin: a call takes effect at its COMMIT, and every
\* answer that changes nothing is given at the statement that finds the reason.
LEMMA TwinSame ==
  /\ TwinOf!Cells = Cells /\ TwinOf!WritableCells = WritableCells
  /\ TwinOf!WritableValues = WritableValues
  /\ \A p \in WritableProperties : TwinOf!ValuesOf(p) = ValuesOf(p)
<1>1. TwinOf!Cells = Cells
  BY DEF Cells, TwinOf!Cells, ReadOnlyProperties, TwinOf!ReadOnlyProperties, GlobalProperties,
     TwinOf!GlobalProperties, ZonedProperties, TwinOf!ZonedProperties, SeatZones,
     TwinOf!SeatZones
<1>2. TwinOf!WritableProperties = WritableProperties
  BY DEF WritableProperties, TwinOf!WritableProperties, ZonedProperties,
     TwinOf!ZonedProperties, TempProperties, TwinOf!TempProperties, GlobalProperties,
     TwinOf!GlobalProperties
<1>3. TwinOf!WritableCells = WritableCells
  BY <1>1, <1>2 DEF WritableCells, TwinOf!WritableCells
<1> USE DEF Gears, TwinOf!Gears, Doors, TwinOf!Doors, Lights, TwinOf!Lights, Charges,
            TwinOf!Charges
<1>4. TwinOf!WritableValues = WritableValues
  BY DEF WritableValues, TwinOf!WritableValues
<1>5. \A p \in WritableProperties : TwinOf!ValuesOf(p) = ValuesOf(p)
  BY DEF ValuesOf, TwinOf!ValuesOf, TempProperties, TwinOf!TempProperties
<1> QED BY <1>1, <1>3, <1>4, <1>5

\* What the twin's variables are: the cells and the version of each row, and each
\* session's call.
Read(row) == [c \in Cells |-> ReadProperty(row, c[1], c[2])]
Reads == [v \in Vehicles |-> Read(store[v])]
Versions == [v \in Vehicles |-> store[v].version]
Calls == [s \in Sessions |-> OpOf(s)]

\* The twin's actions, in these terms.
Tells(s, answer) == Calls' = [Calls EXCEPT ![s] = answer]
Answered(code, n) == [st |-> "done", code |-> code, version |-> n, view |-> <<>>]
RowsRest == UNCHANGED <<life, Reads, Versions, audits>>

LEMMA TwinRests == RowsRest /\ UNCHANGED Calls => UNCHANGED TwinOf!twinVars
  BY DEF RowsRest, Reads, Read, Versions, Calls, TwinOf!twinVars

LEMMA TwinFails ==
  ASSUME NEW s \in Sessions, RowsRest, Calls[s].st \in {"setting", "removing"},
         Tells(s, Answered("storage", 0))
  PROVE  TwinOf!Fail(s)
  BY DEF RowsRest, Tells, Answered, Reads, Read, Versions, Calls, TwinOf!Fail, TwinOf!Tell,
     TwinOf!Answer, TwinOf!NoView

LEMMA TwinFindsNone ==
  ASSUME NEW s \in Sessions, RowsRest, Calls[s].st \in {"setting", "removing"},
         life[Calls[s].veh] # "live", Tells(s, Answered("not_found", 0))
  PROVE  TwinOf!NotFound(s)
  BY DEF RowsRest, Tells, Answered, Reads, Read, Versions, Calls, TwinOf!NotFound, TwinOf!Tell,
     TwinOf!Answer, TwinOf!NoView

LEMMA TwinConflicts ==
  ASSUME NEW s \in Sessions, RowsRest, Calls[s].st = "setting",
         life[Calls[s].veh] = "live", Versions[Calls[s].veh] # Calls[s].expected,
         Tells(s, Answered("conflict", Versions[Calls[s].veh]))
  PROVE  TwinOf!Conflict(s)
  BY DEF RowsRest, Tells, Answered, Reads, Read, Versions, Calls, TwinOf!Conflict, TwinOf!Tell,
     TwinOf!Answer, TwinOf!NoView

LEMMA TwinRefuses ==
  ASSUME NEW s \in Sessions, RowsRest, Calls[s] = TwinOf!Idle,
         NEW code \in {"invalid", "not_found"}, Tells(s, Answered(code, 0))
  PROVE  TwinOf!Refuse(s)
  BY DEF RowsRest, Tells, Answered, Reads, Read, Versions, Calls, TwinOf!Refuse, TwinOf!Tell,
     TwinOf!Answer, TwinOf!NoView

LEMMA TwinLeaves ==
  ASSUME NEW s \in Sessions, RowsRest, Calls[s] # TwinOf!Idle, Tells(s, TwinOf!Idle)
  PROVE  TwinOf!Leave(s)
  BY DEF RowsRest, Tells, Reads, Read, Versions, Calls, TwinOf!Leave, TwinOf!Tell

LEMMA TwinCalls ==
  ASSUME NEW s \in Sessions, RowsRest, Calls[s] = TwinOf!Idle, NEW o, Tells(s, o),
         \/ o \in [st : {"setting"}, veh : Vehicles, cell : WritableCells,
                   value : WritableValues, expected : Nat] /\ o.value \in ValuesOf(o.cell[1])
         \/ o \in [st : {"removing"}, veh : Vehicles \ DemoVehicles]
  PROVE  TwinOf!Call(s)
<1>1. Calls'[s] = o /\ Calls' = [Calls EXCEPT ![s] = Calls'[s]]
  BY DEF Tells, Calls
<1>2. \/ /\ Calls'[s] \in [st : {"setting"}, veh : Vehicles, cell : TwinOf!WritableCells,
                           value : TwinOf!WritableValues, expected : Nat]
         /\ Calls'[s].value \in TwinOf!ValuesOf(Calls'[s].cell[1])
      \/ Calls'[s] \in [st : {"removing"}, veh : Vehicles \ DemoVehicles]
  <2>1. \A c \in WritableCells : c[1] \in WritableProperties
    BY DEF WritableCells
  <2>2. CASE o \in [st : {"setting"}, veh : Vehicles, cell : WritableCells,
                    value : WritableValues, expected : Nat] /\ o.value \in ValuesOf(o.cell[1])
    <3>1. o.cell \in WritableCells
      BY <2>2
    <3>2. TwinOf!ValuesOf(o.cell[1]) = ValuesOf(o.cell[1])
      BY <2>1, <3>1, TwinSame
    <3> QED BY <1>1, <2>2, <3>2, TwinSame
  <2> QED BY <1>1, <2>2
<1> QED BY <1>1, <1>2 DEF RowsRest, Reads, Read, Versions, Calls, TwinOf!Call, TwinOf!Tell

LEMMA TwinSets ==
  ASSUME NEW s \in Sessions, NEW q, Calls[s] = q, q.st = "setting",
         life[q.veh] = "live", Versions[q.veh] = q.expected, Versions[q.veh] < MaxVersion,
         NEW next, next = [Reads[q.veh] EXCEPT ![q.cell] = q.value],
         Reads' = [Reads EXCEPT ![q.veh] = next],
         Versions' = [Versions EXCEPT ![q.veh] = @ + 1],
         audits' = [audits EXCEPT ![q.veh] =
                      Append(@, [by |-> s, cell |-> q.cell, old |-> Reads[q.veh][q.cell],
                                 new |-> q.value, version |-> Versions[q.veh] + 1])],
         \/ Tells(s, [Answered("ok", Versions[q.veh] + 1) EXCEPT !.view = next])
         \/ Tells(s, Answered("storage", 0)),
         UNCHANGED life
  PROVE  TwinOf!Set(s)
<1>1. [Answered("ok", Versions[q.veh] + 1) EXCEPT !.view = next]
        = TwinOf!Answer("ok", Versions[q.veh] + 1, next)
  BY DEF Answered, TwinOf!Answer
<1>2. Answered("storage", 0) = TwinOf!Answer("storage", 0, TwinOf!NoView)
  BY DEF Answered, TwinOf!Answer, TwinOf!NoView
<1>3. LET r == Calls[s]
          new == [Reads[r.veh] EXCEPT ![r.cell] = r.value]
      IN  /\ r.st = "setting"
          /\ life[r.veh] = "live"
          /\ Versions[r.veh] = r.expected
          /\ Versions[r.veh] < MaxVersion
          /\ Reads' = [Reads EXCEPT ![r.veh] = new]
          /\ Versions' = [Versions EXCEPT ![r.veh] = @ + 1]
          /\ audits' = [audits EXCEPT ![r.veh] =
                          Append(@, [by |-> s, cell |-> r.cell, old |-> Reads[r.veh][r.cell],
                                     new |-> r.value, version |-> Versions[r.veh] + 1])]
          /\ \/ Calls' = [Calls EXCEPT ![s] = TwinOf!Answer("ok", Versions[r.veh] + 1, new)]
             \/ Calls' = [Calls EXCEPT ![s] = TwinOf!Answer("storage", 0, TwinOf!NoView)]
          /\ UNCHANGED life
  BY <1>1, <1>2 DEF Tells
<1> QED BY <1>3 DEF Reads, Read, Versions, Calls, TwinOf!Set, TwinOf!Tell

LEMMA TwinRemoves ==
  ASSUME NEW s \in Sessions, NEW v, Calls[s].st = "removing", Calls[s].veh = v,
         life[v] = "live", life' = [life EXCEPT ![v] = "removed"],
         audits' = [audits EXCEPT ![v] = <<>>], UNCHANGED <<Reads, Versions>>,
         Tells(s, Answered("ok", 0)) \/ Tells(s, Answered("storage", 0))
  PROVE  TwinOf!Remove(s)
  BY DEF Tells, Answered, Reads, Read, Versions, Calls, TwinOf!Remove, TwinOf!Tell,
     TwinOf!Answer, TwinOf!NoView

LEMMA TwinCreates ==
  ASSUME NEW v \in Vehicles, GarageCreate(v)
  PROVE  TwinOf!Create(v)
<1>1. UNCHANGED Reads /\ UNCHANGED Versions
  BY DEF GarageCreate, Reads, Read, Versions
<1>2. UNCHANGED Calls
  BY DEF GarageCreate, sessionVars, Calls, OpOf
<1> QED BY <1>1, <1>2 DEF GarageCreate, Reads, Read, Versions, Calls, TwinOf!Create

--------------------------------------------------------------------------------
\* How a session's call reads off its variables.
LEMMA CallOfSetter ==
  ASSUME TypeOK, NEW s \in Sessions, pc[s] \in SetSteps
  PROVE  /\ Calls[s].st = "setting" /\ Calls[s].veh = req[s].veh
         /\ Calls[s].cell = <<req[s].prop, req[s].zone>>
         /\ Calls[s].value = req[s].value /\ Calls[s].expected = req[s].expected
<1>1. Calls[s] = [st |-> "setting", veh |-> req[s].veh, cell |-> <<req[s].prop, req[s].zone>>,
                  value |-> req[s].value, expected |-> req[s].expected]
  BY DEF Calls, OpOf, SetSteps, DeleteSteps
<1> QED BY <1>1

LEMMA CallOfDeleter ==
  ASSUME TypeOK, NEW s \in Sessions, pc[s] \in DeleteSteps
  PROVE  Calls[s].st = "removing" /\ Calls[s].veh = req[s].veh
<1>1. Calls[s] = [st |-> "removing", veh |-> req[s].veh]
  BY DEF Calls, OpOf, SetSteps, DeleteSteps
<1> QED BY <1>1

LEMMA CallOfIdle ==
  ASSUME TypeOK, NEW s \in Sessions, pc[s] = "idle"
  PROVE  Calls[s] = TwinOf!Idle
  BY DEF Calls, OpOf, TwinOf!Idle, SetSteps, DeleteSteps

\* A session that moves on within its transaction: its call is the same.
LEMMA CallsRest ==
  ASSUME TypeOK, TypeOK', NEW s \in Sessions, UNCHANGED rowVars,
         \A t \in Sessions \ {s} :
           pc'[t] = pc[t] /\ req'[t] = req[t] /\ snap'[t] = snap[t] /\ reply'[t] = reply[t],
         req'[s] = req[s],
         \/ pc[s] \in SetSteps /\ pc'[s] \in SetSteps
         \/ pc[s] \in DeleteSteps /\ pc'[s] \in DeleteSteps
  PROVE  UNCHANGED TwinOf!twinVars
<1>0. \A t \in Sessions \ {s} : OpOf(t)' = OpOf(t)
  BY DEF OpOf
<1>1. OpOf(s)' = OpOf(s)
  <2>1. CASE pc[s] \in SetSteps /\ pc'[s] \in SetSteps
    BY <2>1 DEF OpOf, SetSteps, DeleteSteps
  <2>2. CASE pc[s] \in DeleteSteps /\ pc'[s] \in DeleteSteps
    BY <2>2 DEF OpOf, SetSteps, DeleteSteps
  <2> QED BY <2>1, <2>2
<1>2. UNCHANGED Calls
  BY <1>0, <1>1 DEF Calls
<1>3. RowsRest
  BY DEF RowsRest, rowVars, Reads, Read, Versions
<1> QED BY <1>2, <1>3, TwinRests

\* A session's own call is the only one that changes with it.
LEMMA CallMoves ==
  ASSUME NEW s \in Sessions, NEW o, OpOf(s)' = o,
         \A t \in Sessions \ {s} :
           pc'[t] = pc[t] /\ req'[t] = req[t] /\ snap'[t] = snap[t] /\ reply'[t] = reply[t]
  PROVE  Tells(s, o)
<1>1. \A t \in Sessions \ {s} : OpOf(t)' = OpOf(t)
  BY DEF OpOf
<1>2. \A t \in Sessions : Calls'[t] = [Calls EXCEPT ![s] = o][t]
  BY <1>1 DEF Calls
<1> QED BY <1>2 DEF Calls, Tells

\* The answer of a transaction that ends without a new state.
LEMMA AnswerMoves ==
  ASSUME TypeOK, NEW s \in Sessions, NEW code \in Codes, NEW n \in Nat, Finish(s, code, n),
         code # "ok" \/ n = 0,
         \A t \in Sessions \ {s} :
           pc'[t] = pc[t] /\ req'[t] = req[t] /\ snap'[t] = snap[t] /\ reply'[t] = reply[t]
  PROVE  Tells(s, Answered(code, n))
<1>1. pc'[s] = "done" /\ reply'[s] = [code |-> code, version |-> n]
  BY DEF Finish, Goto, Reply, TypeOK
<1>2. OpOf(s)' = Answered(code, n)
  BY <1>1 DEF OpOf, Answered, SetSteps, DeleteSteps
<1> QED BY <1>2, CallMoves

--------------------------------------------------------------------------------
LEMMA TwinInit == Init => TwinOf!Init
<1> SUFFICES ASSUME Init PROVE TwinOf!Init
  OBVIOUS
<1>1. ASSUME NEW v \in Vehicles
      PROVE  Read(BirthState(v))
               = IF v \in DemoVehicles THEN TwinOf!DemoCells ELSE TwinOf!NewCells
  <2>1. ASSUME NEW c \in Cells
        PROVE  /\ ReadProperty(DemoState, c[1], c[2]) = TwinOf!DemoCells[c]
               /\ ReadProperty(NewState, c[1], c[2]) = TwinOf!NewCells[c]
    <3>1. \/ c[1] \in {"SEAT_HEAT", "WINDOW_POSITION", "DOOR_STATE"} /\ c[2] \in SeatZones
          \/ c[1] \in {"GEAR", "LIGHT_STATE", "CHARGE_STATUS", "VEHICLE_SPEED", "BATTERY_SOC",
                       "RANGE_KM", "DRIVER_TEMP", "PASSENGER_TEMP"}
      BY DEF Cells, ZonedProperties, ReadOnlyProperties, GlobalProperties
    <3> QED BY <3>1, TwinSame DEF ReadProperty, DemoState, NewState, BornWith, TwinOf!DemoCells,
              TwinOf!NewCells, TwinOf!TempProperties, SeatZones, Float, Integer, Text,
              TwinOf!Float, TwinOf!Integer, TwinOf!Text
  <2>2. Read(DemoState) = TwinOf!DemoCells
    BY <2>1, TwinSame DEF Read, TwinOf!DemoCells
  <2>3. Read(NewState) = TwinOf!NewCells
    BY <2>1, TwinSame DEF Read, TwinOf!NewCells
  <2> QED BY <2>2, <2>3 DEF BirthState
<1>2. Reads = [v \in Vehicles |->
                 IF v \in DemoVehicles THEN TwinOf!DemoCells ELSE TwinOf!NewCells]
  BY <1>1 DEF Reads, Init
<1>3. Versions = [v \in Vehicles |-> 0]
  <2>1. \A v \in Vehicles : BirthState(v).version = 0
    BY DEF BirthState, DemoState, NewState, BornWith
  <2> QED BY <2>1 DEF Versions, Init
<1>4. Calls = [s \in Sessions |-> TwinOf!Idle]
  BY DEF Calls, OpOf, Init, TwinOf!Idle, SetSteps, DeleteSteps
<1> QED BY <1>2, <1>3, <1>4, TwinSame DEF Init, Reads, Read, Versions, Calls, TwinOf!Init

\* A commit is the twin's Set: the state it writes is the one it read, but for the cell.
LEMMA CommitSets ==
  ASSUME CallInv, TypeOK', NEW s \in Sessions, TxnCommit(s) \/ TxnCommitAckLost(s)
  PROVE  TwinOf!Set(s)
<1> DEFINE v == req[s].veh
           c == <<req[s].prop, req[s].zone>>
           x == req[s].value
           next == [Reads[v] EXCEPT ![c] = x]
<1>1. /\ pc[s] = "commit" /\ CommitRows(s) /\ pc' = [pc EXCEPT ![s] = "done"]
      /\ TypeOK /\ NoLostUpdate /\ UNCHANGED <<life, req>>
  BY DEF TxnCommit, TxnCommitAckLost, CommitRows, Finish, Goto, CallInv, LockInv
<1>2. /\ v \in Vehicles /\ c \in WritableCells /\ Live(v)
      /\ \A u \in Vehicles \ {v} : store'[u] = store[u] /\ audits'[u] = audits[u]
      /\ store'[v].version = store[v].version + 1
      /\ ReadProperty(store'[v], c[1], c[2]) = x
      /\ \A d \in Cells \ {c} : ReadProperty(store'[v], d[1], d[2])
                                  = ReadProperty(store[v], d[1], d[2])
      /\ audits'[v] = Append(audits[v], AuditRow(s))
      /\ AuditRow(s).old = ReadProperty(store[v], c[1], c[2])
  BY <1>1, CommitEffect
<1>3. snap[s] = store[v] /\ snap[s].version = req[s].expected /\ snap[s].version < MaxVersion
  BY <1>1 DEF NoLostUpdate, CallInv, Expecting
<1>4. c \in Cells /\ Read(store[v])[c] = ReadProperty(store[v], c[1], c[2])
  BY <1>2 DEF WritableCells, Read
<1>5. Read(store'[v]) = [Read(store[v]) EXCEPT ![c] = x]
  <2>1. \A d \in Cells : ReadProperty(store'[v], d[1], d[2])
                           = [Read(store[v]) EXCEPT ![c] = x][d]
    BY <1>2, <1>4 DEF Read
  <2> QED BY <2>1 DEF Read
<1>6. /\ Reads[v] = Read(store[v]) /\ Versions[v] = store[v].version
      /\ Reads' = [Reads EXCEPT ![v] = Read(store'[v])]
      /\ Versions' = [Versions EXCEPT ![v] = store[v].version + 1]
  BY <1>2 DEF Reads, Read, Versions
<1>7. audits' = [audits EXCEPT ![v] =
                   Append(@, [by |-> s, cell |-> c, old |-> Reads[v][c], new |-> x,
                              version |-> Versions[v] + 1])]
  <2>1. AuditRow(s) = [by |-> s, cell |-> c, old |-> Reads[v][c], new |-> x,
                       version |-> Versions[v] + 1]
    BY <1>2, <1>3, <1>4, <1>6 DEF AuditRow
  <2> QED BY <1>1, <2>1 DEF CommitRows
<1>8. \A t \in Sessions \ {s} :
        pc'[t] = pc[t] /\ req'[t] = req[t] /\ snap'[t] = snap[t] /\ reply'[t] = reply[t]
  BY <1>1, OneMoves DEF Work
<1>9. \/ Tells(s, [Answered("ok", Versions[v] + 1) EXCEPT !.view = next])
      \/ Tells(s, Answered("storage", 0))
  <2>1. CASE TxnCommit(s)
    <3>1. pc'[s] = "done" /\ reply'[s] = [code |-> "ok", version |-> store[v].version + 1]
      BY <1>1, <1>3, <2>1 DEF TxnCommit, Finish, Reply, TypeOK
    <3>2. snap'[s] = store'[v] /\ store[v].version \in Nat
      BY <1>1, <1>2 DEF CommitRows, TypeOK, VehicleState
    <3>3. [d \in Cells |-> ReadProperty(snap'[s], d[1], d[2])] = next
      BY <1>5, <1>6, <3>2 DEF Read
    <3> HIDE DEF next, v
    <3>4. OpOf(s)' = [Answered("ok", store[v].version + 1) EXCEPT !.view = next]
      BY <3>1, <3>2, <3>3 DEF OpOf, Answered, SetSteps, DeleteSteps
    <3> QED BY <1>6, <1>8, <3>4, CallMoves
  <2>2. CASE TxnCommitAckLost(s)
    BY <1>1, <1>8, <2>2, AnswerMoves DEF TxnCommitAckLost, Codes
  <2> QED BY <2>1, <2>2
<1>10. PICK q : q = Calls[s]
  OBVIOUS
<1>11. /\ Calls[s] = q /\ q.st = "setting" /\ q.veh = v /\ q.cell = c /\ q.value = x
       /\ q.expected = req[s].expected
  BY <1>1, <1>10, CallOfSetter DEF SetSteps
<1>12. /\ life[q.veh] = "live" /\ Versions[q.veh] = q.expected /\ Versions[q.veh] < MaxVersion
  BY <1>2, <1>3, <1>6, <1>11 DEF Live
<1>13. /\ next = [Reads[q.veh] EXCEPT ![q.cell] = q.value]
       /\ Reads' = [Reads EXCEPT ![q.veh] = next]
       /\ Versions' = [Versions EXCEPT ![q.veh] = @ + 1]
  BY <1>5, <1>6, <1>11
<1>14. audits' = [audits EXCEPT ![q.veh] =
                    Append(@, [by |-> s, cell |-> q.cell, old |-> Reads[q.veh][q.cell],
                               new |-> q.value, version |-> Versions[q.veh] + 1])]
  BY <1>7, <1>11
<1>15. \/ Tells(s, [Answered("ok", Versions[q.veh] + 1) EXCEPT !.view = next])
       \/ Tells(s, Answered("storage", 0))
  BY <1>9, <1>11
<1> HIDE DEF next
<1> QED BY <1>1, <1>11, <1>12, <1>13, <1>14, <1>15, TwinSets

\* Any other step of a session.
LEMMA SessionTwin ==
  ASSUME CallInv, TypeOK', NEW s \in Sessions,
         \/ ControlVehicle(s) \/ GarageDelete(s) \/ Work(s) \/ Fault(s) \/ Respond(s)
  PROVE  TwinOf!Next \/ UNCHANGED TwinOf!twinVars
<1> DEFINE v == req[s].veh
<1>1. /\ TypeOK /\ v \in Vehicles /\ store[v].version \in Nat
      /\ Versions[v] = store[v].version
  BY DEF CallInv, LockInv, TypeOK, Requests, VehicleState, Versions
<1>2. \A t \in Sessions \ {s} :
        pc'[t] = pc[t] /\ req'[t] = req[t] /\ snap'[t] = snap[t] /\ reply'[t] = reply[t]
  BY <1>1, OneMoves
<1>3. UNCHANGED rowVars => RowsRest
  BY DEF rowVars, RowsRest, Reads, Read, Versions
<1>4. ASSUME TwinOf!Call(s) \/ TwinOf!Set(s) \/ TwinOf!Remove(s) \/ TwinOf!Conflict(s)
               \/ TwinOf!NotFound(s) \/ TwinOf!Fail(s) \/ TwinOf!Refuse(s) \/ TwinOf!Leave(s)
      PROVE  TwinOf!Next
  BY <1>4 DEF TwinOf!Next
<1>5. ASSUME pc[s] \in SetSteps
      PROVE  Calls[s].st = "setting" /\ Calls[s].veh = v /\ Calls[s].expected = req[s].expected
  BY <1>1, <1>5, CallOfSetter
<1>6. ASSUME InTransaction(s)
      PROVE  Calls[s].st \in {"setting", "removing"} /\ Calls[s].veh = v
  <2>1. CASE pc[s] \in DeleteSteps
    BY <1>1, <2>1, CallOfDeleter
  <2> QED BY <1>5, <1>6, <2>1 DEF InTransaction
\* Answers that change nothing.
<1>7. ASSUME InTransaction(s), UNCHANGED rowVars, Finish(s, "storage", 0)
      PROVE  TwinOf!Next
  <2>1. Tells(s, Answered("storage", 0))
    BY <1>1, <1>2, <1>7, AnswerMoves DEF Codes
  <2> QED BY <1>3, <1>4, <1>6, <1>7, <2>1, TwinFails
<1>8. ASSUME InTransaction(s), UNCHANGED rowVars, ~Live(v), Finish(s, "not_found", 0)
      PROVE  TwinOf!Next
  <2>1. Tells(s, Answered("not_found", 0))
    BY <1>1, <1>2, <1>8, AnswerMoves DEF Codes
  <2> QED BY <1>3, <1>4, <1>6, <1>8, <2>1, TwinFindsNone DEF Live
<1>9. ASSUME pc[s] \in SetSteps, UNCHANGED rowVars, Live(v),
             store[v].version # req[s].expected, Finish(s, "conflict", store[v].version)
      PROVE  TwinOf!Next
  <2>1. Tells(s, Answered("conflict", Versions[v]))
    BY <1>1, <1>2, <1>9, AnswerMoves DEF Codes
  <2>2. Calls[s].veh = v /\ Calls[s].st = "setting" /\ life[Calls[s].veh] = "live"
        /\ Versions[Calls[s].veh] # Calls[s].expected
    BY <1>1, <1>5, <1>9 DEF Live
  <2> QED BY <1>3, <1>4, <1>9, <2>1, <2>2, TwinConflicts
<1>10. ASSUME UNCHANGED <<rowVars, req>>,
              \/ pc[s] \in SetSteps /\ \E step \in SetSteps : Goto(s, step)
              \/ pc[s] \in DeleteSteps /\ \E step \in DeleteSteps : Goto(s, step)
       PROVE  UNCHANGED TwinOf!twinVars
  BY <1>1, <1>2, <1>10, CallsRest DEF Goto, TypeOK
<1>11. CASE ControlVehicle(s)
  <2>1. Calls[s] = TwinOf!Idle /\ RowsRest
    BY <1>1, <1>3, <1>11, CallOfIdle DEF ControlVehicle
  <2>2. CASE \E code \in {"invalid", "not_found"} : Finish(s, code, 0)
    <3>1. PICK code \in {"invalid", "not_found"} : Finish(s, code, 0)
      BY <2>2
    <3>2. Tells(s, Answered(code, 0))
      BY <1>1, <1>2, <3>1, AnswerMoves DEF Codes
    <3> QED BY <1>4, <2>1, <3>2, TwinRefuses
  <2>3. CASE \E u \in Vehicles, r \in RawRequests, e \in ExpectedVersions :
               /\ Normalizable(r[1], r[2], r[3])
               /\ BeginSet(s, u, r[1], NormalZone(r[1], r[2]), NormalValue(r[1], r[3]), e)
    <3>1. PICK u \in Vehicles, r \in RawRequests, e \in ExpectedVersions :
               /\ Normalizable(r[1], r[2], r[3])
               /\ BeginSet(s, u, r[1], NormalZone(r[1], r[2]), NormalValue(r[1], r[3]), e)
      BY <2>3
    <3>2. PICK q : q = Request(u, r[1], NormalZone(r[1], r[2]), NormalValue(r[1], r[3]), e)
      OBVIOUS
    <3>3. q \in Requests /\ Normalised(q)
      BY <3>1, <3>2, SetRequestTyped, ExpectedAssumption
    <3>4. pc'[s] = "read" /\ req'[s] = q
      BY <1>1, <3>1, <3>2 DEF BeginSet, Goto, TypeOK
    <3> DEFINE o == [st |-> "setting", veh |-> q.veh, cell |-> <<q.prop, q.zone>>,
                     value |-> q.value, expected |-> q.expected]
    <3>5. OpOf(s)' = o
      BY <3>4 DEF OpOf, SetSteps, DeleteSteps
    <3>6. o \in [st : {"setting"}, veh : Vehicles, cell : WritableCells,
                 value : WritableValues, expected : Nat] /\ o.value \in ValuesOf(o.cell[1])
      BY <3>3 DEF Requests, Normalised
    <3> HIDE DEF o
    <3>7. Tells(s, o)
      BY <1>2, <3>5, CallMoves
    <3> QED BY <1>4, <2>1, <3>6, <3>7, TwinCalls
  <2> QED BY <1>11, <2>2, <2>3 DEF ControlVehicle
<1>12. CASE GarageDelete(s)
  <2>1. Calls[s] = TwinOf!Idle /\ RowsRest
    BY <1>1, <1>3, <1>12, CallOfIdle DEF GarageDelete
  <2>2. PICK u \in Vehicles \ DemoVehicles : req' = [req EXCEPT ![s] = Removal(u)]
    BY <1>12 DEF GarageDelete
  <2>3. pc'[s] = "d_parent" /\ req'[s].veh = u
    BY <1>1, <1>12, <2>2 DEF GarageDelete, Goto, Removal, Request, TypeOK
  <2> DEFINE o == [st |-> "removing", veh |-> u]
  <2>4. OpOf(s)' = o
    BY <2>3 DEF OpOf, SetSteps, DeleteSteps
  <2>5. Tells(s, o)
    BY <1>2, <2>4, CallMoves
  <2> QED BY <1>4, <2>1, <2>5, TwinCalls
<1>13. CASE TxnRead(s) \/ TxnUpdate(s) \/ CurrentVersion(s) \/ InsertAudit(s)
  <2>1. CASE TxnRead(s)
    BY <1>8, <1>9, <1>10, <2>1 DEF TxnRead, SetSteps, InTransaction
  <2>2. CASE TxnUpdate(s)
    BY <1>7, <1>10, <2>2 DEF TxnUpdate, SetSteps, InTransaction
  <2>3. CASE CurrentVersion(s)
    <3>1. Live(v) => store[v].version # req[s].expected
      <4>1. pc[s] = "reread" /\ Expecting(s) /\ req[s].expected \in Nat
        BY <1>1, <2>3 DEF CurrentVersion, CallInv, TypeOK, Requests
      <4> QED BY <1>1, <4>1 DEF Expecting, Live
    <3> QED BY <1>8, <1>9, <2>3, <3>1 DEF CurrentVersion, SetSteps, InTransaction
  <2>4. CASE InsertAudit(s)
    BY <1>10, <2>4 DEF InsertAudit, SetSteps
  <2> QED BY <1>13, <2>1, <2>2, <2>3, <2>4
<1>14. CASE TxnCommit(s) \/ TxnCommitAckLost(s)
  BY <1>4, <1>14, CommitSets
<1>15. CASE DeleteParent(s) \/ DeleteCascade(s)
  <2>1. CASE Goto(s, "d_child") \/ Goto(s, "d_commit")
    BY <1>10, <1>15, <2>1 DEF DeleteParent, DeleteCascade, DeleteSteps
  <2>2. CASE DeleteParent(s) /\ ~Live(v) /\ Finish(s, "not_found", 0)
    BY <1>8, <2>2 DEF DeleteParent, DeleteSteps, InTransaction
  <2> QED BY <1>15, <2>1, <2>2 DEF DeleteParent, DeleteCascade
<1>16. CASE DeleteCommit(s)
  <2>1. Calls[s].st = "removing" /\ Calls[s].veh = v
    BY <1>1, <1>16, CallOfDeleter DEF DeleteCommit, DeleteSteps
  <2>2. life[v] = "live"
    BY <1>16 DEF DeleteCommit, CallInv, DeletesAlone, Live
  <2>3. UNCHANGED <<Reads, Versions>>
    BY <1>16 DEF DeleteCommit, Reads, Read, Versions
  <2>4. Tells(s, Answered("ok", 0)) \/ Tells(s, Answered("storage", 0))
    BY <1>1, <1>2, <1>16, AnswerMoves DEF DeleteCommit, Codes
  <2> QED BY <1>4, <1>16, <2>1, <2>2, <2>3, <2>4, TwinRemoves DEF DeleteCommit
<1>17. CASE DeadlockVictim(s) \/ StorageFail(s)
  BY <1>7, <1>17 DEF DeadlockVictim, StorageFail, InTransaction, SetSteps, DeleteSteps
<1>18. CASE Abandon(s) \/ Respond(s)
  <2>1. pc'[s] = "idle" /\ UNCHANGED rowVars /\ pc[s] # "idle"
    BY <1>1, <1>18 DEF Abandon, Respond, Reset, Goto, TypeOK, InTransaction, SetSteps, DeleteSteps
  <2>2. Calls[s].st # "idle"
    BY <1>1, <2>1 DEF Calls, OpOf, TypeOK, SetSteps, DeleteSteps
  <2>3. OpOf(s)' = TwinOf!Idle
    BY <2>1 DEF OpOf, SetSteps, DeleteSteps, TwinOf!Idle
  <2>4. Tells(s, TwinOf!Idle)
    BY <1>2, <2>3, CallMoves
  <2>5. Calls[s] # TwinOf!Idle
    BY <2>2 DEF TwinOf!Idle
  <2> QED BY <1>3, <1>4, <2>1, <2>4, <2>5, TwinLeaves
<1> QED BY <1>11, <1>12, <1>13, <1>14, <1>15, <1>16, <1>17, <1>18 DEF Work, Fault

LEMMA TwinStep == CallInv /\ [Next]_vars => [TwinOf!Next]_(TwinOf!twinVars)
<1> SUFFICES ASSUME CallInv, [Next]_vars
             PROVE  TwinOf!Next \/ UNCHANGED TwinOf!twinVars
  OBVIOUS
<1>1. TypeOK'
  BY TypeStep DEF CallInv, LockInv
<1>2. CASE UNCHANGED vars
  <2>1. RowsRest /\ UNCHANGED Calls
    BY <1>2 DEF vars, RowsRest, Reads, Read, Versions, Calls, OpOf
  <2> QED BY <2>1, TwinRests
<1>3. ASSUME NEW v \in Vehicles, GarageCreate(v)
      PROVE  TwinOf!Next
  BY <1>3, TwinCreates DEF TwinOf!Next
<1> QED BY <1>1, <1>2, <1>3, SessionTwin DEF Next

\* Linearizability of the vehicle: whatever statements, failures, deadlocks and lost
\* acknowledgements any number of sessions interleave to, the callers of set_property and of
\* the garage's delete see one atomic versioned register for each vehicle.
THEOREM TwinImplemented == Spec => ImplementsTwin
<1>1. Init => CallInv
  <2>1. Init => LockInv
    BY AuditInit DEF AuditInv
  <2> QED BY <2>1 DEF Init, CallInv, Expecting, DeletesAlone, SetSteps
<1> QED BY <1>1, TwinInit, CallStep, TwinStep, PTL DEF Spec, ImplementsTwin, TwinOf!Spec
================================================================================
