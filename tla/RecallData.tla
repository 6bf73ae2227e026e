------------------------------- MODULE RecallData ------------------------------
(***************************************************************************)
(* ExternalVehicleDataService over ExternalDataRepository and the NHTSA    *)
(* provider: VIN decoding and the recalls of one vehicle of the garage,    *)
(* while its owner changes it to another model or deletes it.              *)
(*                                                                         *)
(* A request reads the vehicle and its cache entry, calls the provider     *)
(* through the circuit, replaces the vehicle's rows in one transaction and *)
(* saves the entry in another, and lists the rows in a third.  The rows    *)
(* belong to the vehicle; the entry that vouches for them to the vehicle   *)
(* and its model.  Transactions are READ COMMITTED: a DELETE sees the rows *)
(* committed when it begins, and waits for those another has deleted.      *)
(*                                                                         *)
(* An entry is fresh until its expires_at and expired after.  The two      *)
(* attempts of _get_with_retry are one call, that succeeds or fails.       *)
(***************************************************************************)
EXTENDS CircuitBreaker, FiniteSets

CONSTANTS Requests,   \* the sessions that ask, one request after the other
          Models,     \* what the vehicle may be: a make, a model and a year
          Catalog     \* Catalog[m] : the campaigns the provider knows of a model

ASSUME CatalogAssumption == DOMAIN Catalog = Models /\ Models \cap {"gone", "vin"} = {}

VARIABLES model,      \* what the vehicle is, Gone when it is deleted
          rows,       \* vehicle_recalls: [id, for], for being the model asked about
          entry,      \* vehicle_data_cache, by what the key names
          stored,     \* history: the models whose recalls were stored
          req         \* req[r] : the request of session r

dataVars == <<model, rows, entry, stored>>
vars == <<circuitVars, dataVars, req>>

Gone == "gone"
Vin == "vin"
Keys == Models \cup {Vin}

NoRequest == [pc |-> "idle", key |-> Vin, cached |-> "none", status |-> "none",
              seen |-> {}, doomed |-> {}]

Init ==
  /\ CircuitInit
  /\ model \in Models
  /\ rows = {} /\ stored = {}
  /\ entry = [k \in Keys |-> "none"]
  /\ req = [r \in Requests |-> NoRequest]

At(r, pc) == req[r].pc = pc
Goto(r, pc) == req' = [req EXCEPT ![r].pc = pc]
Report(r, status, pc) == req' = [req EXCEPT ![r].status = status, ![r].pc = pc]
\* The answer ends the request, and its transaction if it has one.
Answer(r) == req' = [req EXCEPT ![r] = NoRequest]
IsVin(r) == req[r].key = Vin

--------------------------------------------------------------------------------
AskVin(r) ==
  /\ At(r, "idle")
  /\ req' = [req EXCEPT ![r].key = Vin, ![r].pc = "keyed"]
  /\ UNCHANGED <<circuitVars, dataVars>>

\* The recalls of a vehicle that is gone are not found: nothing happens.
AskRecalls(r) ==
  /\ At(r, "idle") /\ model # Gone
  /\ req' = [req EXCEPT ![r].key = model, ![r].pc = "keyed"]
  /\ UNCHANGED <<circuitVars, dataVars>>

GetCache(r) ==
  LET found == entry[req[r].key]
      after == IF found # "fresh" THEN "fetching"
               ELSE IF IsVin(r) THEN "composing" ELSE "listing"
  IN  /\ At(r, "keyed")
      /\ req' = [req EXCEPT ![r].cached = found, ![r].pc = after,
                   ![r].status = IF found = "fresh" THEN "cached" ELSE "success"]
      /\ UNCHANGED <<circuitVars, dataVars>>

CallProvider(r) ==
  /\ At(r, "fetching")
  /\ \/ CircuitRefuses /\ Goto(r, "refused")
     \/ CircuitPasses /\ Goto(r, "calling")
  /\ UNCHANGED dataVars

\* What comes next of a fetch: recalls are stored before anything vouches for them.
AfterFetch_Vouches(r) == "saving"                                      \* fault
AfterFetch(r) == IF IsVin(r) THEN "saving" ELSE "replacing"

\* The call returns: with an answer that can be read, with one that cannot (the
\* circuit has succeeded all the same), or with an error.
ProviderReturns(r) ==
  /\ At(r, "calling")
  /\ \/ CircuitSuccess /\ Goto(r, AfterFetch(r))
     \/ CircuitSuccess /\ Goto(r, "refused")
     \/ CircuitFailure /\ Goto(r, "refused")
  /\ UNCHANGED dataVars

\* replace_recalls: the DELETE begins ...
BeginDelete(r) ==
  /\ At(r, "replacing")
  /\ req' = [req EXCEPT ![r].seen = rows, ![r].pc = "deleting"]
  /\ UNCHANGED <<circuitVars, dataVars>>

\* ... and ends: a row that another transaction is deleting is waited for ...
Uncontended(r) == \A q \in Requests \ {r} : req[q].doomed \cap req[r].seen = {}
DeleteRows_Commit(r) ==                                                \* fault
  /\ At(r, "deleting") /\ Uncontended(r)
  /\ rows' = rows \ req[r].seen
  /\ req' = [req EXCEPT ![r].seen = {}, ![r].pc = "inserting"]
  /\ UNCHANGED <<circuitVars, model, entry, stored>>
DeleteRows(r) ==
  /\ At(r, "deleting") /\ Uncontended(r)
  /\ req' = [req EXCEPT ![r].doomed = req[r].seen \cap rows, ![r].seen = {},
                        ![r].pc = "inserting"]
  /\ UNCHANGED <<circuitVars, dataVars>>

\* ... then the rows are inserted and the transaction commits, unless a campaign
\* is there already (UNIQUE (vehicle_id, external_id)) or the vehicle is gone.
Fetched(r) == {[id |-> c, for |-> req[r].key] : c \in Catalog[req[r].key]}
Clashing(r) == {row \in Fetched(r) : \E old \in rows \ req[r].doomed : old.id = row.id}
InsertedRows_Anyway(r) == [refused |-> FALSE, new |-> Fetched(r)]                 \* fault
InsertedRows_NoClash(r) == [refused |-> FALSE, new |-> Fetched(r) \ Clashing(r)]  \* fault
InsertedRows(r) == [refused |-> Clashing(r) # {}, new |-> Fetched(r)]
CommitReplace(r) ==
  LET insert == InsertedRows(r)
  IN  /\ At(r, "inserting")
      /\ \/ /\ model # Gone /\ ~insert.refused
            /\ rows' = (rows \ req[r].doomed) \cup insert.new
            /\ stored' = stored \cup {req[r].key}
            /\ req' = [req EXCEPT ![r].doomed = {}, ![r].pc = "saving"]
         \/ /\ model = Gone \/ insert.refused
            /\ Answer(r)
            /\ UNCHANGED <<rows, stored>>
      /\ UNCHANGED <<circuitVars, model, entry>>

\* save_cache, an upsert; an entry of recalls refers to the vehicle.
SaveCache(r) ==
  /\ At(r, "saving")
  /\ \/ /\ IsVin(r) \/ model # Gone
        /\ entry' = [entry EXCEPT ![req[r].key] = "fresh"]
        /\ Goto(r, IF IsVin(r) THEN "composing" ELSE "listing")
     \/ ~IsVin(r) /\ model = Gone /\ Answer(r) /\ UNCHANGED entry
  /\ UNCHANGED <<circuitVars, model, rows, stored>>

\* except VehicleDataProviderError: what there is of old is served as degraded,
\* and if there is nothing the answer is unavailable.
Degrade(r, old, next) ==
  /\ \/ old /\ Report(r, "degraded", next)
     \/ ~old /\ Answer(r)
  /\ UNCHANGED <<circuitVars, dataVars>>
FallBackVin(r) ==
  At(r, "refused") /\ IsVin(r) /\ Degrade(r, req[r].cached # "none", "composing")
FallBackRecalls(r) ==
  /\ At(r, "refused") /\ ~IsVin(r)
  /\ Degrade(r, req[r].cached # "none" \/ rows # {}, "listing")

\* _recall_response lists the vehicle's rows, whatever they were fetched for.
ListRecalls(r) ==
  /\ At(r, "listing")
  /\ Answer(r)
  /\ UNCHANGED <<circuitVars, dataVars>>

ComposeVin(r) ==
  /\ At(r, "composing")
  /\ Answer(r)
  /\ UNCHANGED <<circuitVars, dataVars>>

\* A statement fails, or the request is cancelled (a call of the provider then
\* tells the circuit nothing): its open transaction is rolled back.
Abort(r) ==
  /\ ~At(r, "idle")
  /\ Answer(r)
  /\ UNCHANGED <<circuitVars, dataVars>>

--------------------------------------------------------------------------------
\* PATCH of the vehicle: the rows stay.
Patch(m) ==
  /\ model \notin {Gone, m}
  /\ model' = m
  /\ UNCHANGED <<circuitVars, rows, entry, stored, req>>

\* DELETE of the vehicle cascades to its rows and to the entries that name it,
\* once no transaction holds a row.
DeleteVehicle ==
  /\ model # Gone
  /\ \A r \in Requests : req[r].doomed = {}
  /\ model' = Gone /\ rows' = {}
  /\ entry' = [k \in Keys |-> IF k = Vin THEN entry[k] ELSE "none"]
  /\ UNCHANGED <<circuitVars, stored, req>>

\* Time passes: cache_ttl_hours for an entry, recovery_seconds for the circuit.
Expire(k) ==
  /\ entry[k] = "fresh"
  /\ entry' = [entry EXCEPT ![k] = "expired"]
  /\ UNCHANGED <<circuitVars, model, rows, stored, req>>

Tick == CircuitTick /\ UNCHANGED <<dataVars, req>>

Next ==
  \/ \E r \in Requests :
       \/ AskVin(r) \/ AskRecalls(r) \/ GetCache(r)
       \/ CallProvider(r) \/ ProviderReturns(r)
       \/ BeginDelete(r) \/ DeleteRows(r) \/ CommitReplace(r) \/ SaveCache(r)
       \/ FallBackVin(r) \/ FallBackRecalls(r) \/ ListRecalls(r) \/ ComposeVin(r)
       \/ Abort(r)
  \/ \E m \in Models : Patch(m)
  \/ DeleteVehicle
  \/ \E k \in Keys : Expire(k)
  \/ Tick

Spec == Init /\ [][Next]_vars
\* Time passes; nothing is assumed of the requests, the provider or the owner.
FairSpec == Spec /\ WF_vars(Tick)

--------------------------------------------------------------------------------
Rows == {row \in [id : UNION {Catalog[m] : m \in Models}, for : Models] :
           row.id \in Catalog[row.for]}

\* Types: one row per campaign, as the unique index has it.
TypeOK ==
  /\ CircuitTypeOK
  /\ model \in Models \cup {Gone}
  /\ rows \subseteq Rows
  /\ \A row1, row2 \in rows : row1.id = row2.id => row1 = row2
  /\ entry \in [Keys -> {"none", "fresh", "expired"}]
  /\ stored \subseteq Models
  /\ \A r \in Requests :
       /\ req[r].key \in Keys
       /\ req[r].cached \in {"none", "fresh", "expired"}
       /\ req[r].seen \subseteq Rows /\ req[r].doomed \subseteq rows

\* Whatever replacements and models meet, the recalls of a fetch are in the table
\* all together or not at all: nobody is shown half of a provider's answer.
WholeFetches ==
  \A m \in Models :
    LET of == {row.id : row \in {row \in rows : row.for = m}}
    IN  of = {} \/ of = Catalog[m]

\* A cache entry vouches for recalls that were stored: no crash between the two
\* transactions leaves an entry whose fetch never reached the table.
EntriesVouchForStored == \A m \in Models : entry[m] # "none" => m \in stored

\* Rows are lost to a fetch that succeeded, in the step that stores its own, or
\* with the vehicle: a refresh that fails leaves the old ones to be served
\* (docs/phase-5-architecture.md:62).
Lost(r) == At(r, "inserting") /\ req'[r].pc = "saving"
FailedRefreshKeepsRows ==
  [][rows \subseteq rows' \/ model' = Gone \/ \E r \in Requests : Lost(r)]_vars

\* docs/phase-5-architecture.md:62: with an old cache the answer is degraded,
\* without one it is unavailable.  So a degraded list of recalls is a list for
\* the model that was asked about.
DegradedIsForTheModel ==
  [][\A r \in Requests :
       ListRecalls(r) /\ req[r].status = "degraded"
         => \A row \in rows : row.for = req[r].key]_vars
================================================================================
