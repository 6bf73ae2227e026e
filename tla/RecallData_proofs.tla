--------------------------- MODULE RecallData_proofs ---------------------------
(***************************************************************************)
(* Proofs about RecallData, for every number of sessions and models, every *)
(* catalog and every circuit.                                              *)
(***************************************************************************)
EXTENDS RecallData, TLAPS

\* The circuit's failures are counted right, so that it is open for the right
\* reason.
CircuitInv == CircuitTypeOK /\ OpenMeansRecentFailures

\* What the circuit hears of any call keeps CircuitInv (AsyncCircuitBreaker).
LEMMA CircuitHears ==
  ASSUME CircuitInv, CircuitFailure \/ CircuitSuccess \/ CircuitTick \/ UNCHANGED circuitVars
  PROVE  CircuitInv'
<1> USE CircuitAssumption DEF CircuitInv, CircuitTypeOK, OpenMeansRecentFailures, NotOpened
<1>1. CASE CircuitFailure
  BY <1>1 DEF CircuitFailure
<1>2. CASE CircuitSuccess
  BY <1>2 DEF CircuitSuccess
<1>3. CASE CircuitTick
  BY <1>3 DEF CircuitTick
<1>4. CASE UNCHANGED circuitVars
  BY <1>4 DEF circuitVars
<1> QED BY <1>1, <1>2, <1>3, <1>4

\* Nothing but a call that returns, and time, touches the circuit.
LEMMA CircuitStep ==
  ASSUME [Next]_vars
  PROVE  CircuitFailure \/ CircuitSuccess \/ CircuitTick \/ UNCHANGED circuitVars
<1>1. ASSUME NEW r \in Requests,
             \/ AskVin(r) \/ AskRecalls(r) \/ GetCache(r) \/ CallProvider(r)
             \/ BeginDelete(r) \/ DeleteRows(r) \/ CommitReplace(r) \/ SaveCache(r)
             \/ FallBackVin(r) \/ FallBackRecalls(r) \/ ListRecalls(r) \/ ComposeVin(r)
             \/ Abort(r)
      PROVE  UNCHANGED circuitVars
  BY <1>1 DEF AskVin, AskRecalls, GetCache, CallProvider, CircuitRefuses, CircuitPasses,
              BeginDelete, DeleteRows, CommitReplace, SaveCache, FallBackVin,
              FallBackRecalls, Degrade, ListRecalls, ComposeVin, Abort, circuitVars
<1>2. ASSUME NEW r \in Requests, ProviderReturns(r)
      PROVE  CircuitFailure \/ CircuitSuccess
  BY <1>2 DEF ProviderReturns
<1>3. CASE (\E m \in Models : Patch(m)) \/ DeleteVehicle \/ (\E k \in Keys : Expire(k))
  BY <1>3 DEF Patch, DeleteVehicle, Expire
<1>4. CASE Tick
  BY <1>4 DEF Tick
<1>5. CASE UNCHANGED vars
  BY <1>5 DEF vars
<1> QED BY <1>1, <1>2, <1>3, <1>4, <1>5 DEF Next

\* The circuit of core/resilience.py is open exactly after Threshold failures with
\* no success behind them, however the calls in flight overtake each other.
THEOREM CircuitCountsRight == Spec => []OpenMeansRecentFailures
<1>1. Init => CircuitInv
  BY CircuitAssumption
  DEF Init, CircuitInit, CircuitInv, CircuitTypeOK, OpenMeansRecentFailures, NotOpened
<1>2. CircuitInv /\ [Next]_vars => CircuitInv'
  BY CircuitStep, CircuitHears
<1>3. CircuitInv => OpenMeansRecentFailures
  BY DEF CircuitInv
<1> QED BY <1>1, <1>2, <1>3, PTL DEF Spec

--------------------------------------------------------------------------------
\* A set of rows that holds each fetch whole or not at all.
FetchOf(m) == {[id |-> c, for |-> m] : c \in Catalog[m]}
WholeSet(S) ==
  /\ \A row \in S : \E m \in Models : row \in FetchOf(m)
  /\ \A m \in Models : (\E row \in S : row \in FetchOf(m)) => FetchOf(m) \subseteq S

Ids(S, m) == {row.id : row \in {row \in S : row.for = m}}

\* What the refreshes keep true: the table, every snapshot of a DELETE and what it
\* deletes are whole; what a transaction deletes is there until it commits, and no
\* other deletes it; recalls are replaced for a model.
AnyRow == UNION {FetchOf(m) : m \in Models}
Places == {"idle", "keyed", "fetching", "calling", "refused", "replacing", "deleting",
           "inserting", "saving", "listing", "composing"}
Found == {"none", "fresh", "expired"}
Statuses == {"none", "cached", "success", "degraded"}
RequestType == [pc : Places, key : Keys, cached : Found, status : Statuses,
                seen : SUBSET AnyRow, doomed : SUBSET AnyRow]
Replaces(x) == x.pc \in {"replacing", "deleting", "inserting"}
ReplaceInv ==
  /\ entry \in [Keys -> Found] /\ req \in [Requests -> RequestType]
  /\ model \in Models \cup {Gone}
  /\ WholeSet(rows)
  /\ \A r \in Requests :
       /\ WholeSet(req[r].seen) /\ WholeSet(req[r].doomed)
       /\ req[r].doomed \subseteq rows
       /\ Replaces(req[r]) => req[r].key \in Models
       /\ \A q \in Requests \ {r} : req[r].doomed \cap req[q].doomed = {}

LEMMA RowNamesFetch ==
  ASSUME NEW m \in Models, NEW n \in Models, NEW row \in FetchOf(m), row \in FetchOf(n)
  PROVE  m = n
BY DEF FetchOf

LEMMA WholeOps ==
  ASSUME NEW S, NEW T, WholeSet(S), WholeSet(T)
  PROVE  WholeSet(S \cap T) /\ WholeSet(S \ T) /\ WholeSet(S \cup T)
BY RowNamesFetch DEF WholeSet

LEMMA FetchIsWhole == \A m \in Models : WholeSet(FetchOf(m))
BY RowNamesFetch DEF WholeSet

LEMMA NothingIsWhole == WholeSet({})
BY DEF WholeSet

\* A request that moves on and deletes nothing new keeps it all.
LEMMA MoveKeeps ==
  ASSUME ReplaceInv, NEW r \in Requests, NEW x \in RequestType,
         req' = [req EXCEPT ![r] = x], UNCHANGED <<model, rows>>,
         entry' \in [Keys -> Found],
         WholeSet(x.seen), x.doomed \in {req[r].doomed, {}},
         Replaces(x) => x.key \in Models
  PROVE  ReplaceInv'
<1>1. req' \in [Requests -> RequestType]
  BY DEF ReplaceInv
<1>2. ASSUME NEW p \in Requests
      PROVE  /\ WholeSet(req'[p].seen) /\ WholeSet(req'[p].doomed)
             /\ req'[p].doomed \subseteq rows
             /\ Replaces(req'[p]) => req'[p].key \in Models
             /\ req'[p].doomed \subseteq req[p].doomed
  <2>1. CASE p = r
    BY <2>1, NothingIsWhole DEF ReplaceInv
  <2>2. CASE p # r
    BY <2>2 DEF ReplaceInv
  <2> QED BY <2>1, <2>2
<1>3. ASSUME NEW p \in Requests, NEW q \in Requests \ {p}
      PROVE  req'[p].doomed \cap req'[q].doomed = {}
  BY <1>2 DEF ReplaceInv
<1> QED BY <1>1, <1>2, <1>3 DEF ReplaceInv, Replaces

LEMMA EmptyRequest ==
  /\ NoRequest \in RequestType /\ ~Replaces(NoRequest)
  /\ NoRequest.seen = {} /\ NoRequest.doomed = {}
<1>1. Vin \in Keys /\ {} \in SUBSET AnyRow
  BY DEF Keys
<1>2. NoRequest \in RequestType
  BY <1>1 DEF NoRequest, RequestType, Places, Found, Statuses
<1> QED BY <1>2 DEF NoRequest, Replaces

\* The request ends.
LEMMA AnswerKeeps ==
  ASSUME ReplaceInv, NEW r \in Requests, Answer(r), UNCHANGED <<model, rows, entry>>
  PROVE  ReplaceInv'
<1>1. entry' \in [Keys -> Found]
  BY DEF ReplaceInv
<1>2. req' = [req EXCEPT ![r] = NoRequest]
  BY DEF Answer
<1>3. WholeSet(NoRequest.seen) /\ NoRequest.doomed \in {req[r].doomed, {}}
  BY EmptyRequest, NothingIsWhole
<1> QED BY <1>1, <1>2, <1>3, MoveKeeps, EmptyRequest

\* The steps of a request that neither store nor delete rows.
LEMMA QuietStep ==
  ASSUME ReplaceInv, NEW r \in Requests,
         \/ AskVin(r) \/ AskRecalls(r) \/ GetCache(r) \/ CallProvider(r) \/ ProviderReturns(r)
         \/ SaveCache(r) \/ FallBackVin(r) \/ FallBackRecalls(r) \/ ListRecalls(r)
         \/ ComposeVin(r) \/ Abort(r)
  PROVE  ReplaceInv'
<1> DEFINE old == req[r]
<1> HIDE DEF old
<1>old. old = req[r] /\ old \in RequestType /\ WholeSet(old.seen)
  BY DEF old, ReplaceInv
<1>entry. entry \in [Keys -> Found]
  BY DEF ReplaceInv
<1>goto. ASSUME NEW pc \in Places, Goto(r, pc), UNCHANGED <<model, rows>>,
                pc \in {"replacing", "deleting", "inserting"} => old.key \in Models,
                entry' \in [Keys -> Found]
         PROVE  ReplaceInv'
  <2> DEFINE x == [old EXCEPT !.pc = pc]
  <2>1. req' = [req EXCEPT ![r] = x]
    BY <1>goto, <1>old DEF Goto
  <2>2. /\ x \in RequestType /\ x.pc = pc
        /\ x.seen = old.seen /\ x.doomed = old.doomed /\ x.key = old.key
    BY <1>old DEF RequestType
  <2> HIDE DEF x
  <2>3. Replaces(x) => x.key \in Models
    BY <2>2, <1>goto DEF Replaces
  <2> QED BY <2>1, <2>2, <2>3, <1>goto, <1>old, MoveKeeps
<1>key. ASSUME NEW k \in Keys, req' = [req EXCEPT ![r].key = k, ![r].pc = "keyed"],
               UNCHANGED dataVars
        PROVE  ReplaceInv'
  <2> DEFINE x == [old EXCEPT !.key = k, !.pc = "keyed"]
  <2>1. req' = [req EXCEPT ![r] = x]
    BY <1>key, <1>old
  <2>2. x \in RequestType /\ x.seen = old.seen /\ x.doomed = old.doomed /\ x.pc = "keyed"
    BY <1>old DEF RequestType, Places
  <2> HIDE DEF x
  <2>3. ~Replaces(x)
    BY <2>2 DEF Replaces
  <2> QED BY <2>1, <2>2, <2>3, <1>key, <1>old, <1>entry, MoveKeeps DEF dataVars
<1>1. CASE AskVin(r)
  BY <1>1, <1>key DEF AskVin, Keys
<1>2. CASE AskRecalls(r)
  <2>1. model \in Keys
    BY <1>2 DEF AskRecalls, ReplaceInv, Keys
  <2> QED BY <1>2, <2>1, <1>key DEF AskRecalls
<1>3. CASE GetCache(r)
  <2> DEFINE found == entry[old.key]
             after == IF found # "fresh" THEN "fetching"
                      ELSE IF IsVin(r) THEN "composing" ELSE "listing"
             status == IF found = "fresh" THEN "cached" ELSE "success"
             x == [old EXCEPT !.cached = found, !.pc = after, !.status = status]
  <2>1. req' = [req EXCEPT ![r] = x] /\ UNCHANGED dataVars
    BY <1>3, <1>old DEF GetCache
  <2>2. found \in Found
    BY <1>old, <1>entry DEF RequestType
  <2>3. after \in {"fetching", "composing", "listing"} /\ status \in Statuses
    BY DEF Statuses
  <2> HIDE DEF found, after, status
  <2>4. x \in RequestType /\ x.seen = old.seen /\ x.doomed = old.doomed /\ x.pc = after
    BY <1>old, <2>2, <2>3 DEF RequestType, Places
  <2> HIDE DEF x
  <2>5. ~Replaces(x)
    BY <2>3, <2>4 DEF Replaces
  <2> QED BY <2>1, <2>4, <2>5, <1>old, <1>entry, MoveKeeps DEF dataVars
<1>4. CASE CallProvider(r)
  BY <1>4, <1>goto, <1>entry DEF CallProvider, dataVars, Places
<1>5. CASE ProviderReturns(r)
  <2>1. CASE Goto(r, "refused")
    BY <1>5, <2>1, <1>goto, <1>entry DEF ProviderReturns, dataVars, Places
  <2>2. CASE Goto(r, AfterFetch(r))
    <3>1. AfterFetch(r) \in Places
      BY DEF AfterFetch, Places
    <3>2. AfterFetch(r) \in {"replacing", "deleting", "inserting"} => old.key \in Models
      BY <1>old DEF AfterFetch, IsVin, RequestType, Keys
    <3> QED BY <1>5, <2>2, <3>1, <3>2, <1>goto, <1>entry DEF ProviderReturns, dataVars
  <2> QED BY <1>5, <2>1, <2>2 DEF ProviderReturns
<1>6. CASE SaveCache(r)
  <2>1. UNCHANGED <<model, rows>>
    BY <1>6 DEF SaveCache
  <2>2. CASE /\ entry' = [entry EXCEPT ![req[r].key] = "fresh"]
             /\ Goto(r, IF IsVin(r) THEN "composing" ELSE "listing")
    <3>1. entry' \in [Keys -> Found]
      BY <2>2, <1>entry DEF Found
    <3>2. Goto(r, "composing") \/ Goto(r, "listing")
      BY <2>2
    <3> QED BY <2>1, <3>1, <3>2, <1>goto DEF Places
  <2>3. CASE Answer(r) /\ UNCHANGED entry
    BY <2>1, <2>3, AnswerKeeps
  <2> QED BY <1>6, <2>2, <2>3 DEF SaveCache
<1>report. ASSUME NEW before \in BOOLEAN, NEW next \in {"composing", "listing"},
                  Degrade(r, before, next)
           PROVE  ReplaceInv'
  <2>1. CASE Answer(r)
    BY <2>1, <1>report, AnswerKeeps DEF Degrade, dataVars
  <2>2. CASE Report(r, "degraded", next)
    <3> DEFINE x == [old EXCEPT !.status = "degraded", !.pc = next]
    <3>1. req' = [req EXCEPT ![r] = x]
      BY <2>2, <1>old DEF Report
    <3>0. next \in Places /\ "degraded" \in Statuses
      BY <1>report DEF Places, Statuses
    <3>2. x \in RequestType /\ x.seen = old.seen /\ x.doomed = old.doomed /\ x.pc = next
      BY <3>0, <1>old DEF RequestType
    <3> HIDE DEF x
    <3>3. ~Replaces(x)
      BY <3>2 DEF Replaces
    <3> QED BY <3>1, <3>2, <3>3, <1>report, <1>old, <1>entry, MoveKeeps DEF Degrade, dataVars
  <2> QED BY <2>1, <2>2, <1>report DEF Degrade
<1>7. CASE FallBackVin(r)
  BY <1>7, <1>report DEF FallBackVin
<1>8. CASE FallBackRecalls(r)
  BY <1>8, <1>report DEF FallBackRecalls
<1>9. CASE ListRecalls(r) \/ ComposeVin(r) \/ Abort(r)
  BY <1>9, AnswerKeeps DEF ListRecalls, ComposeVin, Abort, dataVars
<1> QED BY <1>1, <1>2, <1>3, <1>4, <1>5, <1>6, <1>7, <1>8, <1>9

LEMMA RowsAreRows ==
  ASSUME NEW S, WholeSet(S)
  PROVE  S \in SUBSET AnyRow
BY DEF WholeSet, AnyRow

\* The DELETE takes its snapshot of the table.
LEMMA BeginDeleteKeeps ==
  ASSUME ReplaceInv, NEW r \in Requests, BeginDelete(r)
  PROVE  ReplaceInv'
<1> DEFINE x == [req[r] EXCEPT !.seen = rows, !.pc = "deleting"]
<1>1. /\ req[r] \in RequestType /\ rows \in SUBSET AnyRow /\ WholeSet(rows)
      /\ entry \in [Keys -> Found]
      /\ Replaces(req[r]) => req[r].key \in Models
  BY RowsAreRows DEF ReplaceInv
<1>2. req' = [req EXCEPT ![r] = x] /\ UNCHANGED <<model, rows, entry>>
  BY DEF BeginDelete, dataVars
<1>3. Replaces(req[r])
  BY DEF BeginDelete, At, Replaces
<1>4. /\ x \in RequestType /\ x.seen = rows /\ x.doomed = req[r].doomed
      /\ x.key = req[r].key
  BY <1>1 DEF RequestType, Places
<1> HIDE DEF x
<1> QED BY <1>1, <1>2, <1>3, <1>4, MoveKeeps

\* It deletes what of its snapshot is still there, once nobody else is deleting
\* any of it.
LEMMA DeleteRowsKeeps ==
  ASSUME ReplaceInv, NEW r \in Requests, DeleteRows(r)
  PROVE  ReplaceInv'
<1> DEFINE gone == req[r].seen \cap rows
           x == [req[r] EXCEPT !.doomed = gone, !.seen = {}, !.pc = "inserting"]
<1>1. req' = [req EXCEPT ![r] = x] /\ UNCHANGED <<model, rows, entry>>
  BY DEF DeleteRows, dataVars
<1>2. req \in [Requests -> RequestType] /\ req[r] \in RequestType
  BY DEF ReplaceInv
<1>3. WholeSet(gone) /\ gone \in SUBSET AnyRow /\ gone \subseteq rows
  BY RowsAreRows, WholeOps DEF ReplaceInv
<1>4. req[r].key \in Models
  BY DEF DeleteRows, At, Replaces, ReplaceInv
<1>5. \A q \in Requests \ {r} : req[q].doomed \cap gone = {}
  BY DEF DeleteRows, Uncontended
<1> HIDE DEF gone
<1>6. x \in RequestType /\ x.seen = {} /\ x.doomed = gone /\ x.key = req[r].key
  BY <1>2, <1>3 DEF RequestType, Places
<1> HIDE DEF x
<1>7. req' \in [Requests -> RequestType] /\ req'[r] = x
      /\ \A q \in Requests \ {r} : req'[q] = req[q]
  BY <1>1, <1>2, <1>6
<1>8. ASSUME NEW p \in Requests
      PROVE  /\ WholeSet(req'[p].seen) /\ WholeSet(req'[p].doomed)
             /\ req'[p].doomed \subseteq rows
             /\ Replaces(req'[p]) => req'[p].key \in Models
             /\ \A q \in Requests \ {p} : req'[p].doomed \cap req'[q].doomed = {}
  <2>1. CASE p = r
    BY <2>1, <1>3, <1>4, <1>5, <1>6, <1>7, NothingIsWhole
  <2>2. CASE p # r
    BY <2>2, <1>5, <1>6, <1>7 DEF ReplaceInv
  <2> QED BY <2>1, <2>2
<1> QED BY <1>1, <1>7, <1>8 DEF ReplaceInv, Replaces

\* The new rows replace the deleted ones, or the transaction ends in vain.
LEMMA CommitKeeps ==
  ASSUME ReplaceInv, NEW r \in Requests, CommitReplace(r)
  PROVE  ReplaceInv'
<1>1. CASE Answer(r) /\ UNCHANGED rows
  BY <1>1, AnswerKeeps DEF CommitReplace
<1>2. CASE /\ rows' = (rows \ req[r].doomed) \cup InsertedRows(r).new
           /\ req' = [req EXCEPT ![r].doomed = {}, ![r].pc = "saving"]
  <2> DEFINE x == [req[r] EXCEPT !.doomed = {}, !.pc = "saving"]
  <2>1. /\ req \in [Requests -> RequestType] /\ req[r] \in RequestType
        /\ WholeSet(req[r].seen) /\ req[r].key \in Models
    BY DEF ReplaceInv, CommitReplace, At, Replaces
  <2>2. x \in RequestType /\ x.seen = req[r].seen /\ x.doomed = {} /\ x.pc = "saving"
    BY <2>1 DEF RequestType, Places
  <2>3. req' = [req EXCEPT ![r] = x] /\ UNCHANGED <<model, entry>>
    BY <1>2 DEF CommitReplace
  <2> HIDE DEF x
  <2>4. InsertedRows(r).new = FetchOf(req[r].key)
    BY DEF InsertedRows, Fetched, FetchOf
  <2>5. WholeSet(rows')
    BY <1>2, <2>1, <2>4, WholeOps, FetchIsWhole DEF ReplaceInv
  <2>6. req' \in [Requests -> RequestType] /\ req'[r] = x
        /\ \A q \in Requests \ {r} : req'[q] = req[q]
    BY <2>1, <2>2, <2>3
  <2>7. ASSUME NEW p \in Requests
        PROVE  /\ WholeSet(req'[p].seen) /\ WholeSet(req'[p].doomed)
               /\ req'[p].doomed \subseteq rows'
               /\ Replaces(req'[p]) => req'[p].key \in Models
               /\ \A q \in Requests \ {p} : req'[p].doomed \cap req'[q].doomed = {}
    <3>1. CASE p = r
      BY <3>1, <2>1, <2>2, <2>6, NothingIsWhole DEF Replaces
    <3>2. CASE p # r
      BY <3>2, <1>2, <2>2, <2>6 DEF ReplaceInv
    <3> QED BY <3>1, <3>2
  <2> QED BY <2>3, <2>5, <2>6, <2>7 DEF ReplaceInv, Replaces
<1> QED BY <1>1, <1>2 DEF CommitReplace

\* What the garage and time do.
LEMMA OthersKeep ==
  ASSUME ReplaceInv,
         \/ \E m \in Models : Patch(m)
         \/ DeleteVehicle \/ (\E k \in Keys : Expire(k)) \/ Tick \/ UNCHANGED vars
  PROVE  ReplaceInv'
<1>1. CASE \E m \in Models : Patch(m)
  BY <1>1 DEF ReplaceInv, Patch
<1>2. CASE DeleteVehicle
  <2>1. entry' \in [Keys -> Found]
    BY <1>2 DEF ReplaceInv, DeleteVehicle, Found
  <2>2. /\ req' = req /\ model' = Gone /\ rows' = {}
        /\ \A r \in Requests : req[r].doomed = {}
    BY <1>2 DEF DeleteVehicle
  <2> QED BY <2>1, <2>2, NothingIsWhole DEF ReplaceInv
<1>3. CASE \E k \in Keys : Expire(k)
  <2>1. entry' \in [Keys -> Found]
    BY <1>3 DEF ReplaceInv, Expire, Found
  <2> QED BY <1>3, <2>1 DEF ReplaceInv, Expire
<1>4. CASE Tick
  BY <1>4 DEF ReplaceInv, Tick, dataVars
<1>5. CASE UNCHANGED vars
  BY <1>5 DEF ReplaceInv, vars, dataVars
<1> QED BY <1>1, <1>2, <1>3, <1>4, <1>5

LEMMA InitReplace == Init => ReplaceInv
<1> SUFFICES ASSUME Init PROVE ReplaceInv
  OBVIOUS
<1>1. entry \in [Keys -> Found] /\ req \in [Requests -> RequestType]
  BY EmptyRequest DEF Init, Found
<1>2. ASSUME NEW r \in Requests PROVE req[r] = NoRequest
  BY DEF Init
<1> QED BY <1>1, <1>2, EmptyRequest, NothingIsWhole DEF Init, ReplaceInv

LEMMA WholeTable ==
  ASSUME WholeSet(rows)
  PROVE  WholeFetches
<1> SUFFICES ASSUME NEW m \in Models,
                    NEW of, of = {row.id : row \in {row \in rows : row.for = m}}
             PROVE  of = {} \/ of = Catalog[m]
  BY DEF WholeFetches
<1>1. \A row \in rows : row.for = m => row \in FetchOf(m) /\ row.id \in Catalog[m]
  BY DEF WholeSet, FetchOf
<1>2. CASE \E row \in rows : row.for = m
  <2>1. FetchOf(m) \subseteq rows
    BY <1>1, <1>2 DEF WholeSet
  <2>2. \A c \in Catalog[m] : [id |-> c, for |-> m] \in rows
    BY <2>1 DEF FetchOf
  <2>3. ASSUME NEW c \in Catalog[m] PROVE c \in of
    <3> DEFINE row == [id |-> c, for |-> m]
    <3>1. row \in rows /\ row.for = m /\ row.id = c
      BY <2>2
    <3> HIDE DEF row
    <3> QED BY <3>1
  <2> QED BY <1>1, <2>3
<1>3. CASE ~\E row \in rows : row.for = m
  BY <1>3
<1> QED BY <1>2, <1>3

LEMMA ReplaceStep == ReplaceInv /\ [Next]_vars => ReplaceInv'
<1> SUFFICES ASSUME ReplaceInv, [Next]_vars PROVE ReplaceInv'
  OBVIOUS
<1> QED BY QuietStep, BeginDeleteKeeps, DeleteRowsKeeps, CommitKeeps, OthersKeep DEF Next

\* However many refreshes of ExternalVehicleDataService meet, with whatever models
\* and catalogs, changes and deletions, failures and cancellations, the table
\* holds each fetch whole or not at all.
THEOREM FetchesStayWhole == Spec => []WholeFetches
<1>1. ReplaceInv => WholeFetches
  BY WholeTable DEF ReplaceInv
<1> QED BY <1>1, InitReplace, ReplaceStep, PTL DEF Spec

--------------------------------------------------------------------------------
\* A request about to vouch for recalls has stored them.
VouchInv ==
  /\ EntriesVouchForStored
  /\ \A r \in Requests : At(r, "saving") /\ req[r].key \in Models => req[r].key \in stored

\* Only a fetch of recalls that is committed comes to vouch for them.
LEMMA VouchStep ==
  ASSUME ReplaceInv, VouchInv, NEW r \in Requests,
         \/ AskVin(r) \/ AskRecalls(r) \/ GetCache(r) \/ CallProvider(r) \/ ProviderReturns(r)
         \/ BeginDelete(r) \/ DeleteRows(r) \/ CommitReplace(r) \/ SaveCache(r)
         \/ FallBackVin(r) \/ FallBackRecalls(r) \/ ListRecalls(r) \/ ComposeVin(r)
         \/ Abort(r)
  PROVE  VouchInv'
<1> DEFINE old == req[r]
<1>typed. req \in [Requests -> RequestType] /\ entry \in [Keys -> Found]
  BY DEF ReplaceInv
<1>move. ASSUME NEW x, req' = [req EXCEPT ![r] = x], UNCHANGED <<entry, stored>>,
                x.pc = "saving" => x.key \notin Models
         PROVE  VouchInv'
  <2>1. \A q \in Requests : req'[q] = IF q = r THEN x ELSE req[q]
    BY <1>move, <1>typed
  <2> QED BY <1>move, <2>1 DEF VouchInv, EntriesVouchForStored, At
<1>goto. ASSUME NEW pc, pc # "saving", Goto(r, pc), UNCHANGED <<entry, stored>> PROVE VouchInv'
  <2> DEFINE x == [old EXCEPT !.pc = pc]
  <2>1. req' = [req EXCEPT ![r] = x] /\ x.pc = pc
    BY <1>goto, <1>typed DEF Goto, RequestType
  <2> HIDE DEF x
  <2> QED BY <1>goto, <1>move, <2>1
<1>answer. ASSUME Answer(r), UNCHANGED <<entry, stored>> PROVE VouchInv'
  BY <1>answer, <1>move DEF Answer, NoRequest
<1>1. CASE AskVin(r) \/ AskRecalls(r)
  <2>1. PICK k : req' = [req EXCEPT ![r].key = k, ![r].pc = "keyed"]
    BY <1>1 DEF AskVin, AskRecalls
  <2> DEFINE x == [old EXCEPT !.key = k, !.pc = "keyed"]
  <2>2. req' = [req EXCEPT ![r] = x]
    BY <2>1, <1>typed
  <2>3. x.pc = "keyed"
    BY <1>typed DEF RequestType
  <2> HIDE DEF x
  <2> QED BY <1>1, <1>move, <2>2, <2>3 DEF AskVin, AskRecalls, dataVars
<1>2. CASE GetCache(r)
  <2> DEFINE found == entry[old.key]
             after == IF found # "fresh" THEN "fetching"
                      ELSE IF IsVin(r) THEN "composing" ELSE "listing"
             status == IF found = "fresh" THEN "cached" ELSE "success"
             x == [old EXCEPT !.cached = found, !.pc = after, !.status = status]
  <2>1. req' = [req EXCEPT ![r] = x] /\ UNCHANGED dataVars
    BY <1>2 DEF GetCache
  <2>2. after # "saving"
    OBVIOUS
  <2> HIDE DEF found, after, status
  <2>3. x.pc = after
    BY <1>typed DEF RequestType
  <2> HIDE DEF x
  <2> QED BY <1>move, <2>1, <2>2, <2>3 DEF dataVars
<1>3. CASE CallProvider(r)
  BY <1>3, <1>goto DEF CallProvider, dataVars
<1>4. CASE ProviderReturns(r)
  <2>1. CASE Goto(r, "refused")
    BY <1>4, <2>1, <1>goto DEF ProviderReturns, dataVars
  <2>2. CASE Goto(r, AfterFetch(r))
    <3> DEFINE x == [old EXCEPT !.pc = AfterFetch(r)]
    <3>1. req' = [req EXCEPT ![r] = x] /\ x.pc = AfterFetch(r) /\ x.key = old.key
      BY <2>2, <1>typed DEF Goto, RequestType
    <3> HIDE DEF x
    <3>2. x.pc = "saving" => x.key \notin Models
      BY <3>1, CatalogAssumption DEF AfterFetch, IsVin, Vin
    <3> QED BY <1>4, <1>move, <3>1, <3>2 DEF ProviderReturns, dataVars
  <2> QED BY <1>4, <2>1, <2>2 DEF ProviderReturns
<1>5. CASE BeginDelete(r)
  <2> DEFINE x == [old EXCEPT !.seen = rows, !.pc = "deleting"]
  <2>1. req' = [req EXCEPT ![r] = x]
    BY <1>5 DEF BeginDelete
  <2>2. x.pc = "deleting"
    BY <1>typed DEF RequestType
  <2> HIDE DEF x
  <2> QED BY <1>5, <1>move, <2>1, <2>2 DEF BeginDelete, dataVars
<1>6. CASE DeleteRows(r)
  <2> DEFINE x == [old EXCEPT !.doomed = req[r].seen \cap rows, !.seen = {}, !.pc = "inserting"]
  <2>1. req' = [req EXCEPT ![r] = x]
    BY <1>6 DEF DeleteRows
  <2>2. x.pc = "inserting"
    BY <1>typed DEF RequestType
  <2> HIDE DEF x
  <2> QED BY <1>6, <1>move, <2>1, <2>2 DEF DeleteRows, dataVars
<1>7. CASE CommitReplace(r)
  <2>1. CASE Answer(r) /\ UNCHANGED stored
    BY <1>7, <2>1, <1>answer DEF CommitReplace
  <2>2. CASE /\ stored' = stored \cup {old.key}
             /\ req' = [req EXCEPT ![r].doomed = {}, ![r].pc = "saving"]
    <3> DEFINE x == [old EXCEPT !.doomed = {}, !.pc = "saving"]
    <3>1. req' = [req EXCEPT ![r] = x]
      BY <2>2
    <3>2. x.key = old.key
      BY <1>typed DEF RequestType
    <3> HIDE DEF x
    <3>3. \A q \in Requests : req'[q] = IF q = r THEN x ELSE req[q]
      BY <3>1, <1>typed
    <3>4. UNCHANGED entry
      BY <1>7 DEF CommitReplace
    <3>s. stored' = stored \cup {old.key}
      BY <2>2
    <3>5. EntriesVouchForStored'
      BY <2>2, <3>4 DEF VouchInv, EntriesVouchForStored
    <3>6. ASSUME NEW q \in Requests, req'[q].pc = "saving", req'[q].key \in Models
          PROVE  req'[q].key \in stored'
      <4>1. CASE q = r
        BY <3>s, <3>2, <3>3, <4>1
      <4>2. CASE q # r
        BY <3>s, <3>3, <3>6, <4>2 DEF VouchInv, At
      <4> QED BY <4>1, <4>2
    <3> QED BY <3>5, <3>6 DEF VouchInv, At
  <2> QED BY <1>7, <2>1, <2>2 DEF CommitReplace
<1>8. CASE SaveCache(r)
  <2>1. CASE Answer(r) /\ UNCHANGED entry
    BY <1>8, <2>1, <1>answer DEF SaveCache
  <2>2. CASE /\ entry' = [entry EXCEPT ![old.key] = "fresh"]
             /\ Goto(r, IF IsVin(r) THEN "composing" ELSE "listing")
    <3> DEFINE pc == IF IsVin(r) THEN "composing" ELSE "listing"
               x  == [old EXCEPT !.pc = pc]
    <3>1. req' = [req EXCEPT ![r] = x]
      BY <2>2 DEF Goto
    <3>2. x.pc # "saving"
      BY <1>typed DEF RequestType
    <3> HIDE DEF x
    <3>3. \A q \in Requests : req'[q] = IF q = r THEN x ELSE req[q]
      BY <3>1, <1>typed
    <3>4. UNCHANGED stored /\ old.pc = "saving"
      BY <1>8 DEF SaveCache, At
    <3>5. \A k \in Keys : entry'[k] # "none" => entry[k] # "none" \/ k = old.key
      BY <2>2, <1>typed
    <3>6. EntriesVouchForStored'
      BY <3>4, <3>5 DEF VouchInv, EntriesVouchForStored, At, Keys
    <3> QED BY <3>2, <3>3, <3>4, <3>6 DEF VouchInv, At
  <2> QED BY <1>8, <2>1, <2>2 DEF SaveCache
<1>9. CASE FallBackVin(r) \/ FallBackRecalls(r)
  <2>1. PICK next \in {"composing", "listing"} : Report(r, "degraded", next) \/ Answer(r)
    BY <1>9 DEF FallBackVin, FallBackRecalls, Degrade
  <2>2. UNCHANGED <<entry, stored>>
    BY <1>9 DEF FallBackVin, FallBackRecalls, Degrade, dataVars
  <2> DEFINE x == [old EXCEPT !.status = "degraded", !.pc = next]
  <2>3. Report(r, "degraded", next) => req' = [req EXCEPT ![r] = x]
    BY DEF Report
  <2>4. x.pc # "saving"
    BY <1>typed DEF RequestType
  <2> HIDE DEF x
  <2> QED BY <1>move, <1>answer, <2>1, <2>2, <2>3, <2>4
<1>10. CASE ListRecalls(r) \/ ComposeVin(r) \/ Abort(r)
  BY <1>10, <1>answer DEF ListRecalls, ComposeVin, Abort, dataVars
<1> QED BY <1>1, <1>2, <1>3, <1>4, <1>5, <1>6, <1>7, <1>8, <1>9, <1>10

LEMMA VouchOthers ==
  ASSUME ReplaceInv, VouchInv,
         \/ \E m \in Models : Patch(m)
         \/ DeleteVehicle \/ (\E k \in Keys : Expire(k)) \/ Tick \/ UNCHANGED vars
  PROVE  VouchInv'
<1>1. UNCHANGED <<req, stored>>
  BY DEF Patch, DeleteVehicle, Expire, Tick, dataVars, vars
<1>2. \A m \in Models : entry'[m] # "none" => entry[m] # "none"
  BY DEF Patch, DeleteVehicle, Expire, Tick, dataVars, vars, ReplaceInv, Keys
<1> QED BY <1>1, <1>2 DEF VouchInv, EntriesVouchForStored, At

\* No entry of vehicle_data_cache speaks for recalls that never reached the table:
\* the rows are committed first, whatever fails or is cancelled in between.
THEOREM EntriesAreBacked == Spec => []EntriesVouchForStored
<1>1. Init => VouchInv
  BY DEF Init, VouchInv, EntriesVouchForStored, At, NoRequest, Keys
<1>2. ReplaceInv /\ VouchInv /\ [Next]_vars => VouchInv'
  BY VouchStep, VouchOthers DEF Next
<1>3. VouchInv => EntriesVouchForStored
  BY DEF VouchInv
<1> QED BY <1>1, <1>2, <1>3, InitReplace, ReplaceStep, PTL DEF Spec

--------------------------------------------------------------------------------
\* The table changes in a commit of new recalls or with the vehicle, nowhere else.
LEMMA RowsChange ==
  ASSUME ReplaceInv, [Next]_vars
  PROVE  rows' = rows \/ model' = Gone \/ \E r \in Requests : Lost(r)
<1>1. ASSUME NEW r \in Requests,
             \/ AskVin(r) \/ AskRecalls(r) \/ GetCache(r) \/ CallProvider(r) \/ ProviderReturns(r)
             \/ BeginDelete(r) \/ DeleteRows(r) \/ SaveCache(r)
             \/ FallBackVin(r) \/ FallBackRecalls(r) \/ ListRecalls(r) \/ ComposeVin(r)
             \/ Abort(r)
      PROVE  rows' = rows
  BY <1>1 DEF AskVin, AskRecalls, GetCache, CallProvider, ProviderReturns, BeginDelete,
              DeleteRows, SaveCache, FallBackVin, FallBackRecalls, Degrade, ListRecalls,
              ComposeVin, Abort, dataVars
<1>2. ASSUME NEW r \in Requests, CommitReplace(r)
      PROVE  rows' = rows \/ Lost(r)
  <2>1. req[r] \in RequestType /\ req \in [Requests -> RequestType]
    BY DEF ReplaceInv
  <2>2. CASE req' = [req EXCEPT ![r].doomed = {}, ![r].pc = "saving"]
    BY <1>2, <2>1, <2>2 DEF CommitReplace, Lost, At, RequestType
  <2>3. CASE UNCHANGED rows
    BY <2>3
  <2> QED BY <1>2, <2>2, <2>3 DEF CommitReplace
<1>3. CASE \/ \E m \in Models : Patch(m)
           \/ (\E k \in Keys : Expire(k)) \/ Tick \/ UNCHANGED vars
  BY <1>3 DEF Patch, Expire, Tick, dataVars, vars
<1>4. CASE DeleteVehicle
  BY <1>4 DEF DeleteVehicle
<1> QED BY <1>1, <1>2, <1>3, <1>4 DEF Next

\* A refresh of ExternalVehicleDataService that fails, at the provider, at a
\* statement or at the unique index, leaves the recalls that were there: only one
\* that stores its own, or the end of the vehicle, takes rows away.
THEOREM FailuresKeepRows == Spec => FailedRefreshKeepsRows
<1>1. ReplaceInv /\ [Next]_vars
        => [rows \subseteq rows' \/ model' = Gone \/ \E r \in Requests : Lost(r)]_vars
  BY RowsChange
<1> QED BY <1>1, InitReplace, ReplaceStep, PTL DEF Spec, FailedRefreshKeepsRows

--------------------------------------------------------------------------------
\* One row per campaign, and what was stored was a model's recalls.
OneRowEach == \A row1, row2 \in rows : row1.id = row2.id => row1 = row2
TableInv == OneRowEach /\ stored \subseteq Models

\* The unique index lets in no campaign that is there already.
LEMMA TableStep ==
  ASSUME ReplaceInv, TableInv, [Next]_vars
  PROVE  TableInv'
<1>1. ASSUME NEW r \in Requests, CommitReplace(r)
      PROVE  TableInv'
  <2>1. CASE UNCHANGED <<rows, stored>>
    BY <2>1 DEF TableInv, OneRowEach
  <2>2. CASE /\ ~InsertedRows(r).refused
             /\ rows' = (rows \ req[r].doomed) \cup InsertedRows(r).new
             /\ stored' = stored \cup {req[r].key}
    <3>1. req[r].key \in Models
      BY <1>1 DEF CommitReplace, At, Replaces, ReplaceInv
    <3>2. /\ rows' = (rows \ req[r].doomed) \cup Fetched(r)
          /\ \A row \in Fetched(r), old \in rows \ req[r].doomed : old.id # row.id
      BY <2>2 DEF InsertedRows, Clashing
    <3>3. \A row1, row2 \in Fetched(r) : row1.id = row2.id => row1 = row2
      BY DEF Fetched
    <3>4. OneRowEach'
      BY <3>2, <3>3 DEF TableInv, OneRowEach
    <3> QED BY <2>2, <3>1, <3>4 DEF TableInv
  <2> QED BY <1>1, <2>1, <2>2 DEF CommitReplace
<1>2. ASSUME UNCHANGED <<rows, stored>> PROVE TableInv'
  BY <1>2 DEF TableInv, OneRowEach
<1>3. ASSUME NEW r \in Requests,
             \/ AskVin(r) \/ AskRecalls(r) \/ GetCache(r) \/ CallProvider(r) \/ ProviderReturns(r)
             \/ BeginDelete(r) \/ DeleteRows(r) \/ SaveCache(r)
             \/ FallBackVin(r) \/ FallBackRecalls(r) \/ ListRecalls(r) \/ ComposeVin(r)
             \/ Abort(r)
      PROVE  UNCHANGED <<rows, stored>>
  BY <1>3 DEF AskVin, AskRecalls, GetCache, CallProvider, ProviderReturns, BeginDelete,
              DeleteRows, SaveCache, FallBackVin, FallBackRecalls, Degrade, ListRecalls,
              ComposeVin, Abort, dataVars
<1>4. CASE \/ \E m \in Models : Patch(m)
           \/ (\E k \in Keys : Expire(k)) \/ Tick \/ UNCHANGED vars
  <2>1. UNCHANGED <<rows, stored>>
    BY <1>4 DEF Patch, Expire, Tick, dataVars, vars
  <2> QED BY <2>1, <1>2
<1>5. CASE DeleteVehicle
  BY <1>5 DEF DeleteVehicle, TableInv, OneRowEach
<1> QED BY <1>1, <1>2, <1>3, <1>4, <1>5 DEF Next

LEMMA KnownRows ==
  ASSUME NEW S, WholeSet(S)
  PROVE  S \subseteq Rows
<1> SUFFICES ASSUME NEW row \in S PROVE row \in Rows
  OBVIOUS
<1>1. PICK m \in Models : row \in FetchOf(m)
  BY DEF WholeSet
<1>2. PICK c \in Catalog[m] : row = [id |-> c, for |-> m]
  BY <1>1 DEF FetchOf
<1>3. c \in UNION {Catalog[n] : n \in Models}
  OBVIOUS
<1> QED BY <1>2, <1>3 DEF Rows

\* Types of the circuit, the table, the cache and the requests, with the promise of
\* UNIQUE (vehicle_id, external_id): one row per campaign.
THEOREM RecallsTyped == Spec => []TypeOK
<1>1. Init => CircuitInv /\ TableInv
  BY CircuitAssumption
  DEF Init, CircuitInit, CircuitInv, CircuitTypeOK, OpenMeansRecentFailures, NotOpened,
      TableInv, OneRowEach
<1>2. CircuitInv /\ ReplaceInv /\ TableInv /\ [Next]_vars => CircuitInv' /\ TableInv'
  BY CircuitStep, CircuitHears, TableStep
<1>3. CircuitInv /\ ReplaceInv /\ TableInv => TypeOK
  <2> SUFFICES ASSUME CircuitInv, ReplaceInv, TableInv PROVE TypeOK
    OBVIOUS
  <2>1. rows \subseteq Rows
    BY KnownRows DEF ReplaceInv
  <2>2. ASSUME NEW r \in Requests
        PROVE  /\ req[r].key \in Keys
               /\ req[r].cached \in {"none", "fresh", "expired"}
               /\ req[r].seen \subseteq Rows /\ req[r].doomed \subseteq rows
    BY KnownRows DEF ReplaceInv, RequestType, Found
  <2> QED BY <2>1, <2>2 DEF TypeOK, CircuitInv, ReplaceInv, TableInv, OneRowEach, Found
<1> QED BY <1>1, <1>2, <1>3, InitReplace, ReplaceStep, PTL DEF Spec
================================================================================
