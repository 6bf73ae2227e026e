# AutoMind in TLA+

A formal model of AutoMind, an AI cockpit demonstrator: a FastAPI service over
PostgreSQL and Redis (`src/apps/api`) and a Next.js client (`src/apps/web`).
The model follows the code of the repository, definition by definition;
`PROJECT.json` maps each definition to the lines it stands for.

## The system

| Component | State it keeps | Operations | Talks to |
|---|---|---|---|
| Vehicle properties (`domain/vehicle/properties.py`) | none | normalise, read, apply one property | used by HAL, tools |
| Vehicle service and HAL (`domain/vehicle/service.py`, `infrastructure/vehicle_hal.py`) | `vehicle_states`, `vehicle_state_audits` | get_state, get_property, set_property(expected version) | PostgreSQL |
| Garage (`product/repository.py`, `api/routes/garage.py`) | `vehicles` | create, update, delete | shares the vehicle rows with the HAL |
| Safety policy (`domain/safety/policy.py`) | none | evaluate, authorize | asked by agent and theme apply |
| Tools (`tools/`) | none | validate, execute | HAL |
| Cockpit agent (`agents/`) | one `AgentState` per chat; `agent_runs`, `agent_steps`, `tool_calls` | run: the seven nodes of the graph | router, model, policy, tools, trace store |
| Rule router (`agents/router.py`) | none | route | asked by the agent |
| Model gateway (`models/`) | none | plan | external model |
| Themes (`aigc/`) | runs, assets, daily usage | generate, apply | storage, model, tools, budget |
| Diagnosis (`diagnosis/`) | runs, diagnoses, images | diagnose | storage, model, RAG |
| Knowledge (`rag/`, `infrastructure/knowledge_repository.py`) | documents, chunks, hits | ingest, query | PostgreSQL (pgvector) |
| Quotas and budget (`product/`, `operations/service.py`) | daily usage rows | reserve, add usage, check budget | PostgreSQL |
| AI admission (`core/ai_admission.py`) | Redis lease set, kill switch, local tokens | acquire, release, set_enabled | Redis |
| Rate limiter (`core/rate_limit.py`) | Redis counters, local fallback | allow | Redis |
| Circuit breaker (`core/resilience.py`) | failures, opened_at | call | external data provider |
| External data cache (`product/service.py`) | `vehicle_data_cache`, `vehicle_recalls` | decode VIN, recalls | garage, provider |
| Middleware (`core/middleware.py`) | none | deadline, request log | cancels handlers |
| Web client (`apps/web/lib`) | zustand stores | control, chat, poll | the API |

Auth, configuration, health, telemetry, the React components, the load tests
and the deployment files keep no protocol state and are not modelled; each is
listed with its reason in `PROJECT.json`.

What is hard in this code: request handlers interleave at every await and every
SQL statement; READ COMMITTED lets another session commit between two
statements; a handler can be cancelled at any await, and its 504 can have been
sent while it runs on; most operations span several transactions and
external calls, any of which can fail after the earlier ones took effect; a
judgement (safety gate, budget, cache freshness) is made before the action it
is for. `PROJECT.json` lists these hazards at their lines, with the properties
that catch each one.

What makes each part correct, in a sentence: no update of a vehicle is lost and
its audit rows are its history; the agent does nothing the policy would not
allow at the moment it is done, and its stored run says what it did; every
request ends; a limit (slots, quota, budget, rate) is kept or exceeded by a
known amount; a cached answer is about the thing that was asked.

## Modules

| Module | Stands for |
|---|---|
| `VehicleProperties` | `properties.py` as operators: zones, bounds, normalisation, read and apply |
| `VehicleTwin` | abstract: what the twin promises, one atomic versioned register file per vehicle |
| `VehicleHAL` | `set_property` and the garage's create and delete, statement by statement; implements `VehicleTwin` |
| `SafetyPolicy`, `ToolRegistry`, `CheapRouter` | the pure parts of the agent as operators |
| `CockpitAgent` | a chat through the agent's graph, over `VehicleTwin`, with other sessions |
| `AiAdmission` | the gate around every AI request: leases in Redis, local tokens, time |
| `AiSwitch` | the runtime switch of the AI services: a Redis key and each process's own copy |
| `CircuitBreaker` | the circuit that all calls of the recall and VIN provider share |
| `RecallData` | VIN decoding and recalls: cache entry, provider, rows, against the garage's PATCH and DELETE; over `CircuitBreaker` |
| `UsageLedger` | the day's quotas and costs that all AI features share, and the budget guard that reads them |
| `ThemeStudio`, `Diagnosis` | a theme's generation and a diagnosis, from the quota to the usage |
| `AiFeatures` | both and the chat's quota over one `UsageLedger`, across midnight |
| `KnowledgeBase` | documents and chunks, and the ingestions that replace them |
| `KnowledgeQuery` | a knowledge query's attempts, hits and close, over `KnowledgeBase` |
| `ThemeApply` | a theme's two tool calls on the vehicle, over `VehicleTwin` |
| `CockpitClient` | the cockpit page, opened and left at will: store, load, temperature buttons, theme dialog; over `ThemeApply` |
| `MC_*` | the finite instances |
| `*_proofs` | the theorems |

### VehicleHAL

A *session* is one request's database session. `pc` is the statement it is at:
`read` (SELECT), `update` (UPDATE ... WHERE version), `reread` (the SELECT of
`_current_version`), `audit` (INSERT), `commit`; `d_parent`, `d_child`,
`d_commit` for the garage's DELETE and its cascade. `store` and `audits` hold
what is committed; a transaction's own writes become visible at its commit,
and until then its UPDATE is visible as the row lock derived from `pc`. An
UPDATE that waited for the lock looks at the row as the holder left it
(`RowMatches`), which is what READ COMMITTED does. `snap` is the state the
session computed its candidate from. The failure actions: any statement may
fail (`StorageFail`), PostgreSQL may abort either party of the deadlock between
a setter and a deleter (`DeadlockVictim`), COMMIT may take effect and its
acknowledgement be lost (`TxnCommitAckLost`), the request may be cancelled or
the process die (`Abandon`).

`VehicleTwin` promises linearizability: a call takes effect at one instant
between its call and its answer, on the version the caller named. The
refinement mapping `OpOf` reads the twin's call and answer off `pc`, `req` and
`reply`; the run checks `TwinOf!Spec` as a property.

### CockpitAgent

`node[a]` is the graph node that runs next; each node's action carries the
recording of its step (`Visit`). `execute_tools` is a loop with an await in the
middle of each turn, so a tool call is two actions, `ExecuteCall` and
`ExecuteReturn`, with the twin's step between them. The vehicle is
`VehicleTwin`, not `VehicleHAL`: the refinement above is what makes that sound.
The texts a user may send are records of what the rules can tell of a text
(`Utterance`), the model's plans are arbitrary calls, well-formed or not. Every
query and every recording can fail (`StepFails`, `ToolRowFails`, the second
disjuncts of `SendChat`, `CompleteRun` and `HandleError`), and a chat can be
cancelled at any await (`Cancel`), in which case no except clause runs.

The constants that the model leaves open are the rules' texts and the plan;
what the code fixes (the order of the rules, the arguments they plan, the
route on which the stated speed is dropped) is in `CheapRouter`.

### AiAdmission

A request (`enforce_ai_admission` around an AI route) is `gone`, `asking` (its
acquire script is sent) or `running`. The script runs in Redis as one step
(`RunScript`), up to `MaxDelay` ticks after it was stamped, even when its
caller has given up on it; or never (`ScriptLost`). `AcquireFails` is the
`except` clause: a refusal when the deployment fails closed, a local token of
the process otherwise. Instead of a clock the model keeps what is left of each
lease (`left`) and of the key (`keyTtl`) and the age of each script under way
(`sent`), which keeps the state space finite without bounding time. `Release`
may fail without notice, `CancelAcquire` leaves a lease nobody will release,
`ProcessDies` and `RedisRestarts` lose what each keeps in memory. All processes
are taken to have the same clock, as the script's stamps assume.

### AiSwitch

`check[r]` follows `is_enabled` of a request through its GET; `control[p]`
follows `set_enabled` of a process through its SET. `local[p]` is
`_local_enabled`. A Redis call may fail before or after it took effect. Two
history variables hold the requests that began their check under a pause that
has been in force ever since: `durable`, in Redis; `answered`, in what the
admin was told.

### CircuitBreaker and RecallData

The circuit is two variables: the failures, not counted beyond `Threshold`, and
how long it has been open, not counted beyond `RecoveryTicks`; the code only
compares either with its limit. `CallProvider` asks the circuit, and
`ProviderReturns` tells it how the call ended, with anything in between, so
that calls let through while the circuit was closed return when it is open.
"Half open" is a value of the `state` property, not a state: it lets everyone
through.

`req[r].pc` follows a request: `keyed` (vehicle read), `fetching`, `calling`,
then for recalls `replacing`, `deleting`, `inserting` (the one transaction of
`replace_recalls`: its DELETE takes a snapshot, waits for rows that another has
deleted, and the INSERT meets the unique index), `saving` (the cache entry, a
transaction of its own), `listing`. `refused` is the `except` clause that
degrades. A row remembers the model it was fetched `for`, which the table does
not: `vehicle_recalls` knows only the vehicle. An entry is `fresh` until
`Expire`, and an expired one still counts as an old cache, as in the code.

### UsageLedger, ThemeStudio, Diagnosis, AiFeatures

`usage[u]` is a subject's row of `usage_daily` today and `cost[table][class]`
what the day's `agent_runs`, `aigc_generations` and `diagnosis_records` cost,
by traffic class. `HasQuota` and `Reserve` are the conditional upsert, one
statement; `AddUsage` is the UPDATE by today's date, which names no row when
the day has changed. `Economy` is `BudgetGuard.current`.

A session carries what it learnt when it learnt it: `economy` is read before
the quota, `image` and `external` when the month's budget is read, the cost is
written at the end. A failure at any await (`ThemeFails`, `DiagnosisFails`)
leaves what was done before it. A diagnosis's cost goes to the run
(`CompleteRun`, by the run's day) and once more to its record
(`SaveDiagnosis`); a theme's to its generation. `Midnight` begins a new row and
a new day of costs and, on a month's last day, new monthly sums.

Simplified: of an analysis only its cost is kept. The confidence gate, the
retrieval and `classify_risk` make the answer and the record's texts of the
detections, and no step or cost depends on them; note that `service.py:211`
judges every detection with the primary one's `low_confidence`, so an unsure
detection of the brakes beside a sure primary one is told as critical. Further, the three sums of `daily_cost` are one read;
the date of the row and the UTC day of the costs change together; a chat costs
nothing; the switch that disables quotas is on.

### KnowledgeBase and KnowledgeQuery

An ingestion is `embedded` (all that happens outside the transaction),
`selected` (SELECT ... FOR UPDATE, which locks the row or, when there is none,
nothing), `writing`. `owner[k]` is the transaction that holds the row, or the
uncommitted unique key, of source `k`. What is written becomes visible at
`CommitDocument`. All chunks of a version are one chunk, since they come and go
together; the identifiers are new with every version, so (source, version)
names it.

A query follows `query()`: the row, up to three searches of three statements
each, with a snapshot of their own (`VectorSearch`, `TextSearch`, `FetchRows`),
the hits with their foreign key to the chunks (`RecordHits` waits for a chunk
under deletion, `RefuseHits` meets one that is gone), the rewritten query or
the close. Whether the reranked hits are confident, and whether the rewriting
rules have anything to add, is chosen freely. `QueryFails` is the `except`
clause and `Abandon` what it does not catch.

### ThemeApply and CockpitClient

`ThemeApply` keeps the vehicle in `VehicleTwin` and follows one request from
`CreateRun` through two tool calls to `CompleteApply`. `ExpectedVersion` is the
loop's variable `version`: first the browser's, then the one the first call
made. Nothing in `apply` catches what the route answers as an error
(`ApplyFails`), so whatever was set stays, and the run stays `running`.

`CockpitClient` has `Tasks`, chains of promises: the page's load, a press of a
temperature button (`get`, `posted`), the dialog's apply (`get`, `posted`, then
the refresh). `ServeState` is the instant at which the server reads; the answer
arrives any time later. `shown` is the store, as `FromBackend` fills it: both
temperatures and the air conditioning that is read off them. It keeps no
version in the code; in the model it carries the one of the state it shows, as
a name. `Others` set the same vehicle, each in one step, with the version of
the moment.

The page is left (`Leave`) through a link at any time and opened again (`Open`).
What dies with it is its React state, `status` and the dialog's `busy`; the
store and the chains of promises live on. `alive` holds the load and the themes
that the open page began itself: of the others the load's answer is dropped
(`alive` of `cockpit-view.tsx:27`), a theme's refresh still sets the store, and
its `setBusy(null)` reaches a component that is no longer there
(`FreesDialog`).

## Runs

| Run | Instance | Shows |
|---|---|---|
| `vehicle_hal` | one vehicle, two sessions, three requests (a misspelled door, an int for a temperature, a window out of range), versions to 2 | no lost update, faithful audit, every call ends, linearizable |
| `cockpit_agent` | one chat, one other session that shifts the gear, deletes, conflicts; versions to 2; four texts, one plan of four calls (one with an unknown tool, one misspelled) | the gate's verdict still holds when a call takes effect; the trace is true; a chat ends |
| `agent_stated_speed` | the same | **violation**: the stated speed is not applied to what the model plans |
| `ai_admission` | two processes, three requests, two slots, leases of 2 ticks, scripts up to 1 tick late | at most two on lasting leases; a lease is not taken from its holder; every slot comes back |
| `ai_switch` | two processes, one request on each | a pause that is in Redis stops what comes after it |
| `ai_switch_told` | the same | **violation**: a pause the admin was told of does not |
| `recalls` | two sessions, one vehicle, two models that share a campaign, a circuit of 2 failures and 2 ticks | fetches stay whole, entries vouch for stored rows only, a failed refresh loses nothing, the circuit's count is right and it always opens up again |
| `recalls_degraded` | the same | **violation**: a degraded list may be another model's |
| `ai_features` | two sessions of one user, quotas 1, 2, 2, budgets of one call, one midnight | quotas hold exactly, budgets are overshot by the requests at work only, costs are backed |
| `ai_budget_load_test` | the same, with load tests | **violation**: load tests count against the budget |
| `knowledge` | two ingestions and two queries, one source, two contents, versions to 3 | the index is the current version, a search never mixes two, versions count changes, the audit supports the answer |
| `cockpit_client` | two chains of promises, one other client, a page left and opened again, versions to 3 | an applied theme is whole, its run is true, the page shows states that were, a dialog is busy with its own theme alone, the refresh has the theme in it |

Bounds. `MaxVersion` stands for the largest value of the version column (an
INTEGER: the update that would pass it fails in the database, as
`TxnUpdate`'s last disjunct does); 2 lets a session act on a version that has
been overtaken once and twice. Two sessions are enough for every pair of
statements to interleave, and the lock protocol is about pairs. `cockpit_agent`
needs at most two approved calls and one foreign change between any two steps.
Other sessions' `expected_version` ranges over all versions, so they may hit,
miss or run ahead. Three requests for two slots make the gate refuse; two share
a process, so that its local tokens compete too; a lease of two ticks and a
delay of one let a script be granted on time, late with a shorter lease, and
after another lease has run out. The switch's two processes are enough for one
to order what the other reads. `recalls` has two models with one campaign
in common, so that both the unique index and the leftovers of another model
are met; two sessions replace the same rows at once. In `ai_features` one call
takes a budget from below its threshold to its limit, so two sessions that
read it at once overshoot; quotas of 1 and 2 let one session be refused while
the other is at work, and one midnight may fall between any two steps.
`knowledge` lets a query span two re-ingestions (version 3) and two first
ingestions collide; three attempts are the code's own maximum. In
`cockpit_client` three versions are a theme's two changes and one of somebody
else; the one button is +1 for the driver, whose temperature the theme and the
other client set to 24 and 30, so that the clamp at 30 is reached. Two chains are
enough for a theme of a page that was left to run on while the page opened
afterwards loads, presses a button or applies a theme of its own.
The theorems do not depend on any bound.

Fairness. `VehicleHAL!FairSpec` is strongly fair to a session's statements: the
driver sends the next statement in the end and PostgreSQL grants row locks in
queue order, so a lock that is free again and again is granted; it is weakly
fair to `DeadlockVictim` because the detector runs after `deadlock_timeout`.
`CockpitAgent!FairSpec` is weakly fair to the chat's own steps (the event loop
runs what is ready; the model and every statement end or time out) and to the
twin's answer to the chat, which is what `VehicleHAL!CallsEnd` shows.
`AiAdmission!FairSpec` lets time pass and every script arrive or be lost;
`RecallData!FairSpec` only lets time pass. No
fairness is assumed of users, of other sessions, or of the AI requests, which
may run for ever.

Deadlock is checked in every run.

## What the checks say

* `NoLostUpdate`, `AuditReplay`, `HistoryOnlyGrows`, `CallsEnd`,
  `ImplementsTwin`: the optimistic protocol of the HAL is right, deletion and
  the lock cycle with the garage included. A call that ends in a storage error
  may have taken effect (lost acknowledgement); everything else is told
  exactly.
* `GateHoldsAtTheCall`: the policy is asked once, before the first call, on the
  state loaded at the start. What makes this safe is that each call is put on
  the version of the last success, so any foreign change turns the rest of the
  plan into conflicts; replacing that version by the current one (the run's
  mutant) breaks it.
* `KeepsTwinProtocol`: the agent, whatever the model plans, and the other
  sessions call the vehicle only as `VehicleTwin` may be called; a value that
  is not normalised would not be such a call.
* `ActsOnWhatItSaw`, `TraceIsTrue`: what the agent did is what it judged and
  what it stored, lost acknowledgements included (a call stored as failed may
  have happened, one stored as a success did).
* `ChatEnds`: a chat ends, in an answer, an error or a cancellation. The stored
  run, however, may stay `running` for ever: after a cancellation, and when
  closing it fails; nothing in the code sweeps such runs up.
* Finding, `StatedSpeedBlocksDoor`: `docs/phase-2-architecture.md:30` says that
  opening a door is always refused when the actual *or the stated* speed is
  above 0. The router extracts the stated speed but hands it on only with a
  rule's own result; a text that states a speed and matches no rule reaches the
  model, and the door the model plans is judged on the twin's speed alone.
* `WithinLimit`, `KeepsItsLease`: the gate bounds the requests whose lease has
  not run out and which Redis has not forgotten. A request that runs longer
  than `ai_lease_seconds` goes on without a slot, and a restart of Redis frees
  the slots of requests that still run; both can take the true number beyond
  the limit, as does the fallback outside staging and production, by `Limit`
  for each process.
* `SlotsComeBack`: no slot is lost for good, although a lost answer, a failed
  release or a dead process each leave one that nobody will release.
* `PauseHolds`: in staging and production a pause that is written to Redis is
  respected by every request that comes after it, although each process keeps
  a copy of its own and stale reads may overwrite it.
* Finding, `PauseToldHolds`: when the SET of a pause fails, `set_enabled(False)`
  still answers `False`, the admin page shows the AI as paused, and the next
  successful read of Redis turns it on again. Turning on, by contrast, is
  refused when its SET fails.
* `OpenMeansRecentFailures`, `LetsTryAgain`: in whatever order calls return, the
  circuit is open exactly after `Threshold` failures without a success behind
  them, and late failures, which set its clock again, cannot keep it shut for
  ever, because no call is let through while it is.
* `WholeFetches`, `EntriesVouchForStored`, `FailedRefreshKeepsRows`: the two
  transactions of a refresh are in the right order, and two refreshes at once
  end in one fetch or in a refused INSERT, never in a mixture of one fetch.
* Finding, `DegradedIsForTheModel`: rows belong to the vehicle, the entry that
  vouches for them to vehicle, make, model and year. After a PATCH to another
  model a failed refresh serves the old model's recalls as degraded, where
  `docs/phase-5-architecture.md:62` says unavailable. (The same mismatch lets a
  still fresh entry vouch for another model's rows when the vehicle is changed
  there and back.)
* `QuotaHolds`: the conditional upsert is exact. `DailyBudgetOvershoot`,
  `ImageBudgetOvershoot`, `VlmBudgetOvershoot`: the budgets are not, and cannot
  be, as they are read before and written after; what each can be overshot by
  is the cost of the sessions at work. A diagnosis is counted twice in the
  day's budget (its run and its record). `CostsAreBacked`: a failure on the way
  loses the outer record, never the inner one.
* Finding, `LoadTestsCostNothing`: `daily_cost` leaves load tests out of the
  runs' costs, but not out of the themes' and diagnoses'.
* `IndexMatches`, `VersionCountsChanges`: the row lock, and for a first
  ingestion the unique key, make concurrent ingestions of one source take
  turns. `OneVersionFound`: the third statement of a search filters what the
  first two found, so a re-ingestion between them cannot put old text beside
  new; it can leave the search without any, although the document was there
  all the time. `AuditSupportsAnswer`: the hits on record are those of the
  answer, attempt by attempt.
* `AppliedIsWhole`: a theme is marked applied only when its two changes are
  neighbours in the history. A theme that fails half-way leaves the driver's
  temperature and a run that stays `running` (`RunTellsWhatHappened` says what
  such a run still tells).
* `ShownWasReal`: the page shows states the vehicle has had as a whole, though
  not always the last: answers that overtake each other, a failed press and a
  failed theme leave an older one, and two quick presses send the same value.
* `OneThemePerDialog`, `RefreshSeesTheTheme`: a dialog applies one theme at a
  time and is busy exactly as long. Two themes can still be applied to the
  vehicle at once, by leaving the page while one is under way and opening it
  again; the new dialog is then free, and stays busy with its own theme when the
  old one ends. Each is still applied as a whole or refused (`AppliedIsWhole`),
  and the state read after it has both of its changes behind it.
* Observations no property is about: a client that repeats its `X-Request-ID`
  is refused by the unique index of `rag_queries` and answered 503; a
  diagnosis that fails after `create_run` leaves its run `running`;
  `docs/phase-7-runbook.md:69` speaks of refusing requests beyond the budget where
  the code serves them locally.
* Another observation: when a plan's first command succeeds and
  its second is blocked, the answer tells the user the operation was not
  executed (`compose_response`), although the tool list beside it shows the
  first as a success.

## What is proved

TLAPS, for all values of the constants under the modules' assumptions
(`Vehicles # {}`, `DemoVehicles \subseteq Vehicles`, `ExpectedVersions
\subseteq Nat`, `MaxVersion \in Nat`):

* `NormalizeTyped`, `ApplyTyped`, `ReadAfterApply`, `ReadElsewhere`, about the
  operators of `VehicleProperties`: an accepted value is within its property's
  bounds; applying it keeps the state within bounds, is read back, and changes
  no other property.
* `TypeCorrect` (`Spec => []TypeOK`), from the above: `TypeStep`, one step per
  action.
* `LostUpdateFree` (`Spec => []NoLostUpdate`). `NoLostUpdate` alone is not
  inductive: a session about to UPDATE must not hold a snapshot *ahead* of the
  row or one of the same version with different columns. `LockInv` adds
  `SnapshotInv`: the snapshot of a session before its UPDATE is at or behind
  the row's version, and equals the row when the versions are equal.
* `AuditFaithful` (`Spec => []AuditReplay`), with `AuditInv = LockInv /\
  AuditReplay`: the rows' state and history change only at a commit, where
  `NoLostUpdate` says that the candidate comes from the row as it is, and
  `WriteIsCandidate` that the columns the UPDATE names are all that a property
  can change.
* `HistoryGrows` (`Spec => HistoryOnlyGrows`), from `LockInv`.
* `TwinImplemented` (`Spec => ImplementsTwin`): `VehicleHAL` implements
  `VehicleTwin` step by step. A call takes effect at its COMMIT, acknowledged or
  not, or, when it changes nothing, at the statement that decides its answer.
  `CallInv` adds to `LockInv` what each session may count on when it gets there:
  one past its SELECT goes on from the version its caller expects; one whose
  UPDATE found no row is behind the row for good, or its vehicle is removed, so
  that "conflict" and "not found" are true whenever the second SELECT gives them;
  and one that deletes has the vehicle to itself. Versions never go back
  (`Onward`), which is what keeps these facts true while others move.

For `AiAdmission`, under `IsFiniteSet(Requests)`, `Home \in [Requests ->
Processes]`, `Limit, LeaseTicks \in Nat \ {0}`, `MaxDelay \in Nat`:

* `AdmissionTyped` (`Spec => []TypeOK`), `LeaseKept` (`Spec =>
  []KeepsItsLease`) and `GateKeepsLimit` (`Spec => []WithinLimit`), with `SlotInv`: whoever was granted a lease and has not let
  go of it is in the set while the lease lasts, the holder of an answer that is
  still on its way included (`Granted`); no member's lease outlives the key
  (the last conjunct of `TypeOK`), so the key's expiry takes none that lasts; and the set's lasting members are
  at most `Limit`, whether or not their requests still exist.

For `AiSwitch`, under `Home \in [Requests -> Processes]`:

* `WrittenPauseHolds` (`Spec => []PauseHolds`), with `PauseInv`: a request that
  began under a written pause has read `off` if it has read anything, and there
  is no such request once the pause is lifted.

For `RecallData`, under `CircuitAssumption` and `CatalogAssumption`:

* `CircuitCountsRight` (`Spec => []OpenMeansRecentFailures`), with `CircuitInv`:
  the bounds of the two counters make the property inductive, since the circuit
  is told of nothing but the ends of calls and of time (`CircuitStep`).
* `FetchesStayWhole` (`Spec => []WholeFetches`). Whole rows alone are not
  inductive: the DELETE removes what its snapshot named, which later commits have
  changed. `ReplaceInv` adds that every snapshot, and every set of rows that a
  transaction has deleted and not yet committed, is whole as well, and that the
  latter sets are disjoint parts of the table; so a commit takes whole fetches
  away and adds one, or, when the unique index refuses a campaign, nothing.
* `EntriesAreBacked` (`Spec => []EntriesVouchForStored`), with `VouchInv`: a
  request about to save a model's entry has had that model's fetch committed.
  `CatalogAssumption` keeps the key of a vehicle that is gone, and that of the
  VIN's own entry, apart from the models'.
* `FailuresKeepRows` (`Spec => FailedRefreshKeepsRows`), from `ReplaceInv`: what
  a DELETE has taken away is still in the table until its own COMMIT
  (`RowsChange`), which the failure of any statement before it never reaches.
* `RecallsTyped` (`Spec => []TypeOK`), with `TableInv`: one row per campaign
  (what the unique index refuses is what is left after the deletion), and only
  fetches of models vouched for.

For `AiFeatures`, under `LedgerAssumption`, `ThemeAssumption`,
`DiagnosisAssumption` and `DayAssumption`:

* `QuotasHold` (`Spec => []QuotaHolds`), with `QuotaInv`: a row that was never
  made counts nothing, without which the first INSERT, which looks at no limit,
  could lift a row beyond it. The rest of a request's way plays no part: every
  step but the three upserts and `AddUsage` leaves the counts alone.
* `ImagesOvershootBounded` and `VlmOvershootBounded` (`Spec =>
  []ImageBudgetOvershoot`, `Spec => []VlmBudgetOvershoot`). What is recorded is
  not inductive: a request that has read a budget with room left adds its price
  later, whatever has been recorded meanwhile. `Within` bounds what is recorded
  together with what the sessions that have read so will still add. A session
  joins them only while what is recorded is below the limit, and one that
  records moves its one price from the second part to the first.
* `DailyOvershootBounded` (`Spec => []DailyBudgetOvershoot`), with `ReqInv` and
  `DayInv`. The same argument, but a diagnosis adds its cost twice, in two
  transactions, and a theme its two prices at once: each session that was let
  through counts as two halves of the dearest request, a theme pays both at
  once and a diagnosis one with its run and one with its record.
* `RecordsBackUsage` (`Spec => []CostsAreBacked`), with `BookInv`: usage, together
  with what is recorded at a feature's place and not yet in usage (`Debtors`), is
  within the features' records, and the diagnoses, together with the runs whose
  record is still to come, within the runs. Each step of `BackedMoves` moves one
  amount outwards. That a run is charged at all needs it to be of today, which
  `Dated` gives on the first day.
* `FeaturesTyped` (`Spec => []TypeOK`), from these and `StoreInv`. `ReqInv` says
  what a request knows at each place of its way.

For `KnowledgeBase` and `KnowledgeQuery`, under `KnowledgeBaseAssumption` and
`KnowledgeQueryAssumption`:

* `IndexIsCurrent` (`Spec => []IndexMatches`) and `VersionsCount` (`Spec =>
  VersionCountsChanges`), with `BaseInv`. An ingestion writes the version after
  the one it read, some steps earlier; the proof needs that the one it read is
  still the one that is there. `LockInv` says so of every ingestion that holds a
  lock: of the row, from `SELECT ... FOR UPDATE` on, or of the unique key, from
  the INSERT on. One that found no row holds nothing, and its INSERT waits for
  the owner of the key.
* `SearchIsOneVersion` (`Spec => []OneVersionFound`), with `AskInv` over
  `BaseInv`: what a search returns is a part of the chunks as they are at its
  last statement, and those hold one version of each source.
* `AuditIsFaithful` (`Spec => []AuditSupportsAnswer`) and `KnowledgeTyped` (`Spec
  => []TypeOK`), with `QueryInv`. The hits of a query's earlier attempts are
  recorded unselected, those of its last one are what it will cite (`Audited`),
  and closing its row makes that `RowAudited`. An ingestion between any two of
  its statements takes chunks, and their hits, away. What it found is of versions
  its document has had (`Past`), and a new chunk is of a later one, so none it
  found ever comes back without its hit. No two queries under way share an id.

For `CockpitAgent`, under `AgentsAssumption`, `AgentVersionAssumption`,
`ChatAssumption` (there is a vehicle, there is a text, and stated speeds are
numbers), `PlanAssumption` (a plan has at most four calls, the schema's own
limit; the calls themselves are arbitrary) and `ManualAssumption` (the other
sessions' requests have passed the vehicle's own checks):

* `AgentTyped` (`Spec => []TypeOK`), `AgentActsOnWhatItSaw`,
  `AgentTellsTheTruth` and `AgentGateHolds` rest on one inductive invariant,
  `AgentInv`, with one lemma per action. Its parts: every command behind
  the validator is of a tool's kind with a value its cell may hold (`ChatFits`;
  `CommandsGood` says so of what `Commands` makes of any plan, the ranks included),
  so no tool ever reaches the gear or the speed; the history numbers the
  vehicle's versions (`RegisterFits`); and, of a chat with a vehicle, while the version is the one
  the chat last saw, the cells are as it saw them, all changes since it
  loaded the state are its own, and each answer it has counted as a success is
  among them (`Knows`).
* `AgentGateHolds` (`Spec => GateHoldsAtTheCall`) is then short: a call that
  takes effect was made on the version last seen, so only the chat's own
  commands lie between the state the gate read and the state it changes, and
  those leave gear and speed as they were (`Steady`).
* `AgentTellsTheTruth` (`Spec => []TraceIsTrue`) counts: the changes of a
  run are exactly those of the calls it told as successes and of at most one whose
  acknowledgement was lost.
* `AgentKeepsTwinProtocol` (`Spec => KeepsTwinProtocol`): `CockpitAgent` implements
  `VehicleTwin`, step by step, so all that the twin promises its callers holds
  of the agents too.

For `ThemeApply` and `CockpitClient`, under `ThemeApplyAssumption` and
`ClientAssumption`:

* `ClientTypes` (`Spec => []TypeOK`), `ThemesAreWhole` (`Spec =>
  []AppliedIsWhole`), `RunsTellTheTruth` (`Spec => []RunTellsWhatHappened`) and
  `ShownStatesWereReal` (`Spec => []ShownWasReal`) with `ClientInv`. A theme's second call
  is made on the version the first one made; the invariant follows that version
  from the history through the answer into the request's variable and back into
  the second call, and every state from the instant it is read on the server
  through the answers under way to the store.
* `RefreshShowsTheTheme` (`Spec => []RefreshSeesTheTheme`), from the same
  invariant: a chain that refreshes carries the numbers of its theme's two
  changes (`Themed`), from the run's record to the answer of the next GET, whose
  version is no smaller.
* `DialogsApart` (`Spec => []OneThemePerDialog`) with `DialogInv`: the dialog is
  busy exactly while a chain that began in it is not at its end. That `alive` is
  emptied when the page is left, and `busy` with it, keeps this true.

Every invariant, action property and refinement of the passing runs is proved.
Only model-checked is liveness (`CallsEnd`, `ChatEnds`, `SlotsComeBack`,
`LetsTryAgain`), which needs `ENABLED` and is out of this prover's reach, and what the
four runs with a counterexample show.

## Not modelled

* The rate limiter (`core/rate_limit.py`): see the plan.
* `CockpitClient` has no liveness property: with two chains and the twin the
  state graph is too large to search for one, and with one chain nothing
  overtakes. Of the page's other controls the air conditioning and the speed are
  never sent (`toControlPayload` answers null); windows, seat heating and
  headlights take the way of the temperature buttons, but through conversions of
  their own that are not modelled: AUTO and ON are both sent as LOW_BEAM, and
  `fromBackend` shows gear B as D, a window at its nearest quarter, and lights
  and charging as on or off.
* The chat's SSE variant: the agent then runs inside the stream that answers.
  The admission's lease is held to the end of it or not, depending on the
  version of FastAPI (`pyproject.toml:16`, hazard at `chat.py:67`).
* Authentication, the isolation of owners in WHERE clauses, preferences and
  feedback (single rows, without a second actor), configuration, health,
  telemetry, logging, metrics, embeddings' arithmetic, the pages that only
  read, load tests and deployment: no protocol a property could be about.
* Texts: prompts, answers, messages, log lines.

## Plan

1. Theorems: what `VehicleTwin` promises by itself, to be had by its two
   refinements without a second proof; the safety half of the liveness properties
   (what a call that has not ended still waits for).
2. `RateLimiter`: the counter of a caller and minute in Redis, the fallback's
   10,000 keys and its overflow counter, and both at once when Redis comes and
   goes.
3. The chat's vehicle event in `CockpitClient`, a third writer of the store.
