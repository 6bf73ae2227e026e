-------------------------------- MODULE AiSwitch -------------------------------
(***************************************************************************)
(* The runtime switch of the AI services: AiAdmissionController.is_enabled *)
(* and set_enabled over one Redis key and each process's own copy, the     *)
(* admin's PUT /ai-control that turns it, and enforce_ai_admission's check *)
(* before an AI request.  Every Redis call may fail, with or without its   *)
(* effect.                                                                 *)
(***************************************************************************)
CONSTANTS Processes,      \* the API's processes
          Requests,       \* the AI requests there may be at once
          Home            \* the process each one reaches

ASSUME HomeAssumption == Home \in [Requests -> Processes]

VARIABLES failClosed,  \* app_env is staging or production
          flag,        \* the key's value in Redis, "unset" if there is none
          local,       \* local[p] : _local_enabled
          check,       \* check[r] : where r's check of the switch is, or its outcome
          got,         \* got[r]   : the value its GET brought
          control,     \* control[p] : where p's set_enabled is, and what is ordered
          told,        \* the admin was last told that its pause is in force
          durable,     \* history: the requests begun under a pause written to Redis
          answered     \* history: the requests begun under a pause answered to the admin

vars == <<failClosed, flag, local, check, got, control, told, durable, answered>>

Idle == [st |-> "idle", order |-> FALSE]

Init ==
  /\ failClosed \in BOOLEAN
  /\ flag = "unset"
  /\ local = [p \in Processes |-> TRUE]
  /\ check = [r \in Requests |-> "new"]
  /\ got = [r \in Requests |-> "unset"]
  /\ control = [p \in Processes |-> Idle]
  /\ told = FALSE
  /\ durable = {} /\ answered = {}

--------------------------------------------------------------------------------
\* A pause is in force: Redis has it, or the admin has been told so, and nobody
\* is turning the switch on.
NobodyEnables == \A p \in Processes : control[p].st # "idle" => ~control[p].order
PauseWritten == flag = "off" /\ NobodyEnables
PauseTold == told /\ NobodyEnables

\* History: the requests that began their check under a pause that has been in
\* force ever since.
Remember(begun) ==
  /\ durable' = IF PauseWritten' THEN durable \cup begun ELSE {}
  /\ answered' = IF PauseTold' THEN answered \cup begun ELSE {}

Outcome(r, enabled) == check' = [check EXCEPT ![r] = IF enabled THEN "passed" ELSE "refused"]

\* A request reaches the gate: is_enabled sends its GET.
IsEnabled(r) ==
  /\ check[r] \in {"new", "passed", "refused"}
  /\ check' = [check EXCEPT ![r] = "asked"]
  /\ UNCHANGED <<failClosed, flag, local, got, control, told>>

RedisGet(r) ==
  /\ check[r] = "asked"
  /\ check' = [check EXCEPT ![r] = "read"]
  /\ got' = [got EXCEPT ![r] = flag]
  /\ UNCHANGED <<failClosed, flag, local, control, told>>

\* The value is there, if it is not None, and becomes the process's own.
UseValue(r) ==
  /\ check[r] = "read"
  /\ local' = IF got[r] = "unset" THEN local ELSE [local EXCEPT ![Home[r]] = (got[r] = "on")]
  /\ Outcome(r, local'[Home[r]])
  /\ UNCHANGED <<failClosed, flag, got, control, told>>

\* Fault: the process's own copy decides whenever Redis does not answer.
WithoutRedis_Local(r) == local[Home[r]]
WithoutRedis(r) == ~failClosed /\ local[Home[r]]

GetFails(r) ==
  /\ check[r] \in {"asked", "read"}
  /\ Outcome(r, WithoutRedis(r))
  /\ UNCHANGED <<failClosed, flag, local, got, control, told>>

--------------------------------------------------------------------------------
\* PUT /ai-control: set_enabled turns the process's own switch, then Redis's.
SetEnabled(p) ==
  /\ control[p] = Idle
  /\ \E order \in BOOLEAN :
       /\ control' = [control EXCEPT ![p] = [st |-> "sent", order |-> order]]
       /\ local' = [local EXCEPT ![p] = order]
       /\ told' = (told /\ ~order)
  /\ UNCHANGED <<failClosed, flag, check, got>>

RedisSet(p) ==
  /\ control[p].st = "sent"
  /\ flag' = IF control[p].order THEN "on" ELSE "off"
  /\ control' = [control EXCEPT ![p].st = "written"]
  /\ UNCHANGED <<failClosed, local, check, got, told>>

\* What the admin is told: the process's own switch.
Tell(p, enabled) ==
  /\ control' = [control EXCEPT ![p] = Idle]
  /\ told' = IF control[p].order THEN told ELSE ~enabled

SetAnswered(p) ==
  /\ control[p].st = "written"
  /\ Tell(p, local[p])
  /\ UNCHANGED <<failClosed, flag, local, check, got>>

\* The exception is swallowed; only turning on may be answered with a refusal.
SetFails(p) ==
  /\ control[p].st \in {"sent", "written"}
  /\ Tell(p, local[p] /\ ~(failClosed /\ control[p].order))
  /\ UNCHANGED <<failClosed, flag, local, check, got>>

\* Redis restarts and has forgotten the key; a process restarts, and its switch
\* is on.
RedisRestarts ==
  /\ flag' = "unset"
  /\ UNCHANGED <<failClosed, local, check, got, control, told>>

ProcessRestarts(p) ==
  /\ local' = [local EXCEPT ![p] = TRUE]
  /\ check' = [r \in Requests |-> IF Home[r] = p THEN "new" ELSE check[r]]
  /\ control' = [control EXCEPT ![p] = Idle]
  /\ UNCHANGED <<failClosed, flag, got, told>>

Next ==
  \/ \E r \in Requests :
       \/ IsEnabled(r) /\ Remember({r})
       \/ RedisGet(r) /\ Remember({})
       \/ UseValue(r) /\ Remember({})
       \/ GetFails(r) /\ Remember({})
  \/ \E p \in Processes :
       /\ SetEnabled(p) \/ RedisSet(p) \/ SetAnswered(p) \/ SetFails(p) \/ ProcessRestarts(p)
       /\ Remember({})
  \/ RedisRestarts /\ Remember({})

Spec == Init /\ [][Next]_vars

--------------------------------------------------------------------------------
\* README.md:143-145: in staging and production the switch holds across the
\* instances.  A pause that is written lets no request pass that comes after
\* it, on any process, whatever stale reads are under way and Redis failing or
\* not.
PauseHolds ==
  failClosed => \A r \in durable : check[r] # "passed"

\* tests/test_phase6_operations.py:57-58: set_enabled(False) answers False and
\* then is_enabled() is False.  Not so when the SET fails: the admin is told
\* that the AI is paused while Redis still says otherwise.
PauseToldHolds ==
  failClosed => \A r \in answered : check[r] # "passed"
================================================================================
