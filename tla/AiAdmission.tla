------------------------------- MODULE AiAdmission -----------------------------
(***************************************************************************)
(* AiAdmissionController.acquire and release, as enforce_ai_admission uses *)
(* them around every AI request of every API process: at most Limit leases *)
(* in a Redis sorted set (member: the request's token, score: when it      *)
(* expires), and a process's own tokens when Redis cannot be reached and   *)
(* the deployment does not fail closed.                                    *)
(*                                                                         *)
(* The acquire script travels: it was stamped when it was sent, it runs up *)
(* to MaxDelay ticks later, perhaps after its caller has given up, or      *)
(* never.  Time is kept as what is left of each lease, so that no clock    *)
(* runs out: -MaxDelay stands for anything at or below it.                 *)
(***************************************************************************)
EXTENDS Integers, FiniteSets

CONSTANTS Processes,      \* the API's processes
          Requests,       \* the AI requests there may be at once, by their token
          Home,           \* the process each one reaches
          Limit,          \* ai_max_concurrency
          LeaseTicks,     \* ai_lease_seconds
          MaxDelay        \* how long a script may be under way

ASSUME RequestsAssumption == IsFiniteSet(Requests)
ASSUME HomeAssumption == Home \in [Requests -> Processes]
ASSUME LimitAssumption == Limit \in Nat \ {0}
ASSUME TicksAssumption == LeaseTicks \in Nat \ {0} /\ MaxDelay \in Nat

VARIABLES failClosed,  \* app_env is staging or production
          pc,          \* pc[r]      : where request r is
          backend,     \* backend[r] : its AiLease's backend
          sent,        \* sent[r]    : the age of its script, NotSent if none is under way
          answer,      \* answer[r]  : the script's answer on its way back
          held,        \* the members of the sorted set
          left,        \* left[r]    : their scores, as the time that is left
          keyTtl       \* the time left of the key itself

redisVars == <<held, left, keyTtl>>
vars == <<failClosed, pc, backend, sent, answer, held, left, keyTtl>>

NotSent == -1
Expired == -MaxDelay

Init ==
  /\ failClosed \in BOOLEAN
  /\ pc = [r \in Requests |-> "gone"]
  /\ backend = [r \in Requests |-> "none"]
  /\ sent = [r \in Requests |-> NotSent]
  /\ answer = [r \in Requests |-> "none"]
  /\ held = {}
  /\ left = [r \in Requests |-> Expired]
  /\ keyTtl = 0

Goto(r, to) == pc' = [pc EXCEPT ![r] = to]

--------------------------------------------------------------------------------
\* A request is past the switch and the throttle and sends its acquire script.
\* Its token is new: nothing is left of an earlier request of that name.
Acquire(r) ==
  /\ pc[r] = "gone" /\ r \notin held /\ sent[r] = NotSent
  /\ Goto(r, "asking")
  /\ sent' = [sent EXCEPT ![r] = 0]
  /\ answer' = [answer EXCEPT ![r] = "none"]
  /\ UNCHANGED <<failClosed, backend, redisVars>>

\* ZREMRANGEBYSCORE -inf now, now being the stamp of a script of this age.
Survivors_Expired(age) == held                                 \* fault: nothing expires
Survivors(age) == {t \in held : left[t] + age > 0}
HasRoom_OneMore(tokens) == Cardinality(tokens) <= Limit        \* fault
HasRoom(tokens) == Cardinality(tokens) < Limit
Score_FromNow(age) == LeaseTicks + age                         \* fault
Score(age) == LeaseTicks - age
KeyLife_Short == 1                                             \* fault
KeyLife == LeaseTicks

\* _ACQUIRE_SCRIPT, which Redis runs as one step.
RunScript(r) ==
  LET alive == Survivors(sent[r])
      granted == HasRoom(alive)
      reply == IF granted THEN "yes" ELSE "no"
  IN  /\ sent[r] # NotSent
      /\ held' = IF granted THEN alive \cup {r} ELSE alive
      /\ left' = IF granted THEN [left EXCEPT ![r] = Score(sent[r])] ELSE left
      /\ keyTtl' = IF granted THEN KeyLife ELSE keyTtl
      /\ sent' = [sent EXCEPT ![r] = NotSent]
      /\ answer' = [answer EXCEPT ![r] = IF pc[r] = "asking" THEN reply ELSE "none"]
      /\ UNCHANGED <<failClosed, pc, backend>>

ScriptLost(r) ==
  /\ sent[r] # NotSent
  /\ sent' = [sent EXCEPT ![r] = NotSent]
  /\ UNCHANGED <<failClosed, pc, backend, answer, redisVars>>

AcquireAnswered(r) ==
  /\ pc[r] = "asking" /\ answer[r] # "none"
  /\ \/ answer[r] = "yes" /\ Goto(r, "running") /\ backend' = [backend EXCEPT ![r] = "redis"]
     \/ answer[r] = "no" /\ Goto(r, "gone") /\ UNCHANGED backend
  /\ answer' = [answer EXCEPT ![r] = "none"]
  /\ UNCHANGED <<failClosed, sent, redisVars>>

LocalTokens(p) == {r \in Requests : pc[r] = "running" /\ backend[r] = "memory" /\ Home[r] = p}

\* Any exception of the call, a timeout above all: the script may still be
\* under way, and its answer may have been lost.
AcquireFails(r) ==
  /\ pc[r] = "asking"
  /\ \/ failClosed /\ Goto(r, "gone") /\ UNCHANGED backend
     \/ ~failClosed /\ ~HasRoom(LocalTokens(Home[r])) /\ Goto(r, "gone") /\ UNCHANGED backend
     \/ /\ ~failClosed /\ HasRoom(LocalTokens(Home[r]))
        /\ Goto(r, "running") /\ backend' = [backend EXCEPT ![r] = "memory"]
  /\ answer' = [answer EXCEPT ![r] = "none"]
  /\ UNCHANGED <<failClosed, sent, redisVars>>

\* The request ends, in whatever way, and the finally clause releases what it
\* ran on: its local token, or its Redis lease by a ZREM whose failure is
\* swallowed.
Removed(r) == held' = held \ {r} /\ left' = [left EXCEPT ![r] = Expired]
Release(r) ==
  /\ pc[r] = "running"
  /\ Goto(r, "gone")
  /\ backend' = [backend EXCEPT ![r] = "none"]
  /\ \/ backend[r] = "redis" /\ Removed(r)
     \/ UNCHANGED <<held, left>>
  /\ UNCHANGED <<failClosed, sent, answer, keyTtl>>

--------------------------------------------------------------------------------
\* A request is cancelled before it has a lease: nobody releases the one the
\* script may have taken.
CancelAcquire(r) ==
  /\ pc[r] = "asking"
  /\ Goto(r, "gone")
  /\ answer' = [answer EXCEPT ![r] = "none"]
  /\ UNCHANGED <<failClosed, backend, sent, redisVars>>

\* A process dies with its requests and its local tokens.
ProcessDies(p) ==
  /\ pc' = [r \in Requests |-> IF Home[r] = p THEN "gone" ELSE pc[r]]
  /\ answer' = [r \in Requests |-> IF Home[r] = p THEN "none" ELSE answer[r]]
  /\ backend' = [r \in Requests |-> IF Home[r] = p THEN "none" ELSE backend[r]]
  /\ UNCHANGED <<failClosed, sent, redisVars>>

\* Redis keeps nothing over a restart (compose.yaml: --save "" --appendonly no).
RedisRestarts ==
  /\ held' = {} /\ keyTtl' = 0
  /\ left' = [r \in Requests |-> Expired]
  /\ sent' = [r \in Requests |-> NotSent]
  /\ UNCHANGED <<failClosed, pc, backend, answer>>

Tick ==
  /\ \A r \in Requests : sent[r] < MaxDelay
  /\ left' = [r \in Requests |-> IF left[r] > Expired THEN left[r] - 1 ELSE Expired]
  /\ sent' = [r \in Requests |-> IF sent[r] = NotSent THEN NotSent ELSE sent[r] + 1]
  /\ keyTtl' = IF keyTtl = 0 THEN 0 ELSE keyTtl - 1
  /\ held' = IF keyTtl' = 0 THEN {} ELSE held
  /\ UNCHANGED <<failClosed, pc, backend, answer>>

Travels(r) == RunScript(r) \/ ScriptLost(r)

Next ==
  \/ \E r \in Requests :
       \/ Acquire(r) \/ Travels(r)
       \/ AcquireAnswered(r) \/ AcquireFails(r) \/ CancelAcquire(r)
       \/ Release(r)
  \/ \E p \in Processes : ProcessDies(p)
  \/ RedisRestarts
  \/ Tick

Spec == Init /\ [][Next]_vars

\* Time passes, and a script under way arrives or is lost.  Nothing is assumed
\* of the requests: they may run for ever.
Fairness == WF_vars(Tick) /\ \A r \in Requests : WF_vars(Travels(r))
FairSpec == Spec /\ Fairness

--------------------------------------------------------------------------------
\* Types: no lease is longer than ai_lease_seconds, however late its script ran,
\* and none in the set outlives the key it is stored under, which each script
\* that grants one sets anew.
TypeOK ==
  /\ failClosed \in BOOLEAN
  /\ pc \in [Requests -> {"gone", "asking", "running"}]
  /\ backend \in [Requests -> {"none", "redis", "memory"}]
  /\ sent \in [Requests -> NotSent..MaxDelay]
  /\ answer \in [Requests -> {"none", "yes", "no"}]
  /\ held \subseteq Requests
  /\ left \in [Requests -> Expired..LeaseTicks]
  /\ keyTtl \in 0..LeaseTicks
  /\ \A r \in held : left[r] <= keyTtl

\* The requests that run on a Redis lease that has not expired.
Leased ==
  {r \in Requests : pc[r] = "running" /\ backend[r] = "redis" /\ left[r] > 0}

\* A request that runs on a lease keeps it until the lease expires: neither the
\* purge of another's late script, nor another's release, nor the expiry of the
\* key gives its slot away.  Only a restart of Redis does.
KeepsItsLease == Leased \subseteq held

\* README.md:143-145: AI_MAX_CONCURRENCY bounds the AI requests of all
\* instances, and the gate refuses when Redis fails.  So it does in staging and
\* production, for the requests whose lease has not expired and that Redis has
\* not forgotten; elsewhere each process adds at most Limit of its own.
WithinLimit ==
  /\ Cardinality(Leased) <= Limit
  /\ failClosed => \A p \in Processes : LocalTokens(p) = {}
  /\ \A p \in Processes : Cardinality(LocalTokens(p)) <= Limit

\* No slot is lost for good: whatever was lost - the answer of the script, the
\* release, the process - every lease leaves the set in the end.
SlotsComeBack == \A r \in Requests : r \in held ~> r \notin held
================================================================================
