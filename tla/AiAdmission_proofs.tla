--------------------------- MODULE AiAdmission_proofs --------------------------
(***************************************************************************)
(* The admission gate keeps its limit, for any processes, any finite set   *)
(* of requests, any limit, lease and delay.                                *)
(***************************************************************************)
EXTENDS AiAdmission, FiniteSetTheorems, TLAPS

\* The requests that were granted a lease and have not let go of it.
Granted(r) ==
  \/ pc[r] = "running" /\ backend[r] = "redis"
  \/ pc[r] = "asking" /\ answer[r] = "yes"

\* The members of the set whose time is not up, owned or not.
Unexpired == {t \in held : left[t] > 0}

\* What TypeOK says of each variable by itself.
Typed ==
  /\ failClosed \in BOOLEAN
  /\ pc \in [Requests -> {"gone", "asking", "running"}]
  /\ backend \in [Requests -> {"none", "redis", "memory"}]
  /\ sent \in [Requests -> NotSent..MaxDelay]
  /\ answer \in [Requests -> {"none", "yes", "no"}]
  /\ held \subseteq Requests
  /\ left \in [Requests -> Expired..LeaseTicks]
  /\ keyTtl \in 0..LeaseTicks

\* Leases are held while they last, no longer than the key, and few enough.
LeaseInv ==
  /\ \A r \in Requests : Granted(r) /\ left[r] > 0 => r \in held
  /\ \A r \in held : left[r] <= keyTtl
  /\ Cardinality(Unexpired) <= Limit

\* Local tokens are few enough, and there are none where the gate fails closed.
LocalInv ==
  /\ failClosed => \A r \in Requests : backend[r] # "memory"
  /\ \A p \in Processes : Cardinality(LocalTokens(p)) <= Limit

SlotInv == Typed /\ LeaseInv /\ LocalInv

--------------------------------------------------------------------------------
\* Cardinalities of sets of requests.
LEMMA FewRequests ==
  ASSUME NEW S \in SUBSET Requests
  PROVE  /\ IsFiniteSet(S) /\ Cardinality(S) \in Nat
         /\ \A T \in SUBSET S : IsFiniteSet(T) /\ Cardinality(T) <= Cardinality(S)
<1>1. IsFiniteSet(S)
  BY RequestsAssumption, FS_Subset
<1> QED BY <1>1, FS_Subset, FS_CardinalityType

\* A set with room stays within the limit when one request is added.
LEMMA RoomForOne ==
  ASSUME NEW S \in SUBSET Requests, NEW r \in Requests, HasRoom(S),
         NEW T \in SUBSET (S \cup {r})
  PROVE  Cardinality(T) <= Limit
<1>1. IsFiniteSet(S) /\ Cardinality(S) \in Nat
  BY FewRequests
<1>2. Cardinality(S \cup {r}) <= Limit
  BY <1>1, FS_AddElement, LimitAssumption DEF HasRoom
<1>3. /\ Cardinality(T) <= Cardinality(S \cup {r})
      /\ Cardinality(T) \in Nat /\ Cardinality(S \cup {r}) \in Nat
  <2>1. S \cup {r} \in SUBSET Requests
    OBVIOUS
  <2>2. T \in SUBSET Requests
    OBVIOUS
  <2> QED BY <2>1, <2>2, FewRequests
<1> QED BY <1>2, <1>3, LimitAssumption

\* A set that only loses requests stays within the limit.
LEMMA StillFew ==
  ASSUME NEW S \in SUBSET Requests, Cardinality(S) <= Limit, NEW T \in SUBSET S
  PROVE  Cardinality(T) <= Limit
<1>1. Cardinality(T) <= Cardinality(S) /\ Cardinality(S) \in Nat /\ Cardinality(T) \in Nat
  BY FewRequests
<1> QED BY <1>1, LimitAssumption

--------------------------------------------------------------------------------
LEMMA InitSlots == Init => SlotInv
<1> SUFFICES ASSUME Init PROVE SlotInv
  OBVIOUS
<1>1. Typed
  BY HomeAssumption, LimitAssumption, TicksAssumption DEF Init, Typed, NotSent, Expired
<1>2. Unexpired = {} /\ \A p \in Processes : LocalTokens(p) = {}
  BY DEF Init, Unexpired, LocalTokens
<1>3. Cardinality({}) <= Limit
  BY FS_EmptySet, LimitAssumption
<1> QED BY <1>1, <1>2, <1>3 DEF SlotInv, LeaseInv, LocalInv, Init, Granted

LEMMA TypeStep == Typed /\ [Next]_vars => Typed'
<1> SUFFICES ASSUME Typed, [Next]_vars PROVE Typed'
  OBVIOUS
<1> USE TicksAssumption DEF Typed, NotSent, Expired, Goto, redisVars
<1>1. ASSUME NEW r \in Requests, Acquire(r) PROVE Typed'
  BY <1>1 DEF Acquire
<1>2. ASSUME NEW r \in Requests, RunScript(r) PROVE Typed'
  <2>1. sent[r] \in 0..MaxDelay
    BY <1>2 DEF RunScript
  <2>2. Score(sent[r]) \in (-MaxDelay)..LeaseTicks
    BY <2>1 DEF Score
  <2>3. Survivors(sent[r]) \subseteq Requests
    BY DEF Survivors
  <2>4. left' \in [Requests -> (-MaxDelay)..LeaseTicks]
    BY <1>2, <2>2 DEF RunScript
  <2>5. held' \subseteq Requests
    BY <1>2, <2>3 DEF RunScript
  <2> QED BY <1>2, <2>4, <2>5 DEF RunScript, KeyLife
<1>3. ASSUME NEW r \in Requests, ScriptLost(r) PROVE Typed'
  BY <1>3 DEF ScriptLost
<1>4. ASSUME NEW r \in Requests, AcquireAnswered(r) PROVE Typed'
  BY <1>4 DEF AcquireAnswered
<1>5. ASSUME NEW r \in Requests, AcquireFails(r) PROVE Typed'
  BY <1>5 DEF AcquireFails
<1>6. ASSUME NEW r \in Requests, Release(r) PROVE Typed'
  BY <1>6 DEF Release, Removed
<1>7. ASSUME NEW r \in Requests, CancelAcquire(r) PROVE Typed'
  BY <1>7 DEF CancelAcquire
<1>8. ASSUME NEW p \in Processes, ProcessDies(p) PROVE Typed'
  BY <1>8 DEF ProcessDies
<1>9. CASE RedisRestarts
  BY <1>9 DEF RedisRestarts
<1>10. CASE Tick
  <2>1. sent' \in [Requests -> -1..MaxDelay]
    BY <1>10 DEF Tick
  <2>2. left' \in [Requests -> (-MaxDelay)..LeaseTicks]
    BY <1>10 DEF Tick
  <2> QED BY <1>10, <2>1, <2>2 DEF Tick
<1>11. CASE UNCHANGED vars
  BY <1>11 DEF vars
<1> QED BY <1>1, <1>2, <1>3, <1>4, <1>5, <1>6, <1>7, <1>8, <1>9, <1>10, <1>11 DEF Next, Travels

\* Redis's side: a script, a release, a restart, the passing of time.
LEMMA ScriptKeeps ==
  ASSUME SlotInv, NEW r \in Requests, RunScript(r)
  PROVE  LeaseInv'
<1> DEFINE alive == Survivors(sent[r])
<1> USE TicksAssumption DEF SlotInv, Typed, NotSent
<1>1. sent[r] \in 0..MaxDelay
  BY DEF RunScript
<1>2. Unexpired \subseteq alive /\ alive \subseteq held /\ alive \subseteq Requests
  BY <1>1 DEF Unexpired, Survivors, Expired
<1>3. pc' = pc /\ backend' = backend
      /\ \A q \in Requests \ {r} : answer'[q] = answer[q]
  BY DEF RunScript
<1>4. CASE HasRoom(alive)
  <2>1. /\ held' = alive \cup {r} /\ keyTtl' = LeaseTicks
        /\ left' = [left EXCEPT ![r] = LeaseTicks - sent[r]]
    BY <1>4 DEF RunScript, Score, KeyLife
  <2>2. \A q \in Requests : Granted(q)' /\ left'[q] > 0 => q \in held'
    <3> SUFFICES ASSUME NEW q \in Requests, q # r, Granted(q)', left'[q] > 0
                 PROVE  q \in held'
      BY <2>1
    <3>1. Granted(q) /\ left[q] > 0
      BY <1>3, <2>1 DEF Granted
    <3>2. q \in Unexpired
      BY <3>1 DEF LeaseInv, Unexpired
    <3> QED BY <3>2, <1>2, <2>1
  <2>3. \A q \in held' : left'[q] <= keyTtl'
    <3>1. \A q \in Requests : left'[q] <= LeaseTicks
      BY <1>1, <2>1 DEF Expired
    <3> QED BY <3>1, <1>2, <2>1
  <2>4. Cardinality(Unexpired') <= Limit
    <3>1. Unexpired' \in SUBSET (alive \cup {r})
      BY <2>1 DEF Unexpired
    <3> QED BY <3>1, <1>2, <1>4, RoomForOne
  <2> QED BY <2>2, <2>3, <2>4 DEF LeaseInv
<1>5. CASE ~HasRoom(alive)
  <2>1. held' = alive /\ left' = left /\ keyTtl' = keyTtl
    BY <1>5 DEF RunScript, redisVars
  <2>2. answer'[r] # "yes"
    BY <1>5 DEF RunScript
  <2>3. \A q \in Requests : Granted(q)' => Granted(q)
    BY <1>3, <2>2 DEF Granted
  <2>4. \A q \in Requests : Granted(q)' /\ left'[q] > 0 => q \in held'
    BY <2>1, <2>3, <1>2 DEF LeaseInv, Unexpired
  <2>5. \A q \in held' : left'[q] <= keyTtl'
    BY <2>1, <1>2 DEF LeaseInv
  <2>6. Cardinality(Unexpired') <= Limit
    <3>1. Unexpired' \in SUBSET Unexpired /\ Unexpired \in SUBSET Requests
      BY <2>1, <1>2 DEF Unexpired
    <3> QED BY <3>1, StillFew DEF LeaseInv
  <2> QED BY <2>4, <2>5, <2>6 DEF LeaseInv
<1> QED BY <1>4, <1>5

LEMMA TickKeeps ==
  ASSUME SlotInv, Tick
  PROVE  LeaseInv'
<1> USE TicksAssumption DEF SlotInv, Typed, Expired
<1>1. /\ \A q \in Requests : left'[q] = IF left[q] > -MaxDelay THEN left[q] - 1 ELSE -MaxDelay
      /\ keyTtl' = IF keyTtl = 0 THEN 0 ELSE keyTtl - 1
      /\ held' = IF keyTtl' = 0 THEN {} ELSE held
      /\ pc' = pc /\ backend' = backend /\ answer' = answer
  BY DEF Tick
<1>2. \A q \in Requests : Granted(q)' /\ left'[q] > 0 => q \in held'
  <2> SUFFICES ASSUME NEW q \in Requests, Granted(q)', left'[q] > 0
               PROVE  q \in held'
    OBVIOUS
  <2>1. Granted(q) /\ left[q] > 1 /\ left[q] \in Int
    BY <1>1 DEF Granted
  <2>2. q \in held /\ left[q] <= keyTtl
    BY <2>1 DEF LeaseInv
  <2>3. keyTtl' # 0
    BY <1>1, <2>1, <2>2
  <2> QED BY <1>1, <2>2, <2>3
<1>3. \A q \in held' : left'[q] <= keyTtl'
  <2> SUFFICES ASSUME NEW q \in held' PROVE left'[q] <= keyTtl'
    OBVIOUS
  <2>1. q \in held /\ keyTtl' # 0
    BY <1>1
  <2>2. q \in Requests /\ left[q] <= keyTtl /\ keyTtl' = keyTtl - 1 /\ keyTtl \in Nat
    BY <1>1, <2>1 DEF LeaseInv
  <2>3. CASE left[q] > -MaxDelay
    BY <1>1, <2>2, <2>3
  <2>4. CASE ~(left[q] > -MaxDelay)
    BY <1>1, <2>1, <2>2, <2>4
  <2> QED BY <2>3, <2>4
<1>4. Cardinality(Unexpired') <= Limit
  <2>1. Unexpired' \in SUBSET Unexpired /\ Unexpired \in SUBSET Requests
    BY <1>1 DEF Unexpired
  <2> QED BY <2>1, StillFew DEF LeaseInv
<1> QED BY <1>2, <1>3, <1>4 DEF LeaseInv

\* A step that neither grants nor moves a lease, nor adds a member.
LEMMA LeasesKept ==
  ASSUME SlotInv, held' \subseteq held, keyTtl' = keyTtl,
         \A q \in Requests : left'[q] \in {left[q], Expired},
         \A q \in Requests : Granted(q)' => Granted(q) /\ (q \in held => q \in held')
  PROVE  LeaseInv'
<1> USE TicksAssumption DEF SlotInv, Typed, Expired
<1>1. \A q \in Requests : Granted(q)' /\ left'[q] > 0 => q \in held'
  BY DEF LeaseInv
<1>2. \A q \in held' : left'[q] <= keyTtl'
  BY DEF LeaseInv
<1>3. Unexpired' \in SUBSET Unexpired /\ Unexpired \in SUBSET Requests
  BY DEF Unexpired
<1>4. Cardinality(Unexpired') <= Limit
  BY <1>3, StillFew DEF LeaseInv
<1> QED BY <1>1, <1>2, <1>4 DEF LeaseInv

LEMMA LeaseStep == SlotInv /\ [Next]_vars => LeaseInv'
<1> SUFFICES ASSUME SlotInv, [Next]_vars PROVE LeaseInv'
  OBVIOUS
<1> USE DEF redisVars, Granted, Goto
<1>0. Typed
  BY DEF SlotInv
<1>1. ASSUME NEW r \in Requests, Acquire(r) PROVE LeaseInv'
  <2>1. \A q \in Requests : Granted(q)' => Granted(q)
    BY <1>0, <1>1 DEF Acquire, Typed
  <2> QED BY <1>1, <2>1, LeasesKept DEF Acquire
<1>2. ASSUME NEW r \in Requests, RunScript(r) PROVE LeaseInv'
  BY <1>2, ScriptKeeps
<1>3. ASSUME NEW r \in Requests, ScriptLost(r) PROVE LeaseInv'
  BY <1>3, LeasesKept DEF ScriptLost
<1>4. ASSUME NEW r \in Requests, AcquireAnswered(r) PROVE LeaseInv'
  <2>1. \A q \in Requests : Granted(q)' => Granted(q)
    BY <1>0, <1>4 DEF AcquireAnswered, Typed
  <2> QED BY <1>4, <2>1, LeasesKept DEF AcquireAnswered
<1>5. ASSUME NEW r \in Requests, AcquireFails(r) PROVE LeaseInv'
  <2>1. \A q \in Requests : Granted(q)' => Granted(q)
    BY <1>0, <1>5 DEF AcquireFails, Typed
  <2> QED BY <1>5, <2>1, LeasesKept DEF AcquireFails
<1>6. ASSUME NEW r \in Requests, Release(r) PROVE LeaseInv'
  <2>1. \A q \in Requests : Granted(q)' => Granted(q) /\ q # r
    BY <1>0, <1>6 DEF Release, Typed
  <2>2. /\ held' \subseteq held /\ \A q \in Requests \ {r} : q \in held => q \in held'
        /\ \A q \in Requests : left'[q] \in {left[q], Expired}
        /\ keyTtl' = keyTtl
    BY <1>0, <1>6 DEF Release, Removed, Typed
  <2> QED BY <2>1, <2>2, LeasesKept
<1>7. ASSUME NEW r \in Requests, CancelAcquire(r) PROVE LeaseInv'
  <2>1. \A q \in Requests : Granted(q)' => Granted(q)
    BY <1>0, <1>7 DEF CancelAcquire, Typed
  <2> QED BY <1>7, <2>1, LeasesKept DEF CancelAcquire
<1>8. ASSUME NEW p \in Processes, ProcessDies(p) PROVE LeaseInv'
  <2>1. \A q \in Requests : Granted(q)' => Granted(q)
    BY <1>0, <1>8 DEF ProcessDies, Typed
  <2> QED BY <1>8, <2>1, LeasesKept DEF ProcessDies
<1>9. CASE RedisRestarts
  <2>1. /\ held' = {} /\ keyTtl' = 0 /\ Unexpired' = {}
        /\ \A q \in Requests : left'[q] = Expired
    BY <1>9 DEF RedisRestarts, Unexpired
  <2>2. ~(Expired > 0) /\ Cardinality({}) <= Limit
    BY FS_EmptySet, TicksAssumption, LimitAssumption DEF Expired
  <2> QED BY <2>1, <2>2 DEF LeaseInv
<1>10. CASE Tick
  BY <1>10, TickKeeps
<1>11. CASE UNCHANGED vars
  BY <1>11, LeasesKept DEF vars
<1> QED BY <1>1, <1>2, <1>3, <1>4, <1>5, <1>6, <1>7, <1>8, <1>9, <1>10, <1>11 DEF Next, Travels

--------------------------------------------------------------------------------
\* The processes' side.
LEMMA FewerTokens ==
  ASSUME LocalInv, \A p \in Processes : LocalTokens(p)' \subseteq LocalTokens(p)
  PROVE  \A p \in Processes : Cardinality(LocalTokens(p)') <= Limit
<1> SUFFICES ASSUME NEW p \in Processes PROVE Cardinality(LocalTokens(p)') <= Limit
  OBVIOUS
<1>1. LocalTokens(p) \in SUBSET Requests /\ Cardinality(LocalTokens(p)) <= Limit
  BY DEF LocalTokens, LocalInv
<1>2. LocalTokens(p)' \in SUBSET LocalTokens(p)
  OBVIOUS
<1> QED BY <1>1, <1>2, StillFew

LEMMA LocalStep == SlotInv /\ [Next]_vars => LocalInv'
<1> SUFFICES ASSUME SlotInv, [Next]_vars PROVE LocalInv'
  OBVIOUS
<1> USE DEF Goto, redisVars
<1>0. Typed /\ LocalInv
  BY DEF SlotInv
<1>1. ASSUME NEW r \in Requests, AcquireFails(r) PROVE LocalInv'
  <2>1. CASE Goto(r, "gone") /\ UNCHANGED backend
    <3>1. \A p \in Processes : LocalTokens(p)' \subseteq LocalTokens(p)
      BY <1>0, <1>1, <2>1 DEF AcquireFails, LocalTokens, Typed
    <3> QED BY <1>0, <1>1, <2>1, <3>1, FewerTokens DEF AcquireFails, LocalInv
  <2>2. CASE /\ ~failClosed /\ HasRoom(LocalTokens(Home[r]))
             /\ Goto(r, "running") /\ backend' = [backend EXCEPT ![r] = "memory"]
    <3>1. ASSUME NEW p \in Processes PROVE Cardinality(LocalTokens(p)') <= Limit
      <4>1. LocalTokens(p) \in SUBSET Requests /\ Cardinality(LocalTokens(p)) <= Limit
        BY <1>0 DEF LocalTokens, LocalInv
      <4>2. CASE p = Home[r]
        <5>1. LocalTokens(p)' \in SUBSET (LocalTokens(p) \cup {r})
          BY <1>0, <2>2 DEF LocalTokens, Typed
        <5>2. HasRoom(LocalTokens(p))
          BY <2>2, <4>2
        <5> QED BY <4>1, <5>1, <5>2, RoomForOne
      <4>3. CASE p # Home[r]
        <5>1. LocalTokens(p)' \in SUBSET LocalTokens(p)
          BY <1>0, <2>2, <4>3 DEF LocalTokens, Typed
        <5> QED BY <4>1, <5>1, StillFew
      <4> QED BY <4>2, <4>3
    <3>2. failClosed' = failClosed
      BY <1>1 DEF AcquireFails
    <3> QED BY <2>2, <3>1, <3>2 DEF LocalInv
  <2> QED BY <1>1, <2>1, <2>2 DEF AcquireFails
<1>2. ASSUME NEW r \in Requests, AcquireAnswered(r) PROVE LocalInv'
  <2>1. \A p \in Processes : LocalTokens(p)' \subseteq LocalTokens(p)
    BY <1>0, <1>2 DEF AcquireAnswered, LocalTokens, Typed
  <2>2. failClosed' = failClosed /\ \A q \in Requests : backend'[q] \in {backend[q], "redis"}
    BY <1>0, <1>2 DEF AcquireAnswered, Typed
  <2> QED BY <1>0, <2>1, <2>2, FewerTokens DEF LocalInv
<1>3. ASSUME NEW r \in Requests, Release(r) PROVE LocalInv'
  <2>1. \A p \in Processes : LocalTokens(p)' \subseteq LocalTokens(p)
    BY <1>0, <1>3 DEF Release, LocalTokens, Typed
  <2>2. failClosed' = failClosed /\ \A q \in Requests : backend'[q] \in {backend[q], "none"}
    BY <1>0, <1>3 DEF Release, Typed
  <2> QED BY <1>0, <2>1, <2>2, FewerTokens DEF LocalInv
<1>4. ASSUME NEW p \in Processes, ProcessDies(p) PROVE LocalInv'
  <2>1. \A u \in Processes : LocalTokens(u)' \subseteq LocalTokens(u)
    BY <1>0, <1>4 DEF ProcessDies, LocalTokens, Typed
  <2>2. failClosed' = failClosed /\ \A q \in Requests : backend'[q] \in {backend[q], "none"}
    BY <1>0, <1>4 DEF ProcessDies, Typed
  <2> QED BY <1>0, <2>1, <2>2, FewerTokens DEF LocalInv
<1>5. ASSUME NEW r \in Requests, Acquire(r) \/ CancelAcquire(r) PROVE LocalInv'
  <2>1. \A p \in Processes : LocalTokens(p)' \subseteq LocalTokens(p)
    BY <1>0, <1>5 DEF Acquire, CancelAcquire, LocalTokens, Typed
  <2>2. failClosed' = failClosed /\ backend' = backend
    BY <1>5 DEF Acquire, CancelAcquire
  <2> QED BY <1>0, <2>1, <2>2, FewerTokens DEF LocalInv
<1>6. ASSUME failClosed' = failClosed, pc' = pc, backend' = backend PROVE LocalInv'
  BY <1>0, <1>6 DEF LocalInv, LocalTokens
<1>7. ASSUME NEW r \in Requests, Travels(r)
      PROVE  failClosed' = failClosed /\ pc' = pc /\ backend' = backend
  BY <1>7 DEF Travels, RunScript, ScriptLost
<1>8. RedisRestarts \/ Tick \/ UNCHANGED vars
        => failClosed' = failClosed /\ pc' = pc /\ backend' = backend
  BY DEF RedisRestarts, Tick, vars
<1> QED BY <1>1, <1>2, <1>3, <1>4, <1>5, <1>6, <1>7, <1>8 DEF Next

--------------------------------------------------------------------------------
LEMMA SlotStep == SlotInv /\ [Next]_vars => SlotInv'
BY TypeStep, LeaseStep, LocalStep DEF SlotInv

LEMMA SlotsAlways == Spec => []SlotInv
BY InitSlots, SlotStep, PTL DEF Spec

\* No lease is longer than ai_lease_seconds, however late its script ran, and none
\* outlives its key: what a late script adds is stamped when it was sent, and the key
\* lives on from when it ran.
THEOREM AdmissionTyped == Spec => []TypeOK
<1>1. SlotInv => TypeOK
  BY DEF SlotInv, Typed, LeaseInv, TypeOK
<1> QED BY <1>1, SlotsAlways, PTL

\* A request keeps its slot while its lease lasts, whatever the other requests'
\* scripts and releases do.
THEOREM LeaseKept == Spec => []KeepsItsLease
<1>1. SlotInv => KeepsItsLease
  BY DEF SlotInv, LeaseInv, KeepsItsLease, Leased, Granted
<1> QED BY <1>1, SlotsAlways, PTL

\* No more than Limit requests run on leases, and on each process no more than
\* Limit on local tokens, none of them in staging and production.
THEOREM GateKeepsLimit == Spec => []WithinLimit
<1>1. SlotInv => WithinLimit
  <2> SUFFICES ASSUME SlotInv PROVE WithinLimit
    OBVIOUS
  <2>1. Leased \in SUBSET Unexpired /\ Unexpired \in SUBSET Requests
    BY DEF SlotInv, LeaseInv, Leased, Granted, Unexpired, Typed
  <2>2. Cardinality(Leased) <= Limit
    BY <2>1, StillFew DEF SlotInv, LeaseInv
  <2>3. failClosed => \A p \in Processes : LocalTokens(p) = {}
    BY DEF SlotInv, LocalInv, LocalTokens
  <2> QED BY <2>2, <2>3 DEF WithinLimit, SlotInv, LocalInv
<1> QED BY <1>1, SlotsAlways, PTL
================================================================================
