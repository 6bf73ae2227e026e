---------------------------- MODULE AiSwitch_proofs ----------------------------
(***************************************************************************)
(* A pause that Redis has holds, for any processes and requests.           *)
(***************************************************************************)
EXTENDS AiSwitch, TLAPS

Values == {"unset", "on", "off"}
Controls == [st : {"idle", "sent", "written"}, order : BOOLEAN]

Types ==
  /\ failClosed \in BOOLEAN
  /\ flag \in Values
  /\ local \in [Processes -> BOOLEAN]
  /\ check \in [Requests -> {"new", "asked", "read", "passed", "refused"}]
  /\ got \in [Requests -> Values]
  /\ control \in [Processes -> Controls]
  /\ durable \subseteq Requests

\* A request that began under a written pause reads the pause; and there is no
\* such request unless the pause is still in force.
PauseInv ==
  /\ Types
  /\ durable # {} => PauseWritten
  /\ \A r \in durable : check[r] = "read" => got[r] = "off"
  /\ PauseHolds

LEMMA InitPause == Init => PauseInv
BY DEF Init, PauseInv, Types, Values, Controls, Idle, PauseHolds

\* Types are kept by every step.
LEMMA TypesKept == Types /\ [Next]_vars => Types'
<1> SUFFICES ASSUME Types, [Next]_vars PROVE Types'
  OBVIOUS
<1> USE HomeAssumption DEF Types, Values, Controls
<1>1. ASSUME NEW r \in Requests, IsEnabled(r), Remember({r}) PROVE Types'
  BY <1>1 DEF IsEnabled, Remember
<1>2. ASSUME NEW r \in Requests, RedisGet(r), Remember({}) PROVE Types'
  BY <1>2 DEF RedisGet, Remember
<1>3. ASSUME NEW r \in Requests, UseValue(r), Remember({}) PROVE Types'
  <2>1. (got[r] = "on") \in BOOLEAN
    OBVIOUS
  <2>2. local' \in [Processes -> BOOLEAN]
    BY <1>3, <2>1 DEF UseValue
  <2>3. check' \in [Requests -> {"new", "asked", "read", "passed", "refused"}]
    BY <1>3 DEF UseValue, Outcome
  <2> QED BY <1>3, <2>2, <2>3 DEF UseValue, Remember
<1>4. ASSUME NEW r \in Requests, GetFails(r), Remember({}) PROVE Types'
  BY <1>4 DEF GetFails, Outcome, Remember
<1>5. ASSUME NEW p \in Processes, SetEnabled(p), Remember({}) PROVE Types'
  BY <1>5 DEF SetEnabled, Remember
<1>6. ASSUME NEW p \in Processes, RedisSet(p), Remember({}) PROVE Types'
  BY <1>6 DEF RedisSet, Remember
<1>7. ASSUME NEW p \in Processes, SetAnswered(p), Remember({}) PROVE Types'
  BY <1>7 DEF SetAnswered, Tell, Idle, Remember
<1>8. ASSUME NEW p \in Processes, SetFails(p), Remember({}) PROVE Types'
  BY <1>8 DEF SetFails, Tell, Idle, Remember
<1>9. ASSUME NEW p \in Processes, ProcessRestarts(p), Remember({}) PROVE Types'
  BY <1>9 DEF ProcessRestarts, Idle, Remember
<1>10. CASE RedisRestarts /\ Remember({})
  BY <1>10 DEF RedisRestarts, Remember
<1>11. CASE UNCHANGED vars
  BY <1>11 DEF vars
<1> QED BY <1>1, <1>2, <1>3, <1>4, <1>5, <1>6, <1>7, <1>8, <1>9, <1>10, <1>11 DEF Next

\* A step that begins no check keeps the history or, when the pause is over,
\* empties it.
LEMMA HistoryShrinks ==
  ASSUME Remember({})
  PROVE  durable' \subseteq durable /\ (durable' # {} => PauseWritten')
BY DEF Remember

LEMMA PauseStep == PauseInv /\ [Next]_vars => PauseInv'
<1> SUFFICES ASSUME PauseInv, [Next]_vars
             PROVE  /\ durable' # {} => PauseWritten'
                    /\ \A r \in durable' : check'[r] = "read" => got'[r] = "off"
                    /\ PauseHolds'
  BY TypesKept DEF PauseInv
<1> USE DEF PauseInv, PauseHolds
<1>1. ASSUME NEW r \in Requests, IsEnabled(r), Remember({r})
      PROVE  /\ durable' # {} => PauseWritten'
             /\ \A q \in durable' : check'[q] = "read" => got'[q] = "off"
             /\ PauseHolds'
  <2>1. durable' # {} => PauseWritten'
    BY <1>1 DEF Remember
  <2>2. durable' \subseteq durable \cup {r} /\ check'[r] = "asked"
        /\ \A q \in Requests \ {r} : check'[q] = check[q]
    BY <1>1 DEF Remember, IsEnabled, Types
  <2>3. got' = got /\ failClosed' = failClosed
    BY <1>1 DEF IsEnabled
  <2> QED BY <2>1, <2>2, <2>3 DEF Types
<1>2. ASSUME NEW r \in Requests, RedisGet(r), Remember({})
      PROVE  /\ durable' # {} => PauseWritten'
             /\ \A q \in durable' : check'[q] = "read" => got'[q] = "off"
             /\ PauseHolds'
  <2>1. durable' \subseteq durable /\ (durable' # {} => PauseWritten')
    BY <1>2, HistoryShrinks
  <2>2. r \in durable => flag = "off"
    BY DEF PauseWritten
  <2>3. /\ check'[r] = "read" /\ got'[r] = flag
        /\ \A q \in Requests \ {r} : check'[q] = check[q] /\ got'[q] = got[q]
        /\ failClosed' = failClosed
    BY <1>2 DEF RedisGet, Types
  <2> QED BY <2>1, <2>2, <2>3 DEF Types
<1>3. ASSUME NEW r \in Requests, UseValue(r), Remember({})
      PROVE  /\ durable' # {} => PauseWritten'
             /\ \A q \in durable' : check'[q] = "read" => got'[q] = "off"
             /\ PauseHolds'
  <2>1. durable' \subseteq durable /\ (durable' # {} => PauseWritten')
    BY <1>3, HistoryShrinks
  <2>2. \A q \in Requests \ {r} : check'[q] = check[q]
    BY <1>3 DEF UseValue, Outcome, Types
  <2>3. got' = got /\ failClosed' = failClosed
    BY <1>3 DEF UseValue
  <2>4. check'[r] \in {"passed", "refused"}
    BY <1>3 DEF UseValue, Outcome, Types
  <2>5. ASSUME r \in durable PROVE check'[r] = "refused"
    <3>1. got[r] = "off"
      BY <1>3, <2>5 DEF UseValue
    <3>2. local' = [local EXCEPT ![Home[r]] = FALSE]
      BY <1>3, <3>1 DEF UseValue
    <3>3. local'[Home[r]] = FALSE
      BY <3>2, HomeAssumption DEF Types
    <3> QED BY <1>3, <3>3 DEF UseValue, Outcome, Types
  <2> QED BY <2>1, <2>2, <2>3, <2>4, <2>5 DEF Types
<1>4. ASSUME NEW r \in Requests, GetFails(r), Remember({})
      PROVE  /\ durable' # {} => PauseWritten'
             /\ \A q \in durable' : check'[q] = "read" => got'[q] = "off"
             /\ PauseHolds'
  <2>1. durable' \subseteq durable /\ (durable' # {} => PauseWritten')
    BY <1>4, HistoryShrinks
  <2>2. /\ \A q \in Requests \ {r} : check'[q] = check[q]
        /\ check'[r] \in {"passed", "refused"}
        /\ failClosed => check'[r] = "refused"
        /\ got' = got /\ failClosed' = failClosed
    BY <1>4 DEF GetFails, Outcome, WithoutRedis, Types
  <2> QED BY <2>1, <2>2 DEF Types
<1>5. ASSUME Remember({}), check' = check, got' = got, failClosed' = failClosed
      PROVE  /\ durable' # {} => PauseWritten'
             /\ \A q \in durable' : check'[q] = "read" => got'[q] = "off"
             /\ PauseHolds'
  BY <1>5, HistoryShrinks
<1>6. ASSUME NEW p \in Processes, Remember({}),
             SetEnabled(p) \/ RedisSet(p) \/ SetAnswered(p) \/ SetFails(p)
      PROVE  check' = check /\ got' = got /\ failClosed' = failClosed
  BY <1>6 DEF SetEnabled, RedisSet, SetAnswered, SetFails
<1>7. ASSUME NEW p \in Processes, ProcessRestarts(p), Remember({})
      PROVE  /\ durable' # {} => PauseWritten'
             /\ \A q \in durable' : check'[q] = "read" => got'[q] = "off"
             /\ PauseHolds'
  <2>1. durable' \subseteq durable /\ (durable' # {} => PauseWritten')
    BY <1>7, HistoryShrinks
  <2>2. /\ \A q \in Requests : check'[q] \in {"new", check[q]}
        /\ got' = got /\ failClosed' = failClosed
    BY <1>7 DEF ProcessRestarts
  <2> QED BY <2>1, <2>2 DEF Types
<1>8. RedisRestarts => check' = check /\ got' = got /\ failClosed' = failClosed
  BY DEF RedisRestarts
<1>9. CASE UNCHANGED vars
  BY <1>9 DEF vars, PauseWritten, NobodyEnables
<1> QED BY <1>1, <1>2, <1>3, <1>4, <1>5, <1>6, <1>7, <1>8, <1>9 DEF Next

\* In staging and production a pause that Redis has lets no request pass that
\* comes after it, on any number of processes, whichever Redis calls fail.
THEOREM WrittenPauseHolds == Spec => []PauseHolds
<1>1. PauseInv => PauseHolds
  BY DEF PauseInv
<1> QED BY <1>1, InitPause, PauseStep, PTL DEF Spec
================================================================================
