---------------------------- MODULE CircuitBreaker ----------------------------
(***************************************************************************)
(* core/resilience.py: the circuit that all calls of a provider share.  It *)
(* lets a call pass or refuses it, and hears later, under its lock again,  *)
(* how the call ended: in between anything may have happened to it, so     *)
(* answers of calls that were let through while it was closed arrive when  *)
(* it is open.                                                             *)
(*                                                                         *)
(* Failures beyond Threshold are not told apart, nor is time beyond        *)
(* RecoveryTicks since the circuit opened: the code only compares.         *)
(***************************************************************************)
EXTENDS Integers

CONSTANTS Threshold,       \* failure_threshold
          RecoveryTicks    \* recovery_seconds

ASSUME CircuitAssumption == Threshold \in Nat \ {0} /\ RecoveryTicks \in Nat \ {0}

VARIABLES failures,        \* _failures
          openedFor        \* how long ago _opened_at is, NotOpened for None

circuitVars == <<failures, openedFor>>

NotOpened == -1

CircuitInit == failures = 0 /\ openedFor = NotOpened

\* The property state: "half_open" is no state of its own, only an open circuit
\* whose recovery time is over, and limits nobody.
CircuitState ==
  CASE openedFor = NotOpened     -> "closed"
    [] openedFor = RecoveryTicks -> "half_open"
    [] OTHER                     -> "open"

CircuitPasses == CircuitState # "open" /\ UNCHANGED circuitVars

CircuitFailure ==
  /\ failures' = IF failures < Threshold THEN failures + 1 ELSE failures
  /\ openedFor' = IF failures' >= Threshold THEN 0 ELSE openedFor

CircuitRefuses_Counts == CircuitState = "open" /\ CircuitFailure    \* fault
CircuitRefuses == CircuitState = "open" /\ UNCHANGED circuitVars

\* A success closes the circuit, whatever it has become since the call began.
CircuitSuccess_KeepsCount ==                       \* fault: closes without counting anew
  openedFor' = NotOpened /\ UNCHANGED failures
CircuitSuccess == failures' = 0 /\ openedFor' = NotOpened

CircuitTick ==
  /\ openedFor \in 0..(RecoveryTicks - 1)
  /\ openedFor' = openedFor + 1
  /\ UNCHANGED failures

CircuitTypeOK ==
  /\ failures \in 0..Threshold
  /\ openedFor \in NotOpened..RecoveryTicks

--------------------------------------------------------------------------------
\* The circuit is open, or half open, exactly when Threshold failures have come
\* back with no success after them, in whatever order the calls returned.
OpenMeansRecentFailures == openedFor # NotOpened <=> failures = Threshold

\* However many failures come back late and set its clock again, an open circuit
\* always comes to let a call through.
LetsTryAgain == []<>(CircuitState # "open")
================================================================================
