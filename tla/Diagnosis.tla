-------------------------------- MODULE Diagnosis ------------------------------
(***************************************************************************)
(* DiagnosisService.diagnose behind POST /diagnosis, with an external VLM: *)
(* the image guard, the quota, the agent run, the stored image, the        *)
(* month's VLM budget, the VLM or the local heuristic, the run's close,    *)
(* the record, the usage.  Each is a transaction or a call of its own, and *)
(* no handler catches what fails in between: the run then stays "running". *)
(*                                                                         *)
(* Of the run only its cost is kept, and of the analysis what it cost.     *)
(* Left out is what the answer makes of the detections (the confidence     *)
(* gate, the knowledge base, whose failure is caught, and the risks): no   *)
(* cost and no step here depends on it.                                    *)
(***************************************************************************)
EXTENDS UsageLedger

CONSTANTS VlmCost,      \* of one analysis
          VlmBudget     \* monthly_ai_budget_cny

ASSUME DiagnosisAssumption == VlmCost \in Nat /\ VlmBudget \in Nat

VARIABLES vlmSpent,     \* the month's cost in diagnosis_records
          today

DiagnosisInit == vlmSpent = 0

\* The route reads the file, resolves the vehicle and reads the day's budget.
AskDiagnosis(s) ==
  /\ At(s, "idle")
  /\ \E class \in Classes : Becomes(s, [pc |-> "guarded", class |-> class, economy |-> Economy])
  /\ UNCHANGED <<ledgerVars, vlmSpent>>

\* The guard comes before the quota: a refused image costs none.
RefuseImage(s) ==
  /\ At(s, "guarded")
  /\ Ends(s)
  /\ UNCHANGED <<ledgerVars, vlmSpent>>

\* The quota; create_run with its first steps and the stored image.  The run is
\* dated by its creation.
ReserveDiagnosis(s) ==
  /\ At(s, "guarded")
  /\ \/ /\ HasQuota(Who[s], "diagnosis", DiagnosisLimit)
        /\ Reserve(Who[s], "diagnosis")
        /\ Becomes(s, [pc |-> "stored", class |-> req[s].class, economy |-> req[s].economy,
                       run |-> today])
     \/ ~HasQuota(Who[s], "diagnosis", DiagnosisLimit) /\ Ends(s) /\ UNCHANGED usage
  /\ UNCHANGED <<cost, vlmSpent>>

VlmAffordable_Exhausted == vlmSpent <= VlmBudget                       \* fault
VlmAffordable == vlmSpent < VlmBudget
ChooseVlm(s) ==
  /\ At(s, "stored")
  /\ Becomes(s, [pc |-> "analyzing", class |-> req[s].class, run |-> req[s].run,
                 external |-> ~req[s].economy /\ VlmAffordable])
  /\ UNCHANGED <<ledgerVars, vlmSpent>>

\* The VLM answers, after one repair if need be; or it fails, at no recorded
\* cost, and the local heuristic answers, as it does out of budget.
Analyze(s) ==
  /\ At(s, "analyzing")
  /\ \E paid \in {0, VlmCost} :
       /\ paid # 0 => req[s].external
       /\ Becomes(s, [pc |-> "analyzed", class |-> req[s].class, run |-> req[s].run, cost |-> paid])
  /\ UNCHANGED <<ledgerVars, vlmSpent>>

\* complete_run comes before the diagnosis is saved, and charges the day on
\* which the run was created ...
RunCost_None(s) == 0                                                   \* fault
RunCost(s) == req[s].cost
CompleteRun(s) ==
  /\ At(s, "analyzed")
  /\ Becomes(s, [pc |-> "closed", class |-> req[s].class, cost |-> req[s].cost])
  /\ IF req[s].run = today THEN Charge("runs", req[s].class, RunCost(s)) ELSE UNCHANGED cost
  /\ UNCHANGED <<usage, vlmSpent>>

\* ... and the record carries the same cost once more.
SaveDiagnosis(s) ==
  /\ At(s, "closed")
  /\ Charge("diagnoses", req[s].class, req[s].cost)
  /\ vlmSpent' = vlmSpent + req[s].cost
  /\ Goto(s, "recorded")
  /\ UNCHANGED usage

AddDiagnosisUsage(s) ==
  /\ At(s, "recorded")
  /\ AddUsage(Who[s], req[s].cost)
  /\ Ends(s)
  /\ UNCHANGED <<cost, vlmSpent>>

DiagnosisPhases ==
  {"guarded", "stored", "analyzing", "analyzed", "closed", "recorded"}

\* A statement or the store fails, or the request is cancelled.
DiagnosisFails(s) ==
  /\ req[s].pc \in DiagnosisPhases
  /\ Ends(s)
  /\ UNCHANGED <<ledgerVars, vlmSpent>>

DiagnosisNext(s) ==
  \/ AskDiagnosis(s) \/ RefuseImage(s) \/ ReserveDiagnosis(s)
  \/ ChooseVlm(s) \/ Analyze(s)
  \/ CompleteRun(s) \/ SaveDiagnosis(s) \/ AddDiagnosisUsage(s)
  \/ DiagnosisFails(s)

--------------------------------------------------------------------------------
DiagnosisTypeOK ==
  /\ vlmSpent \in Nat
  /\ \A s \in Sessions :
       /\ req[s].pc \in DiagnosisPhases => req[s].class \in Classes
       /\ req[s].pc \in {"stored", "analyzing", "analyzed"} => req[s].run \in 0..today
       /\ req[s].pc \in {"analyzed", "closed", "recorded"} => req[s].cost \in {0, VlmCost}

\* docs/phase-4-architecture.md:38: once the month's budget is used up the VLM is
\* not called, but for the requests that had already read it.
VlmBudgetOvershoot ==
  vlmSpent > 0 => vlmSpent < VlmBudget + VlmCost * Cardinality(Sessions)
================================================================================
