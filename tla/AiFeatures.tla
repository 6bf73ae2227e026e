------------------------------- MODULE AiFeatures ------------------------------
(***************************************************************************)
(* Theme generation, diagnosis and chat over one ledger: the same row of   *)
(* usage_daily, the same budget of the day.                                *)
(***************************************************************************)
EXTENDS ThemeStudio, Diagnosis

CONSTANT MaxDay         \* the days that are looked at

ASSUME DayAssumption == MaxDay \in Nat

vars == <<usage, cost, req, themes, imageSpent, vlmSpent, today>>

Init ==
  /\ LedgerInit /\ ThemeInit /\ DiagnosisInit
  /\ today = 0

\* Midnight, which may be that of a month's last day.
Midnight ==
  /\ today < MaxDay
  /\ today' = today + 1
  /\ NewDay
  /\ \/ UNCHANGED <<imageSpent, vlmSpent>>
     \/ imageSpent' = 0 /\ vlmSpent' = 0
  /\ UNCHANGED <<req, themes>>

Next ==
  \/ \E s \in Sessions :
       \/ ReserveText(s) /\ UNCHANGED <<themeVars, vlmSpent, today>>
       \/ ThemeNext(s) /\ UNCHANGED <<vlmSpent, today>>
       \/ DiagnosisNext(s) /\ UNCHANGED <<themeVars, today>>
  \/ Midnight

Spec == Init /\ [][Next]_vars

--------------------------------------------------------------------------------
\* Types: a session's request is a theme's or a diagnosis's.
TypeOK ==
  /\ LedgerTypeOK /\ ThemeTypeOK /\ DiagnosisTypeOK
  /\ today \in 0..MaxDay
  /\ \A s \in Sessions : req[s].pc \in {"idle"} \cup ThemePhases \cup DiagnosisPhases

\* docs/phase-6-architecture.md:42-43: from the economy threshold of the day's
\* budget on, no request that begins calls an external provider.  The budget is
\* read once, before the request, and its costs are recorded at its end (those of
\* a diagnosis twice), so the requests at work may each add their own.
MostExpensive == IF ThemeCost + ImageCost > 2 * VlmCost THEN ThemeCost + ImageCost ELSE 2 * VlmCost
DailyBudgetOvershoot ==
  DailyCost > 0 =>
    10 * DailyCost < 8 * DailyBudget + 10 * MostExpensive * Cardinality(Sessions)

\* Whatever fails in between, the costs are recorded from the inside out: the
\* usage of the first day holds none that the features' records do not, and the
\* diagnoses none that their runs do not.
CostsAreBacked ==
  today = 0 =>
    /\ SumOf(cost["diagnoses"], Classes) <= SumOf(cost["runs"], Classes)
    /\ \A u \in Subjects :
         usage[u].cost <= SumOf(cost["generations"], Classes) + SumOf(cost["diagnoses"], Classes)
================================================================================
