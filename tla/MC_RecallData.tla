----------------------------- MODULE MC_RecallData -----------------------------
(* RecallData with two sessions and a vehicle that changes between two models  *)
(* of which one campaign names both.                                           *)
EXTENDS RecallData, TLC

CONSTANTS s1, s2, mA, mB, c1, c2

MC_Catalog == mA :> {c1} @@ mB :> {c1, c2}
Symmetry == Permutations({s1, s2})
================================================================================
