---------------------------- MODULE MC_CockpitClient ---------------------------
(* The page with two chains at once, and one other client.                     *)
EXTENDS CockpitClient, TLC

CONSTANTS f1, f2, o1

MC_Presses == {<<"driver", 1>>}
Symmetry == Permutations({f1, f2})
================================================================================
