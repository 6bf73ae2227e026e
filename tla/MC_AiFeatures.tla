----------------------------- MODULE MC_AiFeatures -----------------------------
(* AiFeatures with two sessions of one user.                                   *)
EXTENDS AiFeatures, TLC

CONSTANTS s1, s2, user

MC_Who == s1 :> user @@ s2 :> user
MC_TextLimit == user :> 1
MC_AigcLimit == user :> 2
MC_DiagnosisLimit == user :> 2
Symmetry == Permutations({s1, s2})
================================================================================
