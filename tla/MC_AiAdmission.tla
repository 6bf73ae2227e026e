---------------------------- MODULE MC_AiAdmission ----------------------------
(* AiAdmission with named processes and requests.                             *)
EXTENDS AiAdmission, TLC

CONSTANTS p1, p2, r1, r2, r3

\* Two requests reach one process, one the other.
MC_Home == r1 :> p1 @@ r2 :> p1 @@ r3 :> p2
================================================================================
