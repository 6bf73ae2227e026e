----------------------------- MODULE MC_AiSwitch ------------------------------
(* AiSwitch with two processes.                                               *)
EXTENDS AiSwitch, TLC

CONSTANTS p1, p2, r1, r2

MC_Home == r1 :> p1 @@ r2 :> p2
================================================================================
