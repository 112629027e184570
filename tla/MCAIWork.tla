------------------------------ MODULE MCAIWork ------------------------------
(***************************************************************************)
(* The two autonomous services on small instances: a goal driven by two    *)
(* runs, and a plan of a few steps.  They share nothing, so a behaviour    *)
(* moves one of them, `part`, and leaves the other as it was at the start  *)
(* (a plan that stays there has new steps only): there are as many states  *)
(* as the two have together, not their product.                            *)
(***************************************************************************)
EXTENDS AIGoal, AIPlan
CONSTANTS s1, s2, s3

VARIABLE part

WorkInit == /\ part \in {"goal", "plan"}
            /\ Init
            /\ PlanInit
            /\ part = "goal" => In("new") = Steps

WorkNext == \/ part = "goal" /\ Next /\ UNCHANGED <<planVars, part>>
            \/ part = "plan" /\ PlanNext /\ UNCHANGED <<vars, part>>

WorkSpec == WorkInit /\ [][WorkNext]_<<vars, planVars, part>> /\ Fairness
=============================================================================
