------------------------- MODULE MCLowValueSpendPlans -------------------------
(* Two payloads, and two calls that overlap on one of them.                 *)
EXTENDS LowValueSpendPlans, TLC

PlanSymmetry == Permutations(Payloads)
=============================================================================
