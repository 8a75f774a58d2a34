---- MODULE MCPlanReviewDispatch ----
(* Instances of PlanReviewDispatch for TLC.                                *)
EXTENDS PlanReviewDispatch, TLC

Symmetric == Permutations(Planner) \union Permutations(Run)
====
