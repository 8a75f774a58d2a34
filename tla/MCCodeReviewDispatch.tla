---- MODULE MCCodeReviewDispatch ----
(* Instances of CodeReviewDispatch for TLC.                                *)
EXTENDS CodeReviewDispatch, TLC

Symmetric == Permutations(Handoff) \union Permutations(Dispatcher \ Handoff)
               \union Permutations(Run)
====
