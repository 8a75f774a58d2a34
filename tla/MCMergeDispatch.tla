---- MODULE MCMergeDispatch ----
(* Instances of MergeDispatch for TLC.                                     *)
EXTENDS MergeDispatch, TLC

Symmetric == Permutations(Run) \union Permutations(Reconciler)
====
