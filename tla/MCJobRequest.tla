---- MODULE MCJobRequest ----
(* Instances of JobRequest for TLC.                                        *)
EXTENDS JobRequest, TLC

Symmetric == Permutations(Run) \union Permutations(Creator) \union Permutations(Reopener)
====
