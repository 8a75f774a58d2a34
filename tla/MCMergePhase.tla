----------------------------- MODULE MCMergePhase -----------------------------
(* Runs of the concurrency group and of a shell over one issue.            *)
EXTENDS MergePhase
=============================================================================
