-------------------------- MODULE MCProductionSync --------------------------
(* One pass of the concurrency group at a time, and one from a shell.      *)
EXTENDS ProductionSync
=============================================================================
