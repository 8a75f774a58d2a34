-------------------------- MODULE MCCodeReviewLoop --------------------------
(* Instances of CodeReviewLoop for TLC.  The issue's runs end, so the      *)
(* system stops: deadlock is not checked.                                  *)
EXTENDS CodeReviewLoop
CONSTANTS r1, r2, r3, x1, x2, builder, none
=============================================================================
