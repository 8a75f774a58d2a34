CONSTANTS
  NoRun = NoRun
  MergeJob = TRUE
  AckRequired = FALSE
  Contention = FALSE
  Cancels = FALSE
  Run = {r1, r2}
  Reconciler = {c1, c2}
SPECIFICATION Spec
SYMMETRY Symmetric
PROPERTY LiveClaimKept
CHECK_DEADLOCK FALSE
