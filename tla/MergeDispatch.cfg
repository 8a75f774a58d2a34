CONSTANTS
  NoRun = NoRun
  MergeJob = TRUE
  AckRequired = FALSE
  Contention = TRUE
  Cancels = TRUE
  Run = {r1}
  Reconciler = {c1, c2, c3}
SPECIFICATION Spec
SYMMETRY Symmetric
INVARIANTS TypeOK ConfirmedWasSent
PROPERTY CompletedStays
CHECK_DEADLOCK FALSE
