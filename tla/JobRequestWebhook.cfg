CONSTANTS
  NoRun = NoRun
  MergeJob = FALSE
  Run = {r1, r2, r3}
  Creator = {c1, c2}
  Reopener = {}
  AckRequired = TRUE
  Contention = TRUE
  Cancels = TRUE
SPECIFICATION Spec
SYMMETRY Symmetric
INVARIANTS TypeOK ClaimExclusive OneDispatch
PROPERTY OwnerTerminalizes
CHECK_DEADLOCK FALSE
