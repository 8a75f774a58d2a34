CONSTANTS
  NoRun = NoRun
  MergeJob = FALSE
  Run = {r1, r2}
  Creator = {c1}
  Reopener = {p1, p2}
  AckRequired = FALSE
  Contention = TRUE
  Cancels = TRUE
SPECIFICATION FairSpec
PROPERTIES ImplementsLifecycle WorkIsRecorded DoctorFailureReleases
CHECK_DEADLOCK FALSE
