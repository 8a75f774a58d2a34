CONSTANTS
  NoRun = NoRun
  NoOwner = NoOwner
  Run = {r1,r2}
  Dispatcher = {h1,c1}
  Handoff = {h1}
  MaxSubject = 2
  MaxRetries = 1
  MaxFaults = 2
  Contention = FALSE
SPECIFICATION FairSpec
INVARIANTS TypeOK OneDispatcher ProvenIsRequested ActiveIsRequested
PROPERTIES ImplementsRequestOnce HandoffStartsReview
CHECK_DEADLOCK FALSE
