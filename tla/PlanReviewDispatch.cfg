CONSTANTS
  NoRun = NoRun
  NoOwner = NoOwner
  Run = {r1,r2}
  Dispatcher = {p1,c1}
  Planner = {p1}
  MaxSubject = 2
  MaxCycles = 1
  MaxFaults = 1
  Contention = FALSE
SPECIFICATION Spec
INVARIANTS TypeOK OneDispatcher ProvenIsRequested
PROPERTIES ImplementsRequestOnce NoStaleDecision
SYMMETRY Symmetric
CHECK_DEADLOCK FALSE
