CONSTANTS
  NoRun = NoRun
  NoOwner = NoOwner
  Run = {r1,r2}
  Dispatcher = {p1,p2}
  Planner = {p1,p2}
  MaxSubject = 2
  MaxCycles = 1
  MaxFaults = 0
  Contention = FALSE
SPECIFICATION Spec
INVARIANT DecisionIsAboutPlan
CHECK_DEADLOCK FALSE
