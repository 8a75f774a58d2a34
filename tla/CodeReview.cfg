SPECIFICATION Spec
CONSTANTS
    r1 = r1  r2 = r2  r3 = r3  x1 = x1  x2 = x2  builder = builder  none = none
    Reviewer = {r1, r2, r3}
    Reviser = {x1, x2}
    NoRun = none
    Builder = builder
    MaxCycles = 1
    MaxTries = 3
    Contention = TRUE
    MaxCrashes = 5
    Stalls = FALSE
INVARIANTS TypeOK OneAgentPerArtifact
PROPERTIES ImplementsReviewCycle LeaseKept DecisionIsCurrent
CHECK_DEADLOCK FALSE
