CONSTANTS
    Jobs = {j1}
    Shells = {s1}
    MaxUpsets = 2
    NoRecord = NoRecord
SPECIFICATION FairSpec
INVARIANTS
    TypeOK
    RecordedIsProjected
    CompletedIsComplete
    SecondCommentNeedsOverlap
PROPERTIES
    EffectsKept
    ShownIsDeployed
    LiveIsShown
CHECK_DEADLOCK FALSE
