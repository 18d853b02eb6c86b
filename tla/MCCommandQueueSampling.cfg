SPECIFICATION FairSpec
CONSTANTS
    Ids = {i1}
    Bodies = {x}
    NoBody = NoBody
    MaxSubmits = 1
    MaxCrashes = 1
    MaxSamples = 1
    MaxSessions = 2
INVARIANTS
    ExecutedIsVisible
PROPERTIES
    SnapshotNeverGoesBack
    QueueMovesOn
CHECK_DEADLOCK FALSE
