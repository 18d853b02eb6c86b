SPECIFICATION Spec
CONSTANTS
    Ids = {i1, i2}
    Bodies = {x, y}
    NoBody = NoBody
    MaxSubmits = 2
    MaxCrashes = 1
    MaxSamples = 0
    MaxSessions = 1
SYMMETRY Symmetry
INVARIANTS
    PendingIsInHand
    NoBlindExecution
PROPERTIES
    ImplementsLedger
CHECK_DEADLOCK FALSE
