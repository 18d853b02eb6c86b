SPECIFICATION Spec
CONSTANTS
    Ids = {i1, i2}
    Bodies <- MCBodies
    NoBody = NoBody
    Requests = {r1, r2}
    Blanks = 2
    FinishedCapacity = 2
    RejectCapacity = 1
    InitialTarget = 2
    InitialToolLimit = 1
    InitialInspectInterval = 2
    Cycle = 1
    PassAt = {}
    FaultNames = {"emergency_stop", "applied_response_timeout"}
    MaxSamples = 1
    MaxSessions = 2
    MaxFaultChanges = 2
SYMMETRY Symmetry
INVARIANTS
    GoodsConserved
    RestartAccepted
PROPERTIES
    ImplementsDevice
    OnlyStartRuns
CHECK_DEADLOCK FALSE
