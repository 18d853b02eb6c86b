SPECIFICATION Spec
CONSTANTS
    Clients = {c1, c2}
    NoClient = NoClient
    MaxSessions = 2
    MaxConnects = 2
SYMMETRY ClientSymmetry
INVARIANTS
    OneLiveWorkerPerSession
    NoLeakedWorker
    ConnectedMeansRead
    StoreNeverForeign
PROPERTIES
    DisconnectingIsFinal
CHECK_DEADLOCK FALSE
