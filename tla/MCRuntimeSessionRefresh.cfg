SPECIFICATION Spec
CONSTANTS
    Clients = {c1, c2}
    NoClient = NoClient
    MaxSessions = 2
    MaxConnects = 1
INVARIANT
    StoreBelongsToSession
CHECK_DEADLOCK FALSE
