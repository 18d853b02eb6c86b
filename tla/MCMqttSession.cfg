SPECIFICATION FairSpec
CONSTANTS
    Contents = {a, b}
    NoGood = NoGood
    TooLarge = {b}
    MaxObserved = 2
    MaxConns = 2
INVARIANTS
    LatestIsAttempted
PROPERTIES
    BrokerCatchesUp
    SessionEnds
CHECK_DEADLOCK FALSE
