SPECIFICATION FairSpec
CONSTANTS
    Points <- MCPoints
    Readable <- MCReadable
    Moving <- MCMoving
    Numeric <- MCNumeric
    Mode <- MCMode
    WritePoint <- MCWritePoint
    ReadPoint <- MCReadPoint
    Active <- MCActive
    Default <- MCDefault
    Batches = 2
    BatchOf <- MCBatchOf
    Values = {"on", "off"}
    NoValue = "nil"
    NoPoint = ""
    Commands <- MCCommands
    CommandQueueCapacity = 1
    MaxSubmits = 2
    WordSize = 8
    AddressSpace = 7
    MaxRead = 3
    NotFinite <- MCNotFinite
    Float64 <- MCFloat64
    Narrow <- MCNarrow
    Widen <- MCWiden
INVARIANTS
    TypeOK
    Pipeline
    SnapshotHonest
    ConnectionStateAgrees
    OneLateStartAtMost
    PulseClearAttempted
    NoDuplicatePoll
    SuccessIsReadBack
    PlanIsSound
    ValuesRoundTrip

    
CHECK_DEADLOCK FALSE
