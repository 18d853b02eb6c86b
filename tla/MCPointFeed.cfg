SPECIFICATION Spec
CONSTANTS
    Points = {"speed", "fault"}
    Written = "speed"
    Alarms = {"fault"}
    Values = {"a", "b", "nan"}
    AlarmValue = "b"
    Invalid = "nan"
    Initial <- MCInitial
    Moves <- MCMoves
    CommandValues = {"b"}
    QueueSize = 3
    MaxCommands = 2
    MaxEvents = 3
INVARIANTS
    PageFollowsStore
    LossIsShown
    HistoryAgreesWithStore
    ConfirmedByWorker
    EveryCommandAnsweredOnce
PROPERTIES
    ConfirmedWasShown
CHECK_DEADLOCK FALSE
