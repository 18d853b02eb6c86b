SPECIFICATION FairSpec
CONSTANTS
    Contents = {a, b}
    NoGood = NoGood
    TooLarge = {b}
    MaxObserved = 1
    MaxConns = 1
PROPERTY
    SamplingGoesOn
CHECK_DEADLOCK FALSE
