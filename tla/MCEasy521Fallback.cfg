SPECIFICATION Spec
CONSTANTS
    Bits = {0, 1}
    BitWord = "bits"
    Span <- MCSpan
    Words = {"bits", "lo", "hi", "one"}
    HmiBits = {0}
    Calls <- MCCalls
    IdModulus = 2
    MaxCalls = 1
    MaxConns = 3
INVARIANT
    NeighboursKept
CHECK_DEADLOCK FALSE
