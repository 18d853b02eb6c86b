SPECIFICATION Spec
CONSTANTS
    Bits = {0, 1}
    BitWord = "bits"
    Span <- MCSpan
    Words = {"bits", "lo", "hi", "one"}
    HmiBits = {0}
    Calls <- MCCalls
    IdModulus = 2
    MaxCalls = 3
    MaxConns = 3
INVARIANTS
    ConnectionIsClean
    WritesAtMostOnce
    FallbackOnlyWhenUnsupported
CHECK_DEADLOCK FALSE
