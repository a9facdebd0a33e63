SPECIFICATION CallSpec
CONSTANTS
    Width = 4
    Second = 3
    Grace = 1
    Settings <- AnyDuration
    Asked <- AnyAsked
    MaxTime = 7
    Streams = {stdout, stderr}
    Max = 2
    MaxChunk = 2
    MaxBytes = 2
CHECK_DEADLOCK FALSE
INVARIANTS
    OutputIsAccounted
    LimitHolds
    ResultFitsTheEnd
PROPERTIES
    EveryExecReturns
