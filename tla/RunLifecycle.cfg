SPECIFICATION FairSpec
CONSTANTS
    tool_calls = tool_calls
    subgraphs = subgraphs
    t1 = t1
    d1 = d1
    s1 = s1
    Channels <- MCChannels
    Workers <- MCWorkers
    Drains <- MCDrains
    Owner <- MCOwner
    MaxFrames = 1
    MaxInterrupts = 1
    MaxCancels = 2
    MaxFailures = 2
INVARIANTS
    TypeOK
    QuietOnceOver
    SuccessMeansDrained
    EndsAsReported
PROPERTIES
    KeepsContract
    CancelEnds
    FailureEnds
    DrainedEnds
CHECK_DEADLOCK FALSE
