SPECIFICATION Spec
CONSTANTS
    tool_calls = tool_calls
    t1 = t1
    d1 = d1
    s1 = s1
    subgraphs = subgraphs
    Channels <- MCChannels
    Workers <- MCWorkers
    Drains <- MCDrains
    Owner <- MCOwner
    MaxFrames = 1
    MaxInterrupts = 1
    MaxCancels = 1
    MaxFailures = 0
INVARIANT CancelClearsRunning
CHECK_DEADLOCK FALSE
