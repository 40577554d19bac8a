SPECIFICATION CalmSpec
CONSTANTS
    MaxTurns = 2
    MaxMessages = 2
    MaxCalls = 1
    MaxNested = 0
    MaxRestreams = 0
    MaxResumes = 1
    MaxForgets = 0
    FromStream = FALSE
INVARIANT LaterTurnsSortAfter
CHECK_DEADLOCK FALSE
