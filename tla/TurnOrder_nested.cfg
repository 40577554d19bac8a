SPECIFICATION CalmSpec
CONSTANTS
    MaxTurns = 2
    MaxMessages = 1
    MaxCalls = 1
    MaxNested = 1
    MaxRestreams = 0
    MaxResumes = 0
    MaxForgets = 0
    FromStream = FALSE
INVARIANT LaterTurnsSortAfter
CHECK_DEADLOCK FALSE
