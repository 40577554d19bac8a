SPECIFICATION Spec
CONSTANTS
    MaxTurns = 2
    MaxMessages = 1
    MaxCalls = 1
    MaxNested = 2
    MaxRestreams = 0
    MaxResumes = 1
    MaxForgets = 1
    FromStream = TRUE
INVARIANT LaterTurnsSortAfter
PROPERTY MovesBehindThePast
CHECK_DEADLOCK FALSE
