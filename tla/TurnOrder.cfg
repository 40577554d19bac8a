SPECIFICATION Spec
CONSTANTS
    MaxTurns = 2
    MaxMessages = 2
    MaxCalls = 1
    MaxNested = 0
    MaxRestreams = 1
    MaxResumes = 0
    MaxForgets = 0
    FromStream = FALSE
INVARIANTS
    TypeOK
    OneSequence
    LaterTurnsSortAfter
    SequencesAgree
    SeedsReachPast
PROPERTY RowsStay
CHECK_DEADLOCK FALSE
