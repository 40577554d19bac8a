SPECIFICATION Spec
CONSTANTS
    MaxLength = 4
    c1 = c1
    c2 = c2
    noId = noId
    Calls <- MCCalls
    NoId <- noId
    NoWindow <- NoLimit
    Windows <- MCWindows
    Histories <- MCHistories
    MaxCrashes = 1
INVARIANTS
    TypeOK
    OnlyReplayedRows
    ReplayComplete
    OrdinalsMeet
    OrderStaysBelowSeed
    WindowKeepsRequests
CHECK_DEADLOCK FALSE
