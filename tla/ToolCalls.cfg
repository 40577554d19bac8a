SPECIFICATION Spec
CONSTANTS
    c1 = c1
    c2 = c2
    n1 = n1
    x = x
    y = y
    TopCalls <- MCTop
    NestedCalls <- MCNested
    Dispatch <- MCDispatch
    RawId <- MCRawId
    Named <- MCNamed
    Plain <- MCPlain
    MayFail <- MCMayFail
    NoAgent = "none"
    MaxRuns = 2
INVARIANTS
    TypeOK
    NestedRowsTagged
    ResultsAreTrue
    OpenInterruptsShown
    NoStaleInterrupt
PROPERTIES
    KeepsRows
    CallsEnd
CHECK_DEADLOCK FALSE
