SPECIFICATION Spec
CONSTANTS
    Snapshots <- MCSnapshots
    Payloads <- MCPayloads
    InitialState = "idle"
    NoState = "no state"
    MaxItems = 3
INVARIANTS
    TypeOK
    IterationIsWhole
    NoOrphan
    AgentStateCurrent
PROPERTIES
    ReaderKeepsContract
    LeaveEnds
CHECK_DEADLOCK FALSE
