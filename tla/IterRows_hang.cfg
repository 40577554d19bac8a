SPECIFICATION Spec
CONSTANTS
    Snapshots <- MCSnapshots
    Payloads <- MCPayloads
    InitialState = "idle"
    NoState = "no state"
    MaxItems = 0
PROPERTY DrainLoopTerminates
CHECK_DEADLOCK FALSE
