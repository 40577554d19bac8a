SPECIFICATION Spec
CONSTANTS
    m1 = m1
    s1 = s1
    Messages = {m1, s1}
    Channel <- MCChannel
    TopLevel = "messages"
    Flush <- MCFlush
    MaxDelta = 2
    MaxDeltas <- MCDeltas
    MaxPasses = 2
INVARIANTS
    TypeOK
    ChunksCoalesce
    SalvageCoversShown
PROPERTY KeepsText
CHECK_DEADLOCK FALSE
