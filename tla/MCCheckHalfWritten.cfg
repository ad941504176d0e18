SPECIFICATION Spec
CONSTANTS
    NumSessions = 1
    Frames <- MCBook
    NoSpan = NoSpan
    Cut = Cut
    None = None
    Torn = Torn
    MaxId = 3
    RecordsPerChunk = 2
    MaxFrames = None
    HasDuration = FALSE
    MaxReconnects = 1
    MaxReads = 4
    MaxRuns = 1
INVARIANTS
    HalfWrittenIsFound
CHECK_DEADLOCK FALSE
