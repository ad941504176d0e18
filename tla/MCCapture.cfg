SPECIFICATION FairSpec
CONSTANTS
    NumSessions = 2
    Frames <- MCBookAndTrades
    NoSpan = NoSpan
    Cut = Cut
    None = None
    Torn = Torn
    MaxId = 3
    RecordsPerChunk = 2
    MaxFrames = 3
    HasDuration = TRUE
    MaxReconnects = 1
    MaxReads = 4
    MaxRuns = 2
INVARIANTS
    CountersMatchLog
    TypeOK
    LogIsAnnotatedStream
    IndexDescribesDisk
    FinalManifestIsTrue
    EndedIsJudgedByItsStream
    HealthyMeansComplete
PROPERTIES
    ChunksAreFinal
    InterruptStops
    DurationStops
CHECK_DEADLOCK FALSE
