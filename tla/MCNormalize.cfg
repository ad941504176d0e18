SPECIFICATION Spec
CONSTANTS
    None = None
    VenueOf <- MCVenueOf
    DecimalMax = 5
    Day = 10
    Captures <- MCCaptures
    Reused <- MCReused
    MaxRuns = 2
INVARIANTS
    OutputIsTheCapture
    VerdictIsTheWholes
    JudgedWrongLeavesNothing
    PartsAreNumbered
    ReplaysAgree
    PublishedIsReplayable
PROPERTIES
    PartsAreFinal
CHECK_DEADLOCK FALSE
