SPECIFICATION Spec
CONSTANTS
    Prices = {1, 2, 3}
    Quantities = {1, 2}
    MaxId = 4
    None = None
    Truth <- MCTruth
    Events <- MCEvents
    Snapshots <- MCSnapshots
    Redeliver = FALSE
    MaxCalls = 6
INVARIANTS
    TypeOK
    MirrorsVenue
    CompleteStreamIsFollowed
    OneGapPerQuarantine
PROPERTIES
    ImplementsMirror
CHECK_DEADLOCK FALSE
