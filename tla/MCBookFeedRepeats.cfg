SPECIFICATION Spec
CONSTANTS
    Prices = {1, 2, 3}
    Quantities = {1, 2}
    MaxId = 4
    None = None
    Truth <- MCTruth
    Events <- MCEvents
    Snapshots <- MCSnapshots
    Redeliver = TRUE
    MaxCalls = 6
PROPERTIES
    RepeatsAreHarmless
CHECK_DEADLOCK FALSE
