SPECIFICATION Spec
CONSTANTS
    Prices = {1, 2, 3}
    Quantities = {1, 2}
    MaxId = 4
    None = None
    Truth <- MCTruth
    Events <- MCTrueEvents
    Snapshots <- MCTrueSnapshots
    MaxFrames = 5
INVARIANTS
    BrokenLiveBookIsCounted
CHECK_DEADLOCK FALSE
