SPECIFICATION Spec
CONSTANTS
    Prices = {1, 2, 3}
    Quantities = {1, 2}
    MaxId = 4
    None = None
    Truth <- MCTruth
    Events <- MCReaderEvents
    Snapshots <- MCSnapshots
    MaxFrames = 6
INVARIANTS
    EmittedTopIsTheVenues
    ReadersAgree
    LiveIsStricter
CHECK_DEADLOCK FALSE
