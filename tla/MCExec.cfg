SPECIFICATION Spec
CONSTANTS
    Base = 2
    Places = 1
    MaxRaw = 31
    Bps = 10
    None = None
    Orders <- MCOrders
    FeeBps = 5
    Horizons <- MCHorizons
    Units <- MCUnits
    MaxHorizon = 9
    Millisecond = 2
    Prices = {0, 2, 3}
    Quantities = {1}
    ExchangeTimes <- MCExchangeTimes
    ClockSteps <- MCSteps
    MaxEvents = 4
INVARIANTS
    TypeOK
    BatchedAgrees
    FillIsTheFirstEvidence
    MarkoutsReadLaterPrints
CHECK_DEADLOCK FALSE
