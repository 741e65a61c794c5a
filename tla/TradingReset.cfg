\* The circuit breaker has tripped; midnight comes.
SPECIFICATION Spec
CONSTANTS
    Modes = {"LIVE"}
    Window = 2
    MaxErrors = 3
    DDLimit = 2
    Equities = {98, 99, 100}
    StartingEquity = 100
    MaxOrders = 3
    MaxDay = 3
    None = None
PROPERTY TripEndsAtMidnight
