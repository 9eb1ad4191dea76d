\* A host of a federated node, whose slot lags behind its database.
CONSTANTS
    Sources = {TRUE}
    PerSecond = 2
    Steps = {1, 3}
    GapSecs = 1
    MaxPoints = 4
    SeedWindow = 4
    RoundTrip = TRUE
    NoJob = NoJob
    MaxPub = 4
    MaxUpsets = 2
    MaxEvents = 5
SPECIFICATION ChartSpec
CHECK_DEADLOCK FALSE
INVARIANTS
    TimestampOrder
