\* A host of this instance, and one of a federated node.
CONSTANTS
    Sources = {TRUE, FALSE}
    PerSecond = 2
    Steps = {1, 3}
    GapSecs = 1
    MaxPoints = 4
    SeedWindow = 4
    RoundTrip = TRUE
    NoJob = NoJob
    MaxPub = 4
    MaxUpsets = 2
    MaxEvents = 5
SPECIFICATION ChartLive
CHECK_DEADLOCK FALSE
INVARIANTS
    ChartTypeOK
    Seamless
PROPERTIES
    StaysLive
