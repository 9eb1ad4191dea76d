\* A raw window read after the prune of a later cycle: not part of the runs.
CONSTANTS
    Hosts = {h1, h2}
    Names = {c1}
    BucketMs = 2
    RawRetention = 1
    TrendRetention = 2
    PruneSecs = 2
    IntervalSecs = 1
    NoBucket = NoBucket
    NoSnapshot = NoSnapshot
    NoJob = NoJob
    NoQuery = NoQuery
    MaxTime = 3
    MaxWindow = 1
    MaxCycles = 2
    MaxUpsets = 0
    MaxEvents = 3
    MaxAsked = 3
SPECIFICATION Spec
CHECK_DEADLOCK FALSE
INVARIANTS
    RawHistoryExact
