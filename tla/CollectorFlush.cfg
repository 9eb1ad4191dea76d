\* A clean shutdown with a store that never fails.
CONSTANTS
    Hosts = {h1}
    Names = {c1}
    BucketMs = 2
    RawRetention = 1
    TrendRetention = 2
    PruneSecs = 2
    IntervalSecs = 1
    NoBucket = NoBucket
    NoSnapshot = NoSnapshot
    NoJob = NoJob
    NoQuery = NoQuery
    MaxTime = 3
    MaxWindow = 0
    MaxCycles = 2
    MaxUpsets = 1
    MaxEvents = 4
    MaxAsked = 0
SPECIFICATION Spec
CHECK_DEADLOCK FALSE
INVARIANTS
    NothingToFlush
