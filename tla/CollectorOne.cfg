\* One host: a failing store, a stop, a clock set back, a page asking for history.
CONSTANTS
    Hosts = {h1}
    Names = {c1}
    BucketMs = 2
    RawRetention = 1
    TrendRetention = 4
    PruneSecs = 2
    IntervalSecs = 1
    NoBucket = NoBucket
    NoSnapshot = NoSnapshot
    NoJob = NoJob
    NoQuery = NoQuery
    MaxTime = 5
    MaxWindow = 1
    MaxCycles = 3
    MaxUpsets = 1
    MaxEvents = 5
    MaxAsked = 3
SPECIFICATION Spec
CHECK_DEADLOCK FALSE
INVARIANTS
    TypeOK
    SampleOnce
    BucketBounds
    Accounted
    RetentionBound
    RawHistoryComplete
PROPERTIES
    PruneOnlyExpired
    ImplementsLifecycle
