\* Files of every build, crashes while they are opened, and two transactions. The bound on
\* transactions ends a behaviour.
CONSTANTS
    c1 = c1
    c2 = c2
    Ids = {c1, c2}
    Metrics = {"cpu", "mem"}
    Buckets = {0, 1, 2}
    Chunk = 2
    Envelopes <- TwoEnvelopes
    Covers <- FourCovers
    Files <- EveryBuild
    LegacyRows <- SomeLegacyRows
    Readings = {1}
    NoData = NoData
    MaxWrites = 2
    MaxCrashes = 1
SPECIFICATION Live
CHECK_DEADLOCK FALSE
INVARIANTS
    TypeOK
    HistoryExact
    MedianWeighted
PROPERTIES
    Opens
