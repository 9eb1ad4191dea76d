\* Samples with and without a CPU reading, and the chart that asks for them. The bound on
\* transactions ends a behaviour.
CONSTANTS
    c1 = c1
    c2 = c2
    Ids = {c1, c2}
    Metrics = {"cpu", "mem"}
    Buckets = {0, 1, 2}
    Chunk = 2
    Envelopes <- TwoEnvelopes
    Covers <- FourCovers
    Files <- EveryBuild
    LegacyRows <- SomeLegacyRows
    Readings = {1}
    NoData = NoData
    MaxWrites = 1
    MaxCrashes = 0
SPECIFICATION Spec
CHECK_DEADLOCK FALSE
INVARIANTS
    ChartServed
