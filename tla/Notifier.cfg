\* One container that changes often enough for two alerts, a restart or an
\* adjusted clock.
CONSTANTS
    Containers = {c1}
    DelayMs = 2
    PostTimeout = 1
    NoReading = NoReading
    NotTracked = NotTracked
    NoPending = NoPending
    MaxTime = 5
    MaxObs = 5
    MaxUpsets = 1
SPECIFICATION Spec
CHECK_DEADLOCK FALSE
INVARIANTS
    TypeOK
    AlertJustified
    AlertNotMissed
PROPERTIES
    InOrder
