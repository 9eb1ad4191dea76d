\* One container, whose cycles take any time: containers share no more than
\* the end of a cycle, which the slow calls of the others put off.
CONSTANTS
    Containers = {c1}
    Interval = 1
    Missing = Missing
    NoCycle = NoCycle
    MaxTime = 4
    MaxUpsets = 2
SPECIFICATION Spec
\* The clock is bounded.
CHECK_DEADLOCK FALSE
INVARIANTS
    TypeOK
    RateHonest
    SteadyReading
