\* A call that is slow in one cycle and not in the next; nothing else goes wrong.
CONSTANTS
    Containers = {c1}
    Interval = 1
    Missing = Missing
    NoCycle = NoCycle
    MaxTime = 4
    MaxUpsets = 0
SPECIFICATION Spec
\* The clock is bounded.
CHECK_DEADLOCK FALSE
INVARIANT
    RatePlausible
