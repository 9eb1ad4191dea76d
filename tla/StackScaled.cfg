\* A service with two containers.
CONSTANTS
    a = a
    b = b
    c = c
    Ids = {a, b, c}
    Services = {a, b, c}
    Stacks <- ScaledStacks
    Proxies = {FALSE}
    DepWait = 2
    Budget = 2
    NoDep = NoDep
    NoOutcome = NoOutcome
    MaxActions = 1
    MaxFlaws = 0
    MaxBlind = 0
    MaxInterference = 0
    MaxElapsed = 0
    MaxSpins = 0
SPECIFICATION Spec
CHECK_DEADLOCK FALSE
PROPERTIES
    HealthyFirst
