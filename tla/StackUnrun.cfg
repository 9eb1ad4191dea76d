\* A dependency whose first start fails: not part of the runs.
CONSTANTS
    a = a
    b = b
    c = c
    Ids = {a, b, c}
    Services = {a, b, c}
    Stacks <- FanStacks
    Proxies = {FALSE}
    DepWait = 1
    Budget = 1
    NoDep = NoDep
    NoOutcome = NoOutcome
    MaxActions = 1
    MaxFlaws = 1
    MaxBlind = 0
    MaxInterference = 0
    MaxElapsed = 0
    MaxSpins = 0
SPECIFICATION Spec
CHECK_DEADLOCK FALSE
PROPERTIES
    HealthyOrGivenUp
