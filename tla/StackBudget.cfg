\* Two dependencies that never become healthy.
CONSTANTS
    a = a
    b = b
    c = c
    Ids = {a, b, c}
    Services = {a, b, c}
    Stacks <- FanStacks
    Proxies = {FALSE}
    DepWait = 3
    Budget = 3
    NoDep = NoDep
    NoOutcome = NoOutcome
    MaxActions = 1
    MaxFlaws = 0
    MaxBlind = 0
    MaxInterference = 0
    MaxElapsed = 6
    MaxSpins = 0
SPECIFICATION Spec
CHECK_DEADLOCK FALSE
INVARIANTS
    WithinBudget
