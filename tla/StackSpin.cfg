\* A one-shot and a member that never starts.
CONSTANTS
    a = a
    b = b
    c = c
    Ids = {a, b, c}
    Services = {a, b, c}
    Stacks <- BrokenStacks
    Proxies = {FALSE}
    DepWait = 1
    Budget = 3
    NoDep = NoDep
    NoOutcome = NoOutcome
    MaxActions = 1
    MaxFlaws = 0
    MaxBlind = 0
    MaxInterference = 0
    MaxElapsed = 0
    MaxSpins = 4
SPECIFICATION Spec
CHECK_DEADLOCK FALSE
INVARIANTS
    NoSpin
