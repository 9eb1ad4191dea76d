\* Every dependency relation of three services, and stacks with healthchecks,
\* one-shots, a shared namespace and a member that never starts.
CONSTANTS
    a = a
    b = b
    c = c
    Ids = {a, b, c}
    Services = {a, b, c}
    Stacks <- AllStacks
    Proxies = {TRUE, FALSE}
    DepWait = 1
    Budget = 2
    NoDep = NoDep
    NoOutcome = NoOutcome
    MaxActions = 1
    MaxFlaws = 1
    MaxBlind = 1
    MaxInterference = 1
    MaxElapsed = 0
    MaxSpins = 0
SPECIFICATION Live
CHECK_DEADLOCK FALSE
INVARIANTS
    TypeOK
PROPERTIES
    DependencyOrder
    OutcomeHonest
    HealthyFirst
    Terminates
