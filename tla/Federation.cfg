\* Failures, restarts, a rename and a denial: what the page shows, and that it
\* catches up once they end.
CONSTANTS
    HostNames = {a, b}
    Configured = NoName
    NoName = NoName
    NoPayload = NoPayload
    MaxPub = 2
    MaxWire = 2
    MaxUpsets = 2
    MaxDenials = 1
SPECIFICATION Live
CHECK_DEADLOCK FALSE
INVARIANTS
    TypeOK
PROPERTIES
    ImplementsRelay
    CatchesUp
    MirrorsReadOnly
