\* A node that is restarted under another name.
CONSTANTS
    HostNames = {a, b}
    Configured = NoName
    NoName = NoName
    NoPayload = NoPayload
    MaxPub = 1
    MaxWire = 1
    MaxUpsets = 1
    MaxDenials = 0
SPECIFICATION Spec
CHECK_DEADLOCK FALSE
INVARIANTS
    PollsOnlyOldNodes
