\* A healthy session of the event stream.
CONSTANTS
    HostNames = {a}
    Configured = NoName
    NoName = NoName
    NoPayload = NoPayload
    MaxPub = 3
    MaxWire = 1
    MaxUpsets = 0
    MaxDenials = 0
SPECIFICATION Spec
CHECK_DEADLOCK FALSE
PROPERTIES
    EverySample
