\* A page with two sockets, over one bridge or two.  It may stop being used.
CONSTANTS
    Sockets = {1, 2}
    NoWs = NoWs
    NoFrame = NoFrame
    Buf = 1
    MaxFrames = 2
    MaxSizes = 1
    MaxUpsets = 1
    MaxHasty = 1
    MaxEvents = 2
SPECIFICATION Live
CHECK_DEADLOCK FALSE
INVARIANTS
    TypeOK
    PipesFaithful
    OneSession
PROPERTIES
    EndsTogether
    SizeSettles
