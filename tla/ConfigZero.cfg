\* What a file with a global interval of zero does to the hosts' tasks.
CONSTANTS
    u1 = u1
    p1 = p1
    p2 = p2
    t1 = t1
    h2 = h2
    Files <- MCFiles
    Flags <- MCFlags
    Pairs <- MCPairs
    Tokens = {t1, t2}
    HostHeaders = {"lan", "other"}
    PageHosts = {"local", h2}
    Unset = Unset
    Blank = Blank
    BadName = BadName
    NoConfig = NoConfig
    NoAuth = NoAuth
    NoSecret = NoSecret
    NoCookie = NoCookie
    NoRequest = NoRequest
    Never = Never
    TTL = 1
    MaxTime = 2
    MaxBoots = 2
    MaxEdits = 1
SPECIFICATION Spec
\* The user may be done and the program down.
CHECK_DEADLOCK FALSE
INVARIANT
    FeedersRun
