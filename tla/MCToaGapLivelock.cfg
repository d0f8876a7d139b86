\* Failed handlers leave gaps: can a snapshot still end?
CONSTANTS
    Inode = {1, 2}
    Root = 1
    Ops = {"SETATTR"}
    FailOps = {"SETATTR"}
    MaxXid = 5
    Dirs = {1}
    Path <- OwnPath
    Above <- Flat
    Existing = {}
    WebEvents = {"/SNAP", "/STOP"}
    MaxXidPerSegment = 2
    Forgets = {}
    IOErrors = FALSE
    AtomicRead = TRUE
SPECIFICATION FairSpec
PROPERTY GapsDoNoHarm
CHECK_DEADLOCK FALSE
