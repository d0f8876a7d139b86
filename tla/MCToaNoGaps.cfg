\* Every xid taken is logged: the snapshot loop and the stop request.
CONSTANTS
    Inode = {1, 2}
    Root = 1
    Ops = {"CREAT", "SETATTR", "COMMIT"}
    FailOps = {}
    MaxXid = 4
    Dirs = {1}
    Path <- OwnPath
    Above <- Flat
    Existing = {}
    WebEvents = {"/SNAP", "/STOP"}
    MaxXidPerSegment = 1
    Forgets = {2}
    IOErrors = TRUE
    AtomicRead = TRUE
SPECIFICATION FairSpec
PROPERTIES
    SnapshotEnds
    StopHonoured
CHECK_DEADLOCK FALSE
