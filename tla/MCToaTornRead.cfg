\* Append gets between the two loads of Read.
CONSTANTS
    Inode = {1, 2}
    Root = 1
    Ops = {"COMMIT"}
    FailOps = {}
    MaxXid = 5
    Dirs = {1}
    Path <- OwnPath
    Above <- Flat
    Existing = {2}
    WebEvents = {"/SNAP", "/STOP"}
    MaxXidPerSegment = 2
    Forgets = {}
    IOErrors = FALSE
    AtomicRead = FALSE
SPECIFICATION Spec
INVARIANT TieredWasHanded
CHECK_DEADLOCK FALSE
