\* Snapshots are requested whether or not there is anything new.
CONSTANTS
    Inode = {1, 2}
    Root = 1
    Ops = {"COMMIT"}
    FailOps = {}
    MaxXid = 5
    Dirs = {1}
    Path <- OwnPath
    Above <- Flat
    Existing = {2}
    WebEvents = {"/SNAP", "/STOP"}
    MaxXidPerSegment = 2
    Forgets = {}
    IOErrors = FALSE
    AtomicRead = TRUE
SPECIFICATION Spec
INVARIANT BatchNeverEmpty
CHECK_DEADLOCK FALSE
