\* Files are changed again after they were tiered out.
CONSTANTS
    Inode = {1, 2}
    Root = 1
    Ops = {"CREAT", "COMMIT"}
    FailOps = {}
    MaxXid = 4
    Existing = {}
    WebEvents = {"/SNAP", "/EVICT"}
    MaxXidPerSegment = 5
    Forgets = {}
    IOErrors = FALSE
    AtomicRead = TRUE
    Dirs = {1}
    Path <- OwnPath
    Above <- Flat
    NoInode = NoInode
    WriteOnce = FALSE
    Overlap = {}
SPECIFICATION EvictSpec
INVARIANT
    NothingLost
CHECK_DEADLOCK FALSE
