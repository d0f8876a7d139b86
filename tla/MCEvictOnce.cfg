\* Files are written once, and eviction runs while nothing else does.
CONSTANTS
    Inode = {1, 2}
    Root = 1
    Ops = {"SETATTR", "COMMIT", "LINK"}
    FailOps = {}
    MaxXid = 4
    Existing = {2}
    WebEvents = {"/SNAP", "/EVICT"}
    MaxXidPerSegment = 5
    Forgets = {}
    IOErrors = FALSE
    AtomicRead = TRUE
    Dirs = {1}
    Path <- OwnPath
    Above <- Flat
    NoInode = NoInode
    WriteOnce = TRUE
    Overlap = {}
SPECIFICATION EvictSpec
INVARIANTS
    NothingLost
    ReadsLastWrite
CHECK_DEADLOCK FALSE
