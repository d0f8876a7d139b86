\* A snapshot runs while the eviction agent does.
CONSTANTS
    Inode = {1, 2}
    Root = 1
    Ops = {"COMMIT", "LINK"}
    FailOps = {}
    MaxXid = 4
    Existing = {2}
    WebEvents = {"/SNAP", "/EVICT"}
    MaxXidPerSegment = 5
    Forgets = {}
    IOErrors = FALSE
    AtomicRead = TRUE
    Dirs = {1}
    Path <- OwnPath
    Above <- Flat
    NoInode = NoInode
    WriteOnce = TRUE
    Overlap = {"snapshot"}
SPECIFICATION EvictSpec
INVARIANT
    NothingLost
CHECK_DEADLOCK FALSE
