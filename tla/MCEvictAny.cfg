\* Files change at any time and everything overlaps; no I/O errors.
CONSTANTS
    Inode = {1, 2}
    Root = 1
    Ops = {"CREAT", "COMMIT", "LINK"}
    FailOps = {}
    MaxXid = 4
    Existing = {}
    WebEvents = {"/SNAP", "/EVICT"}
    MaxXidPerSegment = 5
    Forgets = {2}
    IOErrors = FALSE
    AtomicRead = TRUE
    Dirs = {1}
    Path <- OwnPath
    Above <- Flat
    NoInode = NoInode
    WriteOnce = FALSE
    Overlap = {"snapshot", "read", "reload"}
SPECIFICATION EvictSpec
INVARIANTS
    EvictTypeOK
    
CHECK_DEADLOCK FALSE
