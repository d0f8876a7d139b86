\* Handlers fail and burn xids: what stays true across the gaps.
CONSTANTS
    Inode = {1, 2, 3}
    Root = 1
    Ops = {"CREAT", "SETATTR", "RMDIR"}
    FailOps = {"CREAT"}
    MaxXid = 4
    Dirs = {1, 3}
    Path <- OwnPath
    Above <- Nested
    Existing = {3}
    WebEvents = {"/SNAP"}
    MaxXidPerSegment = 1
    Forgets = {2, 3}
    IOErrors = FALSE
    AtomicRead = TRUE
SPECIFICATION Spec
INVARIANTS
    TypeOK
    TieredWasHanded
    TieredIsCurrent
    CurrentInv
PROPERTY
    ImplementsStore
CHECK_DEADLOCK FALSE
