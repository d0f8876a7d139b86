\* A file is unlinked while it is open and another created under its name.
CONSTANTS
    Inode = {1, 2, 3}
    Root = 1
    Ops = {"CREAT", "UNLINK", "COMMIT"}
    FailOps = {}
    MaxXid = 4
    Dirs = {1}
    Path <- Namesakes
    Above <- Flat
    Existing = {2}
    WebEvents = {"/SNAP"}
    MaxXidPerSegment = 5
    Forgets = {2}
    IOErrors = FALSE
    AtomicRead = TRUE
SPECIFICATION Spec
INVARIANT ListedIsCurrent
CHECK_DEADLOCK FALSE
