\* The log under a writer whose handlers fail and leave gaps.
CONSTANTS
    Inode = {1, 2}
    Root = 1
    Ops = {"CREAT", "SETATTR", "RMDIR", "COMMIT"}
    FailOps = {"SETATTR"}
    MaxXid = 6
SPECIFICATION LogSpec
INVARIANTS
    LogInv
    ReadStopsAtLast
    ReadHasNoHole
CHECK_DEADLOCK FALSE
