SPECIFICATION FairSpec
CONSTANTS
    Mounts = {m1, m2}
    Paths = {p1, p2}
    Key <- CollidingKey
    Handles = {1}
    NBlocks = 2
    MaxVersion = 0
    MaxFds = 2
    ScpMayFail = TRUE
    NoFile = NoFile
    NoPath = NoPath
CHECK_DEADLOCK FALSE
INVARIANT
    TypeOK
PROPERTY
    ClosedIsReleased
