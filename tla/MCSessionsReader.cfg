SPECIFICATION Spec
CONSTANTS
    Mounts = {m1, m2}
    Paths = {p1}
    Key <- CollidingKey
    Handles = {1}
    NBlocks = 2
    MaxVersion = 1
    MaxFds = 2
    ScpMayFail = FALSE
    NoFile = NoFile
    NoPath = NoPath
CHECK_DEADLOCK FALSE
PROPERTY
    ReaderReleaseIsStub
