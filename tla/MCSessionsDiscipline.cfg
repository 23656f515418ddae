SPECIFICATION DisciplinedSpec
CONSTANTS
    Mounts = {m1, m2}
    Paths = {p1, p2}
    Key <- CollidingKey
    Handles = {1, 2}
    NBlocks = 2
    MaxVersion = 1
    MaxFds = 3
    ScpMayFail = FALSE
    NoFile = NoFile
    NoPath = NoPath
CHECK_DEADLOCK FALSE
PROPERTY
    ImplementsPlainFiles
SYMMETRY Alike
