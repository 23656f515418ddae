SPECIFICATION Spec
CONSTANTS
    i1 = i1
    i2 = i2
    h1 = h1
    h2 = h2
    Systems = {"bbfs", "netfs"}
    Paths <- TwoLevels
    SecretNames = {"s1", "s2"}
    Inodes = {"root", i1, i2}
    Handles = {h1, h2}
    Streams = {"d1"}
    Data = {"x"}
    Kinds = {"file", "fifo"}
    MaxFds = 2
    None = None
SYMMETRY Interchangeable
VIEW ButTheAnswer
CHECK_DEADLOCK FALSE
INVARIANTS
    TypeOK
    DescriptorsInUse
PROPERTY
    ImplementsPosixFiles
