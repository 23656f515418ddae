SPECIFICATION FairSpec
CONSTANTS
    PageSize = 2
    MaxAddr = 23
    Segments <- SimpleExeSegments
    FileBytes <- SmallFile
    Values <- SmallValues
    Prefetch = 3
    Threshold = 12
    Accesses <- HpagerAccesses
    NoAccess = NoAccess
    Efault = Efault
    PreadMayFail = TRUE
    MaxTotal = 60
CHECK_DEADLOCK FALSE
INVARIANTS
    TotalIsBounded
PROPERTIES
    LossIsPrefetch
    PrefetchHarmless
    WellBehavedCompletes
