SPECIFICATION FairSpec
CONSTANTS
    PageSize = 2
    MaxAddr = 23
    Segments <- AlignedSegments
    FileBytes <- SmallFile
    Values <- SmallValues
    Prefetch = 1
    Threshold = 8
    Accesses <- AlignedAccesses
    NoAccess = NoAccess
    Efault = Efault
    PreadMayFail = FALSE
    MaxTotal = 60
CHECK_DEADLOCK FALSE
INVARIANTS
    TypeOK
    TotalIsResident
PROPERTIES
    ImplementsElfImage
    WellBehavedCompletes
