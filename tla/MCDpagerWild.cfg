SPECIFICATION Spec
CONSTANTS
    PageSize = 2
    MaxAddr = 23
    Segments <- SimpleExeSegments
    FileBytes <- SmallFile
    Values <- SmallValues
    Prefetch = 1
    Threshold = 12
    Accesses <- WildAccesses
    NoAccess = NoAccess
    Efault = Efault
    PreadMayFail = FALSE
    MaxTotal = 60
CHECK_DEADLOCK FALSE
INVARIANTS
    TextIntact
    PagesOwned
PROPERTIES
    ImplementsLoadedImage
    NoStoreLost
