SPECIFICATION Spec
CONSTANTS
    PageSize = 2
    MaxAddr = 18
    FileBytes <- SmallFile
    Executables <- SmallExecutables
    PhdrOffset = 1
    MaxErrors = 1
CHECK_DEADLOCK FALSE
INVARIANTS
    TypeOK
    SegmentsInPlace
    SegmentsProtected
    OnlySparePages
    LoaderSurvives
    HeadersFound
