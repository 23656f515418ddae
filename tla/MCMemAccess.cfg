SPECIFICATION FairSpec
CONSTANTS
    Width = 64
    Size = 262144
    FlushSize = 131072
    Rounds = 60
    FlushRounds = 6
    MemPages <- SomePages
    MaxCompete = 60
    Garbage = Garbage
CHECK_DEADLOCK FALSE
INVARIANTS
    TypeOK
    NeverNegative
    
    PrintsTheWalk
PROPERTIES
    SweepsLeaveNoGap
    CompetitorStops
