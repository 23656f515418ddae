SPECIFICATION FairSpec
CONSTANTS
    Clients = {c1}
    Ops <- AllCalls
    NoOp = NoOp
    MaxCalls = 2
    MaxLost = 1
    Lossy <- LossyCalls
    MaxRestarts = 0
    LargeDirs = TRUE
CHECK_DEADLOCK FALSE
INVARIANT
    TypeOK
PROPERTIES
    ImplementsAtomicCall
    EveryCallReturns
