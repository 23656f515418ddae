SPECIFICATION Spec
CONSTANTS
    Clients = {c1, c2}
    Ops <- PathCalls
    NoOp = NoOp
    MaxCalls = 2
    MaxLost = 1
    Lossy <- PathCalls
    MaxRestarts = 1
    LargeDirs = FALSE
CHECK_DEADLOCK FALSE
SYMMETRY ClientSymmetry
INVARIANTS
    MixingShows
    AnswersToOwnDatagrams
