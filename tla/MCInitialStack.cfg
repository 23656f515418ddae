SPECIFICATION Spec
CONSTANTS
    CommandLines <- Lines
    Environments <- Envs
    AuxVectors <- Vectors
    Slash = 1
    StringBase = 1000
    CopyBase = 2000
    Entry = 3000
CHECK_DEADLOCK FALSE
INVARIANTS
    EnvironmentFound
    HeadersSurvive
    OtherStringsKept
    ExecFnWhole
