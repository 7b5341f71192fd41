CONSTANTS
    Err = Err
    Res <- MCRes
    Params <- MCParams
    Requires <- MCRequires
    Args <- MCArgs
    Ensures <- MCEnsures
    Rets <- MCRets
    CallerEnv <- MCCallerEnv
    Actuals <- MCActuals
    Destination <- MCDestination
    MaxItems = 4
    MaxDepth = 1
SPECIFICATION Spec
INVARIANTS
    TypeOK
    AcceptedIsWellFormed
    CallsLower
    EnvClosed
CHECK_DEADLOCK FALSE
