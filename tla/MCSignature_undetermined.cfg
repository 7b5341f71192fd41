CONSTANTS
    Err = Err
    Res <- MCRes
    Params <- MCParams
    Requires <- MCRequires
    Args <- MCArgs
    Ensures <- MCEnsures
    Rets <- MCRets
    CallerEnv <- MCCallerEnv
    Actuals <- MCActuals
    Destination <- MCDestination
    MaxItems = 2
    MaxDepth = 1
SPECIFICATION Spec
INVARIANT
    UndeterminedIsReported
CHECK_DEADLOCK FALSE
