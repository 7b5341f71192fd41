CONSTANTS
    MaxNodes = 4
    MaxKVars = 1
    MaxCursors = 3
    MaxScopes = 2
SPECIFICATION Spec
INVARIANTS
    VarsMatchPath
    PointersValid
    ScopesNested
PROPERTY
    KVarInScope
