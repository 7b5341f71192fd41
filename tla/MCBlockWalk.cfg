CONSTANTS
    NBlocks = 4
    Blocks <- MCBlocks
    START = 0
    Bodies <- MCBodies
SPECIFICATION FairSpec
INVARIANTS
    TypeOK
    BbEnvPresent
    ShapePresent
    CheckedOnce
    AllChecked
    LateJoinRetreats
PROPERTY
    Termination
