CONSTANTS
    NBlocks = 4
    Blocks <- MCBlocks
    START = 0
    Orders = {"ascending"}
    Modulus = 2
    Bodies <- MCBodies
SPECIFICATION Spec
INVARIANTS
    TypeOK
    NeverPanics
    ConstraintClosed
    DifferencesInferred
    Sound
PROPERTY
    ImplementsWalk
