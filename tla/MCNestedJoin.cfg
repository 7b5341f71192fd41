CONSTANTS
    NBlocks = 8
    Blocks <- MCBlocks
    START = 0
    Orders = {"ascending"}
    Modulus = 2
    Bodies <- NestedJoin
SPECIFICATION Spec
INVARIANT
    RightScope
