CONSTANTS
    NBlocks = 7
    Blocks <- MCBlocks
    START = 0
    Orders = {"ascending", "descending"}
    Modulus = 2
    Bodies <- MCBodies
SPECIFICATION Spec
INVARIANTS
    NeverPanics
    Sound
    AliasesTrue
    QueryFaithful
