CONSTANTS
    NBlocks = 4
    Blocks <- MCBlocks
    START = 0
    Orders = {"ascending"}
    Modulus = 2
    Bodies <- WeakReference
SPECIFICATION Spec
INVARIANT
    Sound
