CONSTANTS
    MaxSize = 4
    Elems <- MCElems
    Merge <- MCMerge
SPECIFICATION Spec
INVARIANTS
    TypeOK
    CyclesAreTrees
    DepthLogarithmic
PROPERTY
    ImplementsPartition
