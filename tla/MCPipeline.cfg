CONSTANTS
    ItemFns = {f1, f2}
    TraitFns = {f3}
    BodilessFns = {}
    NoFn = NoFn
    MaxAttrs = 2
SPECIFICATION FairSpec
INVARIANTS
    TypeOK
    SuccessMeansVerified
    EveryFunctionJudged
PROPERTY
    Finishes
