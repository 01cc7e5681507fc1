SPECIFICATION GSpec
CONSTANTS
    MaxLeafs = 5
    Router <- Routers
    Root = 0
    Null = Null
    Trees <- TestTrees
    Args <- SmallArgs
INVARIANTS
    InBounds
    FreeExact
    SectionCovers
    KeptTogether
PROPERTY
    ImplementsPacking
