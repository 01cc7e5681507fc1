SPECIFICATION DGSpec
CONSTANTS
    l1 = l1  l2 = l2
    A = A  B = B  C = C
    Leaf = {l1, l2}
    Router = {A, B, C}
    Root = Root
    Null = Null
    Routes <- Moving
    HopMod = 64
    MinLeafs = 1
    MinRouters = 1
    Trees = {}
    Args <- MovingArgs
INVARIANTS
    GroupingInput
    CommonAncestor
PROPERTIES
    ImplementsDiscovery
    PhaseEnds
