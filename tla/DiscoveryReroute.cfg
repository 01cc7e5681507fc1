SPECIFICATION Spec
CONSTANTS
    l1 = l1  l2 = l2
    A = A  B = B  C = C 
    Leaf = {l1, l2}
    Router = {A, B, C}
    Root = Root
    Null = Null
    Routes <- SameDistance
    HopMod = 64
    MinLeafs = 2
    MinRouters = 1
INVARIANTS
    TypeOK
    NoDangling
    ClimbStaysInTree
    ListsMatchParents
    FreeBeforeGrouping
    NoReceiverLost
    EveryReceiverServed
