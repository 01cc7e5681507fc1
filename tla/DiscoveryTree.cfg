SPECIFICATION HSpec
CONSTANTS
    l1 = l1  l2 = l2  l3 = l3
    A = A  B = B  C = C  D = D
    Leaf = {l1, l2, l3}
    Router = {A, B, C, D}
    Root = Root
    Null = Null
    Routes <- TreeRouting
    HopMod = 5
    MinLeafs = 2
    MinRouters = 2
INVARIANTS
    Sound
    AttachedToDeepest
    Reduced
