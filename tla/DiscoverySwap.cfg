SPECIFICATION Spec
CONSTANTS
    l1 = l1  l2 = l2
    A = A  B = B  C = C 
    Leaf = {l1, l2}
    Router = {A, B}
    Root = Root
    Null = Null
    Routes <- SwappedPlaces
    HopMod = 64
    MinLeafs = 2
    MinRouters = 1
INVARIANT
    EveryReceiverServed
