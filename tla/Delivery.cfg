SPECIFICATION Spec
CONSTANTS
    l1 = l1  l2 = l2  l3 = l3  l4 = l4
    A = A  B = B  C = C  N = N
    Leaf = {l1, l2, l3, l4}
    Router = {A, B, C, N}
    Capable = {A, B, C}
    Sender = Sender
    Null = Null
    MinDsts <- TestMinDsts
    Groups <- TestGroups
    Routings <- TwoRoutings
    Discovered <- Normal
    AppPort = 1
    PeerPort = 2
    Datagrams = 1
    MaxFaults = 1
INVARIANTS
    TypeOK
    AtMostOnce
    DeliveryMapTruthful
    ReceiversSeeUnicast
    ErrorCostsTail
PROPERTY
    EveryReceiverGets
