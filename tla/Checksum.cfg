SPECIFICATION Spec
CONSTANTS
    Addr <- MCAddr
    Data <- MCData
    add <- MCAdd
    length <- MCLength
    Interface <- MCInterface
    Bind <- MCBind
    Any <- MCAny
    MaxRewrites = 3
INVARIANTS Verifies RouterKeepsChecksum VerifiesByWords
