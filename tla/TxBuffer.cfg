SPECIFICATION Spec
CONSTANTS
    Mtu = 1280
    MaxAddrs = 10
    NRcvr = 2
    Packets <- MCPackets
    Groups <- MCGroups
INVARIANTS InBuffer RequestIntact UnicastIntact MeadcastIntact
