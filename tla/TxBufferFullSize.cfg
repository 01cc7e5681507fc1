SPECIFICATION Spec
CONSTANTS
    Mtu = 1500
    MaxAddrs = 10
    NRcvr = 1
    Packets <- MCFullSize
    Groups <- MCGroups
INVARIANT WholePacket
