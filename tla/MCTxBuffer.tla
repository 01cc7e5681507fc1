------------------------------ MODULE MCTxBuffer ------------------------------
\* Instances of TxBuffer for TLC.
EXTENDS TxBuffer

udp(len) == [len |-> len, udp |-> TRUE]

\* An interface with the least MTU: the TUN device has it too, so that packets
\* may be longer than the buffer.  One packet fits exactly, one is empty and not
\* UDP.
MCPackets == {[len |-> IP, udp |-> FALSE], udp(buflen - PI), udp(MIN_IPV6_MTU)}

\* The default --max on Ethernet, and the longest packet of the TUN device.
MCFullSize == {udp(tif_mtu)}

\* Only unicast, as before the first discovery; both, with a header that has no
\* receiver, and one with as many addresses as allowed.
MCGroups ==
    {[uni |-> 2, mdc |-> <<>>],
     [uni |-> 1, mdc |-> <<2, 1, MaxAddrs>>]}
=============================================================================
