------------------------------ MODULE MCChecksum ------------------------------
\* Instances of Checksum for TLC: addresses of two bytes, data of up to three.
EXTENDS Checksum, NetChecksum

MCBytes == {0, 1, 254, 255}
MCAny == <<0, 0>>
MCAddr == {MCAny, <<0, 1>>, <<127, 255>>, <<254, 237>>}
MCData == UNION {[1 .. k -> MCBytes] : k \in 1 .. 3}
MCAdd == [b \in MCAddr \cup MCData |-> net_checksum_add(b)]
MCLength == [d \in MCData |-> Len(d)]

MCInterface == <<[addr |-> <<0, 1>>, local |-> TRUE],
                 [addr |-> <<127, 255>>, local |-> FALSE]>>
MCBind == {<<127, 255>>}

\* The receiver's own arithmetic on words gives the same: the one's complement sum
\* of all words is 16 ones.
VerifiesByWords ==
    \A p \in pkts :
        LET sum == WordSum(p.data) + WordSum(p.src) + WordSum(p.dst)
                   + IPPROTO_UDP + Len(p.data) + p.check
        IN  sum > 0 /\ sum % 65535 = 0
=============================================================================
