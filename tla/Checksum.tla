------------------------------- MODULE Checksum -------------------------------
(***************************************************************************)
(* The UDP checksum of a datagram on its way: computed by the sender        *)
(* (checksum.c, tx.c), corrected by every router that writes another        *)
(* destination into the IP header (m2u and md_data_fwd of the kernel        *)
(* patch), verified by the receiver.                                        *)
(*                                                                          *)
(* What bytes add up to is a parameter: the correction must work for any    *)
(* addresses and data.  NetChecksum has the sums for TLC.                   *)
(***************************************************************************)
EXTENDS Integers, Sequences

CONSTANTS Addr,          \* IPv6 addresses
          Data,          \* UDP datagrams with checksum 0
          add,           \* net_checksum_add of addresses and data
          length,        \* the length of a datagram
          Interface,     \* what getifaddrs returns for the bind interface, see Entry
          Bind,          \* the source addresses the kernel may choose
          Any,           \* the address ::
          MaxRewrites    \* bound on the rewrites by routers

Entry == [addr : Addr, local : BOOLEAN]

\* uint16_t
U16 == {x \in Nat : x <= 65535}

\* Sums of whole datagrams stay far below the 32 bits of the code.
ASSUME SumAssumption ==
    /\ add \in [Addr \cup Data -> Nat]
    /\ \A b \in Addr \cup Data : add[b] <= 268435456
    /\ length \in [Data -> U16]
    /\ Interface \in Seq(Entry)
    /\ Bind \subseteq Addr
    /\ Any \in Addr
    /\ MaxRewrites \in Nat

IPPROTO_UDP == 17
-----------------------------------------------------------------------------
\* The loop of net_checksum_finish for 32 bits: twice is enough.
fold(sum) == (sum % 65536) + (sum \div 65536)

net_checksum_finish(sum) == 65535 - fold(fold(sum))

\* The checksum of data from src to dst.
net_checksum_tcpudp(src, dst, data) ==
    net_checksum_finish(add[data] + add[src] + add[dst] + IPPROTO_UDP + length[data])

\* get_sa: the last address of the interface that is not of a local scope; bia is
\* static and stays 0 if there is none.
get_sa ==
    LET global == SelectSeq(Interface, LAMBDA e : ~e.local)
    IN  IF global = <<>> THEN Any ELSE global[Len(global)].addr

\* What the sums of csum_partial, csum_sub and csum_fold in the kernel may give for
\* x: it is only fixed modulo 2^16 - 1, and zero has two forms.
csum(x) == {r \in {x % 65535, 65535} : r = x % 65535 \/ x % 65535 = 0}

-----------------------------------------------------------------------------
VARIABLES pkts,      \* the packet on its way, if any: src, dst, data, check
          rewrites   \* how many routers have changed it

vars == <<pkts, rewrites>>

Packet == [src : Addr, dst : Addr, data : Data, check : U16]

TypeOK == pkts \subseteq Packet /\ rewrites \in 0 .. MaxRewrites

Init == pkts = {} /\ rewrites = 0

\* tx_uni: the datagram keeps the source address it was read with.
tx_uni(src, dst, data) ==
    /\ pkts = {}
    /\ pkts' = {[src |-> src, dst |-> dst, data |-> data,
                 check |-> net_checksum_tcpudp(src, dst, data)]}
    /\ UNCHANGED rewrites

\* tx_mdc: the kernel sets the source address of the packet, and the checksum is
\* computed for the one that get_sa found.
tx_mdc(src, dst, data) ==
    /\ pkts = {}
    /\ pkts' = {[src |-> src, dst |-> dst, data |-> data,
                 check |-> net_checksum_tcpudp(get_sa, dst, data)]}
    /\ UNCHANGED rewrites

CSUM_MANGLED_0 == 65535

\* Definitions named after another one, with a suffix, are that definition with a
\* slip a programmer could make; no specification uses them.
Corrected_without_mangling(check, old, new) ==
    {65535 - r : r \in csum(add[new] + (65535 - check) - add[old])}

Corrected_swapped(check, old, new) ==
    {65535 - r : r \in csum(add[old] + (65535 - check) - add[new]) \ {65535}}

\* The checksum for destination new instead of old.
Corrected(check, old, new) ==
    {IF r = 65535 THEN CSUM_MANGLED_0 ELSE 65535 - r :
        r \in csum(add[new] + (65535 - check) - add[old])}

\* m2u, and md_data_fwd where it forwards as MEADcast.
Rewrite(dst) ==
    /\ rewrites < MaxRewrites
    /\ rewrites' = rewrites + 1
    /\ \E p \in pkts : \E c \in Corrected(p.check, p.dst, dst) :
          pkts' = {[src |-> p.src, dst |-> dst, data |-> p.data, check |-> c]}

\* The packet reaches its destination.
Arrived == rewrites = MaxRewrites /\ UNCHANGED vars

Next ==
    \/ \E dst \in Addr, data \in Data :
          \/ \E src \in Addr : tx_uni(src, dst, data)
          \/ \E src \in Bind : tx_mdc(src, dst, data)
    \/ \E dst \in Addr : Rewrite(dst)
    \/ Arrived

Spec == Init /\ [][Next]_vars
-----------------------------------------------------------------------------
\* Properties.

\* What the receiver adds up, the checksum included.
Total(p) == add[p.data] + add[p.src] + add[p.dst] + IPPROTO_UDP + length[p.data]
            + p.check

\* The receiver finds the checksum right, whichever routers have changed the
\* destination on the way, in whichever order.
Verifies == \A p \in pkts : net_checksum_finish(Total(p)) = 0

\* A router never makes a checksum 0, which for UDP over IPv6 means `none'.
RouterKeepsChecksum == rewrites > 0 => \A p \in pkts : p.check # 0
=============================================================================
