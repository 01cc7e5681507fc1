---------------------------- MODULE ChecksumProofs ----------------------------
(***************************************************************************)
(* Correcting the checksum for another destination is right for all         *)
(* addresses and data, however often it is done.                            *)
(***************************************************************************)
EXTENDS Checksum, TLAPS

USE DEF IPPROTO_UDP, CSUM_MANGLED_0

\* Multiples of 2^16 - 1, which one's complement arithmetic takes for zero.
Times(k) == 65535 * k
Zero(x) == \E k \in Int : x = Times(k)

LEMMA ZeroIntro ==
    ASSUME NEW x, NEW k \in Int, x = Times(k)
    PROVE  Zero(x)
  BY SMT DEF Zero

LEMMA TimesSum ==
    ASSUME NEW a \in Int, NEW b \in Int
    PROVE  /\ Times(a) \in Int
           /\ Times(a) + Times(b) = Times(a + b) /\ Times(a) - Times(b) = Times(a - b)
  BY SMT DEF Times

LEMMA ZeroSum ==
    ASSUME NEW x \in Int, NEW y \in Int, Zero(x), Zero(y)
    PROVE  Zero(x + y) /\ Zero(x - y)
<1>1. PICK a \in Int, b \in Int : x = Times(a) /\ y = Times(b)
  BY SMT DEF Zero
<1>2. x + y = Times(a + b) /\ x - y = Times(a - b)
  BY <1>1, TimesSum, SMT
<1> QED
  BY <1>2, ZeroIntro, SMT

LEMMA ZeroOne == Zero(65535)
<1>1. 65535 = Times(1)
  BY SMT DEF Times
<1> QED
  BY <1>1, ZeroIntro, SMT

-----------------------------------------------------------------------------
\* Folding.

\* One turn of the loop of net_checksum_finish.
LEMMA FoldOnce ==
    ASSUME NEW s \in Nat
    PROVE  \E q \in Nat :
              /\ fold(s) \in Nat
              /\ fold(s) = s - Times(q)
              /\ s > 0 => fold(s) > 0
              /\ s <= 2147483647 => fold(s) <= 131070
              /\ s <= 131070 => fold(s) <= 65535
<1>1. PICK q \in Nat, r \in Nat : /\ q = s \div 65536 /\ r = s % 65536
                                  /\ r <= 65535 /\ s = 65536 * q + r
  BY SMT
<1>2. /\ fold(s) \in Nat
      /\ fold(s) = s - Times(q)
      /\ s > 0 => fold(s) > 0
      /\ s <= 2147483647 => fold(s) <= 131070
      /\ s <= 131070 => fold(s) <= 65535
  BY <1>1, SMT DEF fold, Times
<1> QED
  BY <1>2, SMT

\* The loop ends after two turns with 16 bits, and keeps the sum modulo 2^16 - 1.
LEMMA FoldTwice ==
    ASSUME NEW s \in Nat, s > 0, s <= 2147483647
    PROVE  /\ fold(fold(s)) \in Nat
           /\ fold(fold(s)) > 0 /\ fold(fold(s)) <= 65535
           /\ Zero(s - fold(fold(s)))
<1>1. PICK a \in Nat : /\ fold(s) \in Nat /\ fold(s) > 0 /\ fold(s) <= 131070
                       /\ fold(s) = s - Times(a)
  BY FoldOnce, SMT
<1>2. PICK t \in Nat : t = fold(s) /\ t > 0 /\ t <= 131070 /\ t = s - Times(a)
  BY <1>1, SMT
<1>3. PICK b \in Nat : /\ fold(t) \in Nat /\ fold(t) > 0 /\ fold(t) <= 65535
                       /\ fold(t) = t - Times(b)
  BY <1>2, FoldOnce, SMT
<1>4. fold(fold(s)) = fold(t)
  BY <1>2, SMT
<1>5. s - fold(t) = Times(a + b)
  BY <1>2, <1>3, SMT DEF Times
<1> QED
  BY <1>3, <1>4, <1>5, ZeroIntro, SMT

\* What csum leaves of x.
LEMMA CsumKeeps ==
    ASSUME NEW x \in Int, NEW r \in csum(x)
    PROVE  r \in Nat /\ r <= 65535 /\ Zero(x - r)
<1>1. PICK q \in Int, m \in Nat : m = x % 65535 /\ x = Times(q) + m /\ m <= 65534
  BY SMT DEF Times
<1>2. r = m \/ (r = 65535 /\ m = 0)
  BY <1>1, SMT DEF csum
<1>3. x - r = Times(q) \/ x - r = Times(q - 1)
  BY <1>1, <1>2, SMT DEF Times
<1>4. Zero(x - r)
  BY <1>3, ZeroIntro, SMT
<1> QED
  BY <1>1, <1>2, <1>4, SMT

-----------------------------------------------------------------------------
\* The inductive invariant: the receiver's sum is zero in one's complement.
Inv == /\ rewrites \in 0 .. MaxRewrites
       /\ pkts = {} => rewrites = 0
       /\ \A p \in pkts : p \in Packet /\ Zero(Total(p))

\* What the receiver adds up, without the checksum.
Rest(src, dst, data) == add[data] + add[src] + add[dst] + 17 + length[data]

LEMMA RestBounds ==
    ASSUME NEW src \in Addr, NEW dst \in Addr, NEW data \in Data
    PROVE  /\ Rest(src, dst, data) \in Nat
           /\ Rest(src, dst, data) > 0 /\ Rest(src, dst, data) <= 1000000000
<1>1. /\ add[data] \in Nat /\ add[src] \in Nat /\ add[dst] \in Nat
      /\ length[data] \in Nat /\ length[data] <= 65535
      /\ add[data] <= 268435456 /\ add[src] <= 268435456 /\ add[dst] <= 268435456
  BY SumAssumption, SMT DEF U16
<1> QED
  BY <1>1, SMT DEF Rest

\* The sender's checksum makes the sum zero.
LEMMA FinishRight ==
    ASSUME NEW s \in Nat, s > 0, s <= 2147483647
    PROVE  net_checksum_finish(s) \in U16 /\ Zero(s + net_checksum_finish(s))
<1>1. PICK f \in Nat : f = fold(fold(s)) /\ f <= 65535 /\ Zero(s - f)
  BY FoldTwice, SMT
<1>2. Zero((s - f) + 65535)
  BY <1>1, ZeroSum, ZeroOne, SMT
<1>3. s + (65535 - f) = (s - f) + 65535 /\ 65535 - f \in Nat /\ 65535 - f <= 65535
  BY <1>1, SMT
<1>4. net_checksum_finish(s) = 65535 - f
  BY <1>1, SMT DEF net_checksum_finish
<1> QED
  BY <1>2, <1>3, <1>4, SMT DEF U16

LEMMA SentRight ==
    ASSUME NEW src \in Addr, NEW dst \in Addr, NEW data \in Data
    PROVE  /\ net_checksum_tcpudp(src, dst, data) \in U16
           /\ Zero(Rest(src, dst, data) + net_checksum_tcpudp(src, dst, data))
<1>1. PICK s \in Nat : s = Rest(src, dst, data) /\ s > 0 /\ s <= 2147483647
  BY RestBounds, SMT
<1>2. net_checksum_tcpudp(src, dst, data) = net_checksum_finish(s)
  BY <1>1, SMT DEF net_checksum_tcpudp, Rest
<1> QED
  BY <1>1, <1>2, FinishRight, SMT

-----------------------------------------------------------------------------
\* The checksum of a packet is right and 16 bits long.
LEMMA PacketSum ==
    ASSUME NEW p \in Packet
    PROVE  /\ p.src \in Addr /\ p.dst \in Addr /\ p.data \in Data
           /\ p.check \in Nat /\ p.check <= 65535
           /\ Total(p) = Rest(p.src, p.dst, p.data) + p.check
  BY SMT DEF Packet, Total, Rest, U16

LEMMA InvInit == Init => Inv
  BY SumAssumption, SMT DEF Init, Inv

LEMMA InvSend ==
    ASSUME NEW src \in Addr, NEW dst \in Addr, NEW data \in Data, Inv,
           tx_uni(src, dst, data)
    PROVE  Inv'
<1> DEFINE p == [src |-> src, dst |-> dst, data |-> data,
                 check |-> net_checksum_tcpudp(src, dst, data)]
<1>1. pkts' = {p} /\ rewrites' = rewrites
  BY SMT DEF tx_uni
<1>2. p \in Packet
  BY SentRight, SMT DEF Packet
<1>3. Total(p) = Rest(src, dst, data) + net_checksum_tcpudp(src, dst, data)
  BY SMT DEF Total, Rest
<1>4. Zero(Total(p))
  BY <1>3, SentRight, SMT
<1> HIDE DEF p
<1> QED
  BY <1>1, <1>2, <1>4, SMT DEF Inv

LEMMA InvRewrite ==
    ASSUME NEW dst \in Addr, Inv, Rewrite(dst)
    PROVE  Inv' /\ \A p \in pkts' : p.check # 0
<1>1. PICK p \in pkts : \E c \in Corrected(p.check, p.dst, dst) :
        pkts' = {[src |-> p.src, dst |-> dst, data |-> p.data, check |-> c]}
  BY Zenon DEF Rewrite
<1>0. PICK c \in Corrected(p.check, p.dst, dst) :
        pkts' = {[src |-> p.src, dst |-> dst, data |-> p.data, check |-> c]}
  BY <1>1, Zenon
<1>2. p \in Packet /\ Zero(Total(p)) /\ rewrites' \in 0 .. MaxRewrites
  BY SumAssumption, SMT DEF Inv, Rewrite
<1>3. PICK r \in csum(add[dst] + (65535 - p.check) - add[p.dst]) :
        c = IF r = 65535 THEN 65535 ELSE 65535 - r
  BY <1>0, SMT DEF Corrected
<1> DEFINE rest == add[p.data] + add[p.src] + 17 + length[p.data]
<1>4. /\ add[p.data] \in Nat /\ add[p.src] \in Nat /\ length[p.data] \in Nat
      /\ p.check \in Nat /\ p.check <= 65535
  BY <1>2, PacketSum, SumAssumption, SMT DEF U16
<1>5. add[p.dst] \in Nat /\ add[dst] \in Nat
  BY <1>2, PacketSum, SumAssumption, SMT
<1>6. Total(p) = rest + add[p.dst] + p.check
  BY <1>4, <1>5, SMT DEF Total
<1>11. rest \in Int
  BY <1>4, SMT
<1> HIDE DEF rest
<1>7. c \in U16 /\ c # 0 /\ Zero(rest + add[dst] + c)
  <2>1. PICK x \in Int : x = add[dst] + (65535 - p.check) - add[p.dst]
    BY <1>4, <1>5, SMT
  <2>2. r \in Nat /\ r <= 65535 /\ Zero(x - r)
    BY <1>3, <2>1, CsumKeeps, SMT
  <2>3. c \in Nat /\ c <= 65535 /\ c # 0 /\ (c = 65535 - r \/ c = 65535 - r + 65535)
    BY <1>3, <2>2, SMT
  <2>4. PICK t \in Int : t = Total(p) /\ Zero(t) /\ t = rest + add[p.dst] + p.check
    BY <1>2, <1>4, <1>5, <1>6, <1>11, SMT
  <2>5. PICK y \in Int : y = x - r /\ Zero(y)
    BY <2>2, SMT
  <2>6. PICK z \in Int : z = t + y /\ Zero(z)
    BY <2>4, <2>5, ZeroSum, SMT
  <2>7. Zero(z + 65535)
    BY <2>6, ZeroSum, ZeroOne, SMT
  <2>8. \/ rest + add[dst] + c = z
        \/ rest + add[dst] + c = z + 65535
    BY <1>4, <1>5, <1>11, <2>1, <2>2, <2>3, <2>4, <2>5, <2>6, SMT
  <2> QED
    BY <2>3, <2>6, <2>7, <2>8, SMT DEF U16
<1> DEFINE n == [src |-> p.src, dst |-> dst, data |-> p.data, check |-> c]
<1>8. pkts' = {n}
  BY <1>0, SMT
<1>9. n \in Packet /\ n.check = c
  BY <1>2, <1>7, PacketSum, SMT DEF Packet
<1>10. Total(n) = rest + add[dst] + c
  <2>1. n.src = p.src /\ n.data = p.data /\ n.dst = dst /\ n.check = c
    BY SMT
  <2>2. c \in Nat
    BY <1>7, SMT DEF U16
  <2> QED
    BY <1>4, <1>5, <2>1, <2>2, SMT DEF Total, rest
<1> HIDE DEF n
<1> QED
  BY <1>2, <1>7, <1>8, <1>9, <1>10, SMT DEF Inv

\* If the kernel sends MEADcast packets from the address get_sa found, every step
\* keeps the invariant, and a rewritten packet has a checksum.
Strong == Inv /\ RouterKeepsChecksum

LEMMA StrongSend ==
    ASSUME NEW src \in Addr, NEW dst \in Addr, NEW data \in Data, Strong,
           tx_uni(src, dst, data)
    PROVE  Strong'
<1>1. rewrites = 0 /\ rewrites' = rewrites
  BY SMT DEF Strong, Inv, tx_uni
<1>2. Inv'
  BY InvSend DEF Strong
<1> QED
  BY <1>1, <1>2, SMT DEF Strong, RouterKeepsChecksum

LEMMA StrongNext ==
    ASSUME Bind \subseteq {get_sa}
    PROVE  Strong /\ [Next]_vars => Strong'
<1> SUFFICES ASSUME Strong, [Next]_vars PROVE Strong'
  OBVIOUS
<1>1. ASSUME NEW src \in Addr, NEW dst \in Addr, NEW data \in Data,
             tx_uni(src, dst, data)
      PROVE  Strong'
  BY <1>1, StrongSend
<1>2. ASSUME NEW src \in Bind, NEW dst \in Addr, NEW data \in Data,
             tx_mdc(src, dst, data)
      PROVE  Strong'
  <2>1. src = get_sa /\ src \in Addr
    BY <1>2, SumAssumption, SMT
  <2>2. tx_uni(src, dst, data)
    BY <1>2, <2>1, SMT DEF tx_mdc, tx_uni
  <2> QED
    BY <1>2, <2>1, <2>2, StrongSend
<1>3. ASSUME NEW dst \in Addr, Rewrite(dst) PROVE Strong'
  <2>1. Inv' /\ \A p \in pkts' : p.check # 0
    BY <1>3, InvRewrite DEF Strong
  <2> QED
    BY <2>1, SMT DEF Strong, RouterKeepsChecksum
<1>4. ASSUME UNCHANGED vars PROVE Strong'
  BY <1>4, SMT DEF Strong, Inv, RouterKeepsChecksum, vars
<1> QED
  BY <1>1, <1>2, <1>3, <1>4 DEF Next, Arrived

LEMMA StrongInit == Init => Strong
  BY InvInit, SMT DEF Init, Strong, RouterKeepsChecksum

\* A receiver finds the checksum right, for all addresses and data and however
\* often routers have changed the destination, if the sender computes it for the
\* address the packets have.
THEOREM ChecksumsVerify ==
    ASSUME Bind \subseteq {get_sa}
    PROVE  Spec => []Verifies
<1>1. Strong => Verifies
  <2> SUFFICES ASSUME Strong, NEW p \in pkts PROVE net_checksum_finish(Total(p)) = 0
    BY DEF Verifies
  <2>1. p \in Packet /\ Zero(Total(p))
    BY SMT DEF Strong, Inv
  <2>2. PICK t \in Nat : t = Total(p) /\ t > 0 /\ t <= 2147483647
    BY <2>1, PacketSum, RestBounds, SMT
  <2>3. PICK f \in Nat : f = fold(fold(t)) /\ f > 0 /\ f <= 65535 /\ Zero(t - f)
    BY <2>2, FoldTwice, SMT
  <2>4. Zero(f)
    <3>1. PICK d \in Int : d = t - f
      BY <2>2, <2>3, SMT
    <3>2. Zero(t) /\ Zero(d)
      BY <2>1, <2>2, <2>3, <3>1, SMT
    <3>3. t \in Int /\ t - d = f
      BY <3>1, SMT
    <3>4. Zero(t - d)
      BY <3>2, <3>3, ZeroSum, SMT
    <3> QED
      BY <3>3, <3>4, SMT
  <2>5. f = 65535
    <3>1. PICK k \in Int : f = Times(k)
      BY <2>4, SMT DEF Zero
    <3> QED
      BY <2>3, <3>1, SMT DEF Times
  <2> QED
    BY <2>2, <2>3, <2>5, SMT DEF net_checksum_finish
<1> QED
  BY <1>1, StrongInit, StrongNext, PTL DEF Spec

\* No router turns a checksum into 0, which would make IPv6 receivers drop the
\* datagram, not even where the sender itself sent 0.
THEOREM RoutersKeepChecksums ==
    ASSUME Bind \subseteq {get_sa}
    PROVE  Spec => []RouterKeepsChecksum
<1>1. Strong => RouterKeepsChecksum
  BY DEF Strong
<1> QED
  BY <1>1, StrongInit, StrongNext, PTL DEF Spec
=============================================================================
