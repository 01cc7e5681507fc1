---------------------------- MODULE DataPlaneProofs ----------------------------
(***************************************************************************)
(* Theorems about the way of the data, for any number of receivers and      *)
(* routers, any groups grouping may publish, any number of datagrams, of    *)
(* changes of group and routing, and of errors.                             *)
(*                                                                          *)
(* A packet has a duty: the receivers it still has to reach.  What leaves a *)
(* router for a packet shares out its duty; that is shown once, for         *)
(* md_data_fwd, and every invariant here rests on it.                       *)
(***************************************************************************)
EXTENDS DataPlane, FiniteSetTheorems, WellFoundedInduction, TLAPS

Headers == UNION {{g.mdc[m] : m \in 1 .. Len(g.mdc)} : g \in Groups}

\* A packet has an id, its delivery map marks routers, and it is addressed to a
\* receiver it has to reach.
PacketOK(p) ==
    /\ p \in Packet
    /\ Len(p.id) >= 1
    /\ p.hdr # Null => p.dlvm \subseteq p.hdr.rtm
    /\ p.dst \in Duty(p)

Base ==
    /\ TypeOK
    /\ port \in {AppPort, PeerPort}
    /\ k >= 1
    /\ \A p \in flight \cup got : PacketOK(p)
    /\ \A p \in got : p.at \in Leaf

-----------------------------------------------------------------------------
\* Address lists.

\* A receiver has one place in a list, since it has one in the group.
LEMMA UniquePlace ==
    ASSUME NEW h \in Headers,
           NEW i \in 1 .. Len(h.addrs) - 1, NEW j \in 1 .. Len(h.addrs) - 1,
           At(h, i) \in Leaf, At(h, i) = At(h, j)
    PROVE  i = j
<1>0. PICK g \in Groups : \E m \in 1 .. Len(g.mdc) : h = g.mdc[m]
  BY DEF Headers
<1>1. PICK m \in 1 .. Len(g.mdc) : h = g.mdc[m]
  BY <1>0
<1>2. Len(h.addrs) \in Nat /\ Len(g.mdc) \in Nat
  BY <1>1, GroupsAssumption DEF HeaderOK
<1>3. i + 1 \in 1 .. Len(h.addrs) /\ j + 1 \in 1 .. Len(h.addrs) /\ m # 0
  BY <1>1, <1>2
<1>4. <<m, i + 1>> \in Places(g) /\ <<m, j + 1>> \in Places(g)
  BY <1>1, <1>3 DEF Places
<1>5. Member(g, <<m, i + 1>>) = At(h, i) /\ Member(g, <<m, j + 1>>) = At(h, j)
  BY <1>1, <1>3 DEF Member, At
<1>6. <<m, i + 1>> = <<m, j + 1>>
  BY <1>4, <1>5, GroupsAssumption
<1>7. QED  BY <1>2, <1>6

\* The section of a router starts with the receiver after it and holds receivers
\* only.
LEMMA SectionFacts ==
    ASSUME NEW h \in Headers, NEW i \in h.rtm
    PROVE  /\ h # Null
           /\ i \in 0 .. BITMAP_LIMIT - 1 /\ i \in Nat /\ At(h, i) \in Router
           /\ i + 1 \in Section(h, i)
           /\ \A j \in Section(h, i) :
                  /\ j \in 1 .. Len(h.addrs) - 1 /\ j \in Nat
                  /\ At(h, j) \in Leaf
<1>0. PICK g \in Groups : \E m \in 1 .. Len(g.mdc) : h = g.mdc[m]
  BY DEF Headers
<1>1. PICK m \in 1 .. Len(g.mdc) : h = g.mdc[m]
  BY <1>0
<1>2. HeaderOK(h)
  BY <1>1, GroupsAssumption
<1>3. Len(h.addrs) \in Nat /\ Len(h.addrs) <= BITMAP_LIMIT /\ h # Null
  BY <1>2 DEF HeaderOK
<1>4. i \in 0 .. Len(h.addrs) - 1 /\ At(h, i) \in Router
  BY <1>2 DEF HeaderOK
<1>5. i \in Nat /\ i \in 0 .. BITMAP_LIMIT - 1
  BY <1>3, <1>4 DEF BITMAP_LIMIT
<1>6. \A m2 \in h.rtm : m2 \in Nat
  BY <1>2, <1>3 DEF HeaderOK
<1>7. i + 1 \in Section(h, i)
  <2>1. i + 1 < Len(h.addrs) /\ i + 1 \notin h.rtm
    BY <1>2 DEF HeaderOK
  <2>2. i + 1 \in 1 .. Len(h.addrs) - 1
    BY <1>3, <1>5, <2>1
  <2>3. ASSUME NEW n \in h.rtm PROVE n <= i \/ i + 1 < n
    <3>1. n \in Nat /\ n # i + 1
      BY <1>6, <2>1
    <3>2. QED  BY <1>5, <3>1
  <2>4. QED  BY <1>5, <2>2, <2>3 DEF Section
<1>8. ASSUME NEW j \in Section(h, i)
      PROVE  j \in 1 .. Len(h.addrs) - 1 /\ j \in Nat /\ At(h, j) \in Leaf
  <2>1. j \in 1 .. Len(h.addrs) - 1 /\ i < j /\ \A n \in h.rtm : n <= i \/ j < n
    BY DEF Section
  <2>2. j \in Nat /\ j \in 0 .. Len(h.addrs) - 1 /\ j + 1 \in 1 .. Len(h.addrs)
    BY <1>3, <2>1
  <2>3. j \notin h.rtm
    BY <1>5, <2>1, <2>2
  <2>4. At(h, j) \notin Router
    BY <1>2, <2>2, <2>3 DEF HeaderOK
  <2>5. At(h, j) \in Leaf \cup Router
    BY <1>2, <2>2 DEF HeaderOK, At
  <2>6. QED  BY <2>1, <2>2, <2>4, <2>5
<1>9. QED  BY <1>3, <1>4, <1>5, <1>7, <1>8

\* No place is in the sections of two routers.
LEMMA SectionsDisjoint ==
    ASSUME NEW h \in Headers, NEW i \in h.rtm, NEW m \in h.rtm,
           NEW j \in Section(h, i), j \in Section(h, m)
    PROVE  i = m
<1>1. i \in Nat /\ m \in Nat /\ j \in Nat
  BY SectionFacts
<1>2. i < j /\ m < j /\ (m <= i \/ j < m) /\ (i <= m \/ j < i)
  BY DEF Section
<1>3. QED  BY <1>1, <1>2

-----------------------------------------------------------------------------
\* What leaves a router.

\* The fields of what set_dst sends on.
LEMMA OnwardFields ==
    ASSUME NEW p, NEW d, NEW id, NEW hdr, NEW dlvm
    PROVE  LET q == Onward(p, d, id, hdr, dlvm) IN
           /\ q.id = id /\ q.at = routing[p.at][d] /\ q.dst = d
           /\ q.hdr = hdr /\ q.dlvm = dlvm /\ q.port = p.port
BY DEF Onward

LEMMA OnwardType ==
    ASSUME TypeOK, NEW p \in Packet, p.at \in Router, NEW d \in Leaf, NEW id \in Seq(Nat),
           NEW hdr \in {Null} \cup Headers, NEW dlvm \in SUBSET (0 .. BITMAP_LIMIT - 1)
    PROVE  Onward(p, d, id, hdr, dlvm) \in Packet
<1>1. routing[p.at][d] \in Router \cup Leaf
  BY NetworkAssumption DEF TypeOK
<1>2. p.port \in {AppPort, PeerPort}
  BY DEF Packet
<1>3. QED  BY <1>1, <1>2 DEF Onward, Packet, Headers

\* The receivers in the section of the router at i.
Served(h, i) == {At(h, j) : j \in Section(h, i)}

\* The first component of an id names the datagram; copies append to it.
LEMMA IdGrows ==
    ASSUME NEW id \in Seq(Nat), Len(id) >= 1, NEW j \in Nat
    PROVE  /\ Append(id, j) \in Seq(Nat) /\ Len(Append(id, j)) >= 1
           /\ Append(id, j)[1] = id[1]
OBVIOUS

\* What a packet with a header still has to reach.
LEMMA HeaderDuty ==
    ASSUME NEW p, PacketOK(p), p.hdr # Null
    PROVE  /\ p.hdr \in Headers /\ Undelivered(p) = p.dlvm /\ p.dlvm \subseteq p.hdr.rtm
           /\ Duty(p) = UNION {Served(p.hdr, i) : i \in p.dlvm}
<1>1. p.hdr \in Headers
  BY DEF PacketOK, Packet, Headers
<1>2. Undelivered(p) = p.dlvm /\ p.dlvm \subseteq p.hdr.rtm
  BY DEF PacketOK, Undelivered
<1>3. QED  BY <1>1, <1>2 DEF Duty, Served

\* m2u: unicast to one receiver.
LEMMA UnicastCopy ==
    ASSUME TypeOK, NEW p, PacketOK(p), p.hdr # Null, p.at \in Router,
           NEW i \in p.dlvm, NEW j \in Section(p.hdr, i)
    PROVE  LET q == m2u(p, i, j) IN
           /\ PacketOK(q) /\ q.id[1] = p.id[1] /\ q.port = p.port
           /\ q.hdr = Null /\ q.dst = At(p.hdr, j) /\ Duty(q) = {At(p.hdr, j)}
<1> DEFINE id == IF IsLast(Undelivered(p), i) /\ IsLast(Section(p.hdr, i), j)
                 THEN p.id ELSE Append(p.id, j)
<1>1. /\ p \in Packet /\ p.id \in Seq(Nat) /\ Len(p.id) >= 1
      /\ p.hdr \in Headers /\ i \in p.hdr.rtm
  BY HeaderDuty DEF PacketOK, Packet
<1>2. At(p.hdr, j) \in Leaf /\ j \in Nat
  BY <1>1, SectionFacts
<1>3. id \in Seq(Nat) /\ Len(id) >= 1 /\ id[1] = p.id[1]
  BY <1>1, <1>2, IdGrows
<1>4. PICK q : q = m2u(p, i, j)
  OBVIOUS
<1>5. q = Onward(p, At(p.hdr, j), id, Null, {})
  BY <1>4 DEF m2u
<1> HIDE DEF id
<1>6. q \in Packet
  BY <1>1, <1>2, <1>3, <1>5, OnwardType
<1>7. q.id = id /\ q.dst = At(p.hdr, j) /\ q.hdr = Null /\ q.port = p.port
  BY <1>5, OnwardFields
<1>8. Duty(q) = {At(p.hdr, j)}
  BY <1>7 DEF Duty
<1>9. PacketOK(q)
  BY <1>3, <1>6, <1>7, <1>8 DEF PacketOK
<1>10. QED  BY <1>3, <1>4, <1>7, <1>8, <1>9

\* The packet for the router at i alone.
LEMMA ReplicaPacket ==
    ASSUME TypeOK, NEW p, PacketOK(p), p.hdr # Null, p.at \in Router, NEW i \in p.dlvm
    PROVE  LET q == Replica(p, i) IN
           /\ PacketOK(q) /\ q.id[1] = p.id[1] /\ q.port = p.port
           /\ q.hdr = p.hdr /\ q.dst = At(p.hdr, i + 1) /\ q.dlvm = {i}
           /\ q.at = routing[p.at][At(p.hdr, i + 1)]
           /\ Duty(q) = Served(p.hdr, i)
<1>1. /\ p \in Packet /\ p.id \in Seq(Nat) /\ Len(p.id) >= 1
      /\ p.hdr \in Headers /\ i \in p.hdr.rtm
  BY HeaderDuty DEF PacketOK, Packet
<1>2. /\ i \in Nat /\ i \in 0 .. BITMAP_LIMIT - 1
      /\ i + 1 \in Section(p.hdr, i) /\ At(p.hdr, i + 1) \in Leaf
  BY <1>1, SectionFacts
<1>3. /\ ReplicaId(p, i) \in Seq(Nat) /\ Len(ReplicaId(p, i)) >= 1
      /\ ReplicaId(p, i)[1] = p.id[1]
  BY <1>1, <1>2, IdGrows DEF ReplicaId
<1>4. PICK q : q = Replica(p, i)
  OBVIOUS
<1>5. q = Onward(p, At(p.hdr, i + 1), ReplicaId(p, i), p.hdr, {i})
  BY <1>4 DEF Replica
<1>6. q \in Packet
  <2>1. {i} \in SUBSET (0 .. BITMAP_LIMIT - 1)
    BY <1>2
  <2>2. QED  BY <1>1, <1>2, <1>3, <1>5, <2>1, OnwardType
<1>7. /\ q.id = ReplicaId(p, i) /\ q.dst = At(p.hdr, i + 1) /\ q.hdr = p.hdr
      /\ q.port = p.port /\ q.dlvm = {i} /\ q.at = routing[p.at][At(p.hdr, i + 1)]
  BY <1>5, OnwardFields
<1>8. Undelivered(q) = {i}
  BY <1>1, <1>7 DEF Undelivered
<1>9. Duty(q) = Served(p.hdr, i)
  BY <1>7, <1>8 DEF Duty, Served
<1>10. PacketOK(q)
  BY <1>1, <1>2, <1>3, <1>6, <1>7, <1>9 DEF PacketOK, Served
<1>11. QED  BY <1>3, <1>4, <1>7, <1>9, <1>10

\* ip6_forward, and what goes on after an error: the same duty, to the same address.
LEMMA ForwardedPacket ==
    ASSUME TypeOK, NEW p, PacketOK(p), p.at \in Router,
           NEW id \in Seq(Nat), Len(id) >= 1, id[1] = p.id[1]
    PROVE  LET q == Onward(p, p.dst, id, p.hdr, p.dlvm) IN
           /\ PacketOK(q) /\ q.id[1] = p.id[1] /\ q.port = p.port
           /\ q.hdr = p.hdr /\ q.dst = p.dst /\ q.dlvm = p.dlvm
           /\ q.at = routing[p.at][p.dst]
           /\ Duty(q) = Duty(p)
<1>1. /\ p \in Packet /\ p.dst \in Leaf /\ p.hdr \in {Null} \cup Headers
      /\ p.dlvm \in SUBSET (0 .. BITMAP_LIMIT - 1)
  BY DEF PacketOK, Packet, Headers
<1>2. PICK q : q = Onward(p, p.dst, id, p.hdr, p.dlvm)
  OBVIOUS
<1>3. q \in Packet
  BY <1>1, <1>2, OnwardType
<1>4. /\ q.id = id /\ q.at = routing[p.at][p.dst] /\ q.dst = p.dst
      /\ q.hdr = p.hdr /\ q.dlvm = p.dlvm /\ q.port = p.port
  BY <1>2, OnwardFields
<1>5. Duty(q) = Duty(p)
  BY <1>4 DEF Duty, Undelivered
<1>6. QED  BY <1>2, <1>3, <1>4, <1>5 DEF PacketOK

\* A set of packets that shares out some of the duty of p.
Shares(N, p) ==
    \A q \in N : /\ PacketOK(q)
                 /\ q.id[1] = p.id[1] /\ q.port = p.port
                 /\ Duty(q) \subseteq Duty(p)
Apart(N) == \A q, u \in N : Duty(q) \cap Duty(u) # {} => q = u

Leaving(p) == UNION {md_data_fwd(p, i) : i \in Undelivered(p)}

\* What md_data_fwd makes of the section of the router at i.
LEMMA FwdPacket ==
    ASSUME TypeOK, NEW p, PacketOK(p), p.hdr # Null, p.at \in Router,
           NEW i \in p.dlvm, NEW q \in md_data_fwd(p, i)
    PROVE  /\ PacketOK(q) /\ q.id[1] = p.id[1] /\ q.port = p.port
           /\ Duty(q) \subseteq Served(p.hdr, i)
           /\ \/ ~ConvertsHere(p, i) /\ q = Replica(p, i)
              \/ /\ ConvertsHere(p, i)
                 /\ \E j \in Section(p.hdr, i) : q = m2u(p, i, j) /\ Duty(q) = {At(p.hdr, j)}
<1>1. CASE ConvertsHere(p, i)
  <2>1. PICK j \in Section(p.hdr, i) : q = m2u(p, i, j)
    BY <1>1 DEF md_data_fwd
  <2>2. QED  BY <1>1, <2>1, UnicastCopy DEF Served
<1>2. CASE ~ConvertsHere(p, i)
  <2>1. q = Replica(p, i)
    BY <1>2 DEF md_data_fwd
  <2>2. QED  BY <1>2, <2>1, ReplicaPacket
<1>3. QED  BY <1>1, <1>2

\* md_data_rcv shares out the duty of p: nothing is left out, nothing is in two
\* packets.
LEMMA LeavingPackets ==
    ASSUME TypeOK, NEW p, PacketOK(p), p.hdr # Null, p.at \in Router
    PROVE  /\ Shares(Leaving(p), p) /\ Apart(Leaving(p))
           /\ \A l \in Duty(p) : \E q \in Leaving(p) : l \in Duty(q)
<1>1. /\ p.hdr \in Headers /\ Undelivered(p) = p.dlvm /\ p.dlvm \subseteq p.hdr.rtm
      /\ Duty(p) = UNION {Served(p.hdr, i) : i \in p.dlvm}
  BY HeaderDuty
<1>2. Shares(Leaving(p), p)
  <2> SUFFICES ASSUME NEW q \in Leaving(p)
               PROVE  /\ PacketOK(q) /\ q.id[1] = p.id[1] /\ q.port = p.port
                      /\ Duty(q) \subseteq Duty(p)
    BY DEF Shares
  <2>1. PICK i \in p.dlvm : q \in md_data_fwd(p, i)
    BY <1>1 DEF Leaving
  <2>2. /\ PacketOK(q) /\ q.id[1] = p.id[1] /\ q.port = p.port
        /\ Duty(q) \subseteq Served(p.hdr, i)
    BY <2>1, FwdPacket
  <2>3. Served(p.hdr, i) \subseteq Duty(p)
    BY <1>1
  <2>4. QED  BY <2>2, <2>3
<1>3. Apart(Leaving(p))
  <2> SUFFICES ASSUME NEW q \in Leaving(p), NEW u \in Leaving(p),
                      NEW l, l \in Duty(q), l \in Duty(u)
               PROVE  q = u
    BY DEF Apart
  <2>1. PICK i \in p.dlvm : q \in md_data_fwd(p, i)
    BY <1>1 DEF Leaving
  <2>2. PICK m \in p.dlvm : u \in md_data_fwd(p, m)
    BY <1>1 DEF Leaving
  <2>3. PICK j \in Section(p.hdr, i) : l = At(p.hdr, j)
    BY <2>1, FwdPacket DEF Served
  <2>4. PICK n \in Section(p.hdr, m) : l = At(p.hdr, n)
    BY <2>2, FwdPacket DEF Served
  <2>5. i \in p.hdr.rtm /\ m \in p.hdr.rtm
    BY <1>1
  <2>6. /\ At(p.hdr, j) \in Leaf
        /\ j \in 1 .. Len(p.hdr.addrs) - 1 /\ n \in 1 .. Len(p.hdr.addrs) - 1
    BY <1>1, <2>3, <2>4, <2>5, SectionFacts
  <2>7. j = n
    BY <1>1, <2>3, <2>4, <2>6, UniquePlace
  <2>8. i = m
    BY <1>1, <2>5, <2>7, SectionsDisjoint
  <2>9. CASE ~ConvertsHere(p, i)
    BY <2>1, <2>2, <2>8, <2>9, FwdPacket
  <2>10. CASE ConvertsHere(p, i)
    <3>1. PICK a \in Section(p.hdr, i) : q = m2u(p, i, a) /\ Duty(q) = {At(p.hdr, a)}
      BY <2>1, <2>10, FwdPacket
    <3>2. PICK b \in Section(p.hdr, i) : u = m2u(p, i, b) /\ Duty(u) = {At(p.hdr, b)}
      BY <2>2, <2>8, <2>10, FwdPacket
    <3>3. /\ At(p.hdr, a) \in Leaf /\ At(p.hdr, a) = At(p.hdr, b)
          /\ a \in 1 .. Len(p.hdr.addrs) - 1 /\ b \in 1 .. Len(p.hdr.addrs) - 1
      BY <1>1, <2>5, <3>1, <3>2, SectionFacts
    <3>4. a = b
      BY <1>1, <3>3, UniquePlace
    <3>5. QED  BY <3>1, <3>2, <3>4
  <2>11. QED  BY <2>9, <2>10
<1>4. ASSUME NEW l \in Duty(p) PROVE \E q \in Leaving(p) : l \in Duty(q)
  <2>1. PICK i \in p.dlvm : l \in Served(p.hdr, i)
    BY <1>1
  <2>2. PICK j \in Section(p.hdr, i) : l = At(p.hdr, j)
    BY <2>1 DEF Served
  <2>3. CASE ConvertsHere(p, i)
    <3>1. m2u(p, i, j) \in md_data_fwd(p, i)
      BY <2>2, <2>3 DEF md_data_fwd
    <3>2. l \in Duty(m2u(p, i, j))
      BY <2>2, UnicastCopy
    <3>3. QED  BY <1>1, <3>1, <3>2 DEF Leaving
  <2>4. CASE ~ConvertsHere(p, i)
    <3>1. Replica(p, i) \in md_data_fwd(p, i)
      BY <2>4 DEF md_data_fwd
    <3>2. l \in Duty(Replica(p, i))
      BY <2>1, ReplicaPacket
    <3>3. QED  BY <1>1, <3>1, <3>2 DEF Leaving
  <2>5. QED  BY <2>3, <2>4
<1>5. QED  BY <1>2, <1>3, <1>4

-----------------------------------------------------------------------------
\* The lists of a group.

LEMMA OnePlace ==
    ASSUME NEW g \in Groups, NEW x \in Places(g), NEW y \in Places(g),
           Member(g, x) \in Leaf, Member(g, x) = Member(g, y)
    PROVE  x = y
BY GroupsAssumption

\* The places of the receivers of tx_uni and tx_mdc.
LEMMA ListPlaces ==
    ASSUME NEW g \in Groups
    PROVE  /\ Len(g.uni) \in Nat /\ Len(g.mdc) \in Nat
           /\ \A i \in 1 .. Len(g.uni) :
                 /\ g.uni[i] \in Leaf
                 /\ <<0, i>> \in Places(g) /\ Member(g, <<0, i>>) = g.uni[i]
           /\ \A m \in 1 .. Len(g.mdc) :
                 /\ g.mdc[m] \in Headers /\ 0 \in g.mdc[m].rtm
                 /\ \A j \in 1 .. Len(g.mdc[m].addrs) - 1 :
                       /\ At(g.mdc[m], j) \in Leaf \cup Router
                       /\ <<m, j + 1>> \in Places(g)
                       /\ Member(g, <<m, j + 1>>) = At(g.mdc[m], j)
<1>1. g.uni \in Seq(Leaf) /\ Len(g.mdc) \in Nat
  BY GroupsAssumption
<1>2. ASSUME NEW i \in 1 .. Len(g.uni)
      PROVE  /\ g.uni[i] \in Leaf
             /\ <<0, i>> \in Places(g) /\ Member(g, <<0, i>>) = g.uni[i]
  BY <1>1 DEF Places, Member
<1>3. ASSUME NEW m \in 1 .. Len(g.mdc)
      PROVE  /\ g.mdc[m] \in Headers /\ 0 \in g.mdc[m].rtm
             /\ \A j \in 1 .. Len(g.mdc[m].addrs) - 1 :
                   /\ At(g.mdc[m], j) \in Leaf \cup Router
                   /\ <<m, j + 1>> \in Places(g)
                   /\ Member(g, <<m, j + 1>>) = At(g.mdc[m], j)
  <2>1. HeaderOK(g.mdc[m])
    BY GroupsAssumption
  <2>2. /\ 0 \in g.mdc[m].rtm /\ g.mdc[m].addrs \in Seq(Leaf \cup Router)
        /\ Len(g.mdc[m].addrs) \in Nat
    BY <2>1 DEF HeaderOK
  <2>3. g.mdc[m] \in Headers
    BY DEF Headers
  <2>4. ASSUME NEW j \in 1 .. Len(g.mdc[m].addrs) - 1
        PROVE  /\ At(g.mdc[m], j) \in Leaf \cup Router
               /\ <<m, j + 1>> \in Places(g)
               /\ Member(g, <<m, j + 1>>) = At(g.mdc[m], j)
    <3>1. j + 1 \in 1 .. Len(g.mdc[m].addrs) /\ m # 0
      BY <1>1, <2>2
    <3>2. At(g.mdc[m], j) \in Leaf \cup Router
      BY <2>2, <3>1 DEF At
    <3>3. QED  BY <3>1, <3>2 DEF Places, Member, At
  <2>5. QED  BY <2>2, <2>3, <2>4
<1>4. QED  BY <1>1, <1>2, <1>3

\* The receivers of one header, and where they are in their group.
InHeader(h) == {At(h, j) : j \in 1 .. Len(h.addrs) - 1} \ Router

LEMMA HeaderPlaces ==
    ASSUME NEW g \in Groups, NEW m \in 1 .. Len(g.mdc), NEW l \in InHeader(g.mdc[m])
    PROVE  l \in Leaf /\ \E j \in Nat : <<m, j>> \in Places(g) /\ Member(g, <<m, j>>) = l
<1>1. PICK j \in 1 .. Len(g.mdc[m].addrs) - 1 : l = At(g.mdc[m], j)
  BY DEF InHeader
<1>2. l \in Leaf /\ <<m, j + 1>> \in Places(g) /\ Member(g, <<m, j + 1>>) = l
  BY <1>1, ListPlaces DEF InHeader
<1>3. j + 1 \in Nat
  OBVIOUS
<1>4. QED  BY <1>2, <1>3

\* No receiver is in both lists, or in the list of the headers twice.
LEMMA UniMdcDisjoint ==
    ASSUME NEW g \in Groups, NEW i \in 1 .. Len(g.uni), NEW m \in 1 .. Len(g.mdc)
    PROVE  g.uni[i] \notin InHeader(g.mdc[m])
<1> SUFFICES ASSUME g.uni[i] \in InHeader(g.mdc[m]) PROVE FALSE
  OBVIOUS
<1>1. /\ g.uni[i] \in Leaf /\ <<0, i>> \in Places(g)
      /\ Member(g, <<0, i>>) = g.uni[i] /\ Len(g.mdc) \in Nat
  BY ListPlaces
<1>2. PICK j \in Nat : <<m, j>> \in Places(g) /\ Member(g, <<m, j>>) = g.uni[i]
  BY HeaderPlaces
<1>3. <<0, i>> = <<m, j>>
  BY <1>1, <1>2, OnePlace
<1>4. QED  BY <1>1, <1>3

LEMMA HeadersDisjoint ==
    ASSUME NEW g \in Groups, NEW m \in 1 .. Len(g.mdc), NEW n \in 1 .. Len(g.mdc),
           NEW l \in InHeader(g.mdc[m]), l \in InHeader(g.mdc[n])
    PROVE  m = n
<1>1. PICK i \in Nat : l \in Leaf /\ <<m, i>> \in Places(g) /\ Member(g, <<m, i>>) = l
  BY HeaderPlaces
<1>2. PICK j \in Nat : <<n, j>> \in Places(g) /\ Member(g, <<n, j>>) = l
  BY HeaderPlaces
<1>3. <<m, i>> = <<n, j>>
  BY <1>1, <1>2, OnePlace
<1>4. QED  BY <1>3

LEMMA UniDistinct ==
    ASSUME NEW g \in Groups, NEW i \in 1 .. Len(g.uni), NEW j \in 1 .. Len(g.uni),
           g.uni[i] = g.uni[j]
    PROVE  i = j
<1>1. /\ g.uni[i] \in Leaf
      /\ <<0, i>> \in Places(g) /\ Member(g, <<0, i>>) = g.uni[i]
      /\ <<0, j>> \in Places(g) /\ Member(g, <<0, j>>) = g.uni[j]
  BY ListPlaces
<1>2. <<0, i>> = <<0, j>>
  BY <1>1, OnePlace
<1>3. QED  BY <1>2

\* One turn of tx_uni, and of tx_mdc, takes the first entry off the rest of its list.
LEMMA UniRest ==
    ASSUME NEW g \in Groups, NEW m \in 1 .. Len(g.uni)
    PROVE  /\ g.uni[m] \in Leaf /\ m \in Nat /\ m + 1 \in Nat
           /\ UniFrom(g, m) = UniFrom(g, m + 1) \cup {g.uni[m]}
           /\ g.uni[m] \notin UniFrom(g, m + 1)
<1>1. Len(g.uni) \in Nat /\ g.uni[m] \in Leaf
  BY ListPlaces
<1>2. UniFrom(g, m) = UniFrom(g, m + 1) \cup {g.uni[m]}
  <2>1. m .. Len(g.uni) = (m + 1 .. Len(g.uni)) \cup {m}
    BY <1>1
  <2>2. QED  BY <2>1 DEF UniFrom
<1>3. g.uni[m] \notin UniFrom(g, m + 1)
  <2> SUFFICES ASSUME NEW i \in m + 1 .. Len(g.uni), g.uni[i] = g.uni[m] PROVE FALSE
    BY DEF UniFrom
  <2>1. i \in 1 .. Len(g.uni) /\ i # m
    BY <1>1
  <2>2. QED  BY <2>1, UniDistinct
<1>4. QED  BY <1>1, <1>2, <1>3

LEMMA MdcRest ==
    ASSUME NEW g \in Groups, NEW m \in 1 .. Len(g.mdc)
    PROVE  /\ m \in Nat /\ m + 1 \in Nat
           /\ MdcFrom(g, m) = MdcFrom(g, m + 1) \cup InHeader(g.mdc[m])
           /\ InHeader(g.mdc[m]) \cap MdcFrom(g, m + 1) = {}
<1>1. Len(g.mdc) \in Nat
  BY ListPlaces
<1>2. MdcFrom(g, m) = MdcFrom(g, m + 1) \cup InHeader(g.mdc[m])
  <2>1. m .. Len(g.mdc) = (m + 1 .. Len(g.mdc)) \cup {m}
    BY <1>1
  <2>2. MdcFrom(g, m) = UNION {InHeader(g.mdc[i]) : i \in m .. Len(g.mdc)}
    BY DEF MdcFrom, InHeader
  <2>3. MdcFrom(g, m + 1) = UNION {InHeader(g.mdc[i]) : i \in m + 1 .. Len(g.mdc)}
    BY DEF MdcFrom, InHeader
  <2>4. QED  BY <2>1, <2>2, <2>3
<1>3. ASSUME NEW l \in InHeader(g.mdc[m]), l \in MdcFrom(g, m + 1) PROVE FALSE
  <2>1. PICK i \in m + 1 .. Len(g.mdc) : l \in InHeader(g.mdc[i])
    BY <1>3 DEF MdcFrom, InHeader
  <2>2. i \in 1 .. Len(g.mdc) /\ i # m
    BY <1>1
  <2>3. QED  BY <2>1, <2>2, HeadersDisjoint
<1>4. QED  BY <1>1, <1>2, <1>3

\* All receivers are in the lists.
LEMMA AllListed ==
    ASSUME NEW g \in Groups
    PROVE  Leaf \subseteq UniFrom(g, 1) \cup MdcFrom(g, 1)
<1> SUFFICES ASSUME NEW l \in Leaf PROVE l \in UniFrom(g, 1) \cup MdcFrom(g, 1)
  OBVIOUS
<1>1. PICK x \in Places(g) : Member(g, x) = l
  BY GroupsAssumption
<1>2. CASE \E i \in 1 .. Len(g.uni) : x = <<0, i>>
  BY <1>1, <1>2 DEF Member, UniFrom
<1>3. ASSUME NEW m \in 1 .. Len(g.mdc), NEW i \in 1 .. Len(g.mdc[m].addrs), x = <<m, i>>
      PROVE  l \in MdcFrom(g, 1)
  <2>1. Len(g.mdc) \in Nat /\ HeaderOK(g.mdc[m])
    BY GroupsAssumption
  <2>2. /\ Len(g.mdc[m].addrs) \in Nat /\ m # 0
        /\ 0 \in g.mdc[m].rtm /\ At(g.mdc[m], 0) \in Router
    BY <2>1 DEF HeaderOK
  <2>3. l = g.mdc[m].addrs[i]
    BY <1>1, <1>3, <2>2 DEF Member
  <2>4. l \notin Router
    BY NetworkAssumption
  <2>5. i # 1
    BY <2>2, <2>3, <2>4 DEF At
  <2>6. i - 1 \in 1 .. Len(g.mdc[m].addrs) - 1 /\ At(g.mdc[m], i - 1) = l
    BY <2>2, <2>3, <2>5 DEF At
  <2>7. l \in {At(g.mdc[m], j) : j \in 1 .. Len(g.mdc[m].addrs) - 1} \ Router
    BY <2>4, <2>6
  <2>8. QED  BY <2>7 DEF MdcFrom
<1>4. QED  BY <1>2, <1>3 DEF Places

-----------------------------------------------------------------------------
\* Packets the sender makes.

LEMMA UnicastPacket ==
    ASSUME TypeOK, NEW m \in Nat, NEW d \in Leaf
    PROVE  LET q == Sent(<<nread, 0, m>>, d, Null, PeerPort) IN
           /\ PacketOK(q) /\ q.id[1] = nread /\ q.port = PeerPort
           /\ q.hdr = Null /\ Duty(q) = {d}
<1>1. routing[Sender][d] \in Router \cup Leaf /\ nread \in Nat
  BY NetworkAssumption, BoundsAssumption DEF TypeOK
<1>2. PICK id : id = <<nread, 0, m>>
  OBVIOUS
<1>3. id \in Seq(Nat) /\ Len(id) >= 1 /\ id[1] = nread
  BY <1>1, <1>2
<1>4. PICK q : q = Sent(id, d, Null, PeerPort)
  OBVIOUS
<1>5. /\ q \in Packet /\ q.id = id /\ q.dst = d /\ q.hdr = Null /\ q.port = PeerPort
  BY <1>1, <1>3, <1>4 DEF Sent, Packet
<1>6. Duty(q) = {d}
  BY <1>5 DEF Duty
<1>7. QED  BY <1>2, <1>3, <1>4, <1>5, <1>6 DEF PacketOK

LEMMA MdcPacket ==
    ASSUME TypeOK, NEW m \in Nat, NEW h \in Headers, 0 \in h.rtm,
           NEW prt \in {AppPort, PeerPort}
    PROVE  LET q == Sent(<<nread, 1, m>>, At(h, 1), h, prt) IN
           /\ PacketOK(q) /\ q.id[1] = nread /\ q.port = prt
           /\ q.hdr = h /\ q.dlvm = h.rtm /\ q.dst = At(h, 1)
           /\ q.at = routing[Sender][At(h, 1)]
           /\ Duty(q) = UNION {Served(h, i) : i \in h.rtm}
<1>1. /\ h # Null /\ 1 \in Section(h, 0) /\ At(h, 1) \in Leaf
      /\ h.rtm \subseteq 0 .. BITMAP_LIMIT - 1
  BY SectionFacts
<1>2. routing[Sender][At(h, 1)] \in Router \cup Leaf /\ nread \in Nat
  BY <1>1, NetworkAssumption, BoundsAssumption DEF TypeOK
<1>3. PICK id : id = <<nread, 1, m>>
  OBVIOUS
<1>4. id \in Seq(Nat) /\ Len(id) >= 1 /\ id[1] = nread
  BY <1>2, <1>3
<1>5. PICK q : q = Sent(id, At(h, 1), h, prt)
  OBVIOUS
<1>6. /\ q \in Packet /\ q.id = id /\ q.dst = At(h, 1) /\ q.hdr = h /\ q.port = prt
      /\ q.dlvm = h.rtm /\ q.at = routing[Sender][At(h, 1)]
  BY <1>1, <1>2, <1>4, <1>5 DEF Sent, Packet, Headers
<1>7. Duty(q) = UNION {Served(h, i) : i \in h.rtm}
  BY <1>1, <1>6 DEF Duty, Served, Undelivered
<1>8. At(h, 1) \in Served(h, 0)
  BY <1>1 DEF Served
<1>9. PacketOK(q)
  BY <1>4, <1>6, <1>7, <1>8 DEF PacketOK
<1>10. QED  BY <1>3, <1>4, <1>5, <1>6, <1>7, <1>9

\* The duty of a packet with a header is what is in the header.
LEMMA ServedInHeader ==
    ASSUME NEW h \in Headers
    PROVE  UNION {Served(h, i) : i \in h.rtm} \subseteq InHeader(h)
BY SectionFacts, NetworkAssumption DEF Served, InHeader

-----------------------------------------------------------------------------
\* Steps.

\* The network deals with p: N shares out its duty, E is at most one packet more.
Handled(p, N, E) ==
    /\ p \in flight /\ p.at \in Router
    /\ flight' \subseteq (flight \ {p}) \cup N \cup E
    /\ Shares(N \cup E, p) /\ Apart(N)
    /\ \A q, u \in E : q = u

\* Nothing that p had to reach is forgotten.
Relayed(p, N) ==
    /\ flight' = (flight \ {p}) \cup N
    /\ \A l \in Duty(p) : \E q \in N : l \in Duty(q)

LEMMA CarryHandles ==
    ASSUME Base, NEW p \in flight, md_data_rcv(p) \/ ip6_forward(p)
    PROVE  \E N : Handled(p, N, {}) /\ Relayed(p, N)
<1>1. TypeOK /\ PacketOK(p) /\ p.id \in Seq(Nat) /\ Len(p.id) >= 1
  BY DEF Base, PacketOK, Packet
<1>2. CASE md_data_rcv(p)
  <2>1. p.at \in Router /\ p.hdr # Null
    BY <1>2, NetworkAssumption DEF md_data_rcv
  <2>2. flight' = (flight \ {p}) \cup Leaving(p)
    BY <1>2 DEF md_data_rcv, Leaving
  <2>3. /\ Shares(Leaving(p), p) /\ Apart(Leaving(p))
        /\ \A l \in Duty(p) : \E q \in Leaving(p) : l \in Duty(q)
    BY <1>1, <2>1, LeavingPackets
  <2>4. QED  BY <2>1, <2>2, <2>3 DEF Handled, Relayed
<1>3. CASE ip6_forward(p)
  <2>1. PICK q : q = Onward(p, p.dst, p.id, p.hdr, p.dlvm)
    OBVIOUS
  <2>2. p.at \in Router /\ flight' = (flight \ {p}) \cup {q}
    BY <1>3, <2>1 DEF ip6_forward
  <2>3. PacketOK(q) /\ q.id[1] = p.id[1] /\ q.port = p.port /\ Duty(q) = Duty(p)
    BY <1>1, <2>1, <2>2, ForwardedPacket
  <2>4. Shares({q}, p) /\ Apart({q})
    BY <2>3 DEF Shares, Apart
  <2>5. QED  BY <2>2, <2>3, <2>4 DEF Handled, Relayed
<1>4. QED  BY <1>2, <1>3

\* The errors of a router: at most one packet too many, and at worst one shares the
\* duty of another.
LEMMA ErrorHandles ==
    ASSUME Base, NEW p \in flight, p.at \in Capable, p.hdr # Null,
           \/ set_dst_error(p)
           \/ \E i \in Undelivered(p) :
                 \/ md_data_rcv_error(p, i)
                 \/ \E j \in Section(p.hdr, i) : md_data_fwd_error(p, i, j)
    PROVE  \E N, E : Handled(p, N, E)
<1>1. /\ TypeOK /\ PacketOK(p) /\ p.at \in Router
      /\ p.id \in Seq(Nat) /\ Len(p.id) >= 1
  <2>1. TypeOK /\ PacketOK(p)
    BY DEF Base
  <2>2. p.id \in Seq(Nat) /\ Len(p.id) >= 1
    BY <2>1 DEF PacketOK, Packet
  <2>3. QED  BY <2>1, <2>2, NetworkAssumption
<1>2. /\ p.hdr \in Headers /\ Undelivered(p) = p.dlvm /\ p.dlvm \subseteq p.hdr.rtm
  BY <1>1, HeaderDuty
<1>3. Shares(Leaving(p), p) /\ Apart(Leaving(p))
  BY <1>1, LeavingPackets
<1>4. ASSUME NEW i \in Undelivered(p)
      PROVE  /\ PacketOK(SentOn(p, i)) /\ SentOn(p, i).id[1] = p.id[1]
             /\ SentOn(p, i).port = p.port /\ Duty(SentOn(p, i)) = Duty(p)
  <2>1. i \in Nat /\ BITMAP_LIMIT + i \in Nat
    BY <1>2, SectionFacts DEF BITMAP_LIMIT
  <2>2. PICK id : id = Append(p.id, BITMAP_LIMIT + i)
    OBVIOUS
  <2>3. id \in Seq(Nat) /\ Len(id) >= 1 /\ id[1] = p.id[1]
    BY <1>1, <2>1, <2>2, IdGrows
  <2>4. QED  BY <1>1, <2>2, <2>3, ForwardedPacket DEF SentOn
<1>5. ASSUME NEW i \in Undelivered(p),
             flight' \subseteq (flight \ {p}) \cup Leaving(p) \cup {SentOn(p, i)}
      PROVE  \E N, E : Handled(p, N, E)
  <2>1. PICK e : e = SentOn(p, i)
    OBVIOUS
  <2>2. Shares(Leaving(p) \cup {e}, p)
    BY <1>3, <1>4, <2>1 DEF Shares
  <2>3. Handled(p, Leaving(p), {e})
    BY <1>1, <1>3, <1>5, <2>1, <2>2 DEF Handled
  <2>4. QED  BY <2>3
<1>6. ASSUME NEW i \in Undelivered(p), md_data_rcv_error(p, i)
      PROVE  \E N, E : Handled(p, N, E)
  <2>1. UNION {md_data_fwd(p, m) : m \in {n \in Undelivered(p) : n < i}} \subseteq Leaving(p)
    BY DEF Leaving
  <2>2. ConvertsHere(p, i) =>
            {m2u(p, i, j) : j \in {m \in Section(p.hdr, i) : ~IsLast(Section(p.hdr, i), m)}}
                \subseteq md_data_fwd(p, i)
    BY DEF md_data_fwd
  <2>3. md_data_fwd(p, i) \subseteq Leaving(p)
    BY DEF Leaving
  <2>4. flight' \subseteq (flight \ {p}) \cup Leaving(p) \cup {SentOn(p, i)}
    BY <1>6, <2>1, <2>2, <2>3 DEF md_data_rcv_error
  <2>5. QED  BY <1>5, <2>4
<1>7. ASSUME NEW i \in Undelivered(p), NEW j \in Section(p.hdr, i), md_data_fwd_error(p, i, j)
      PROVE  \E N, E : Handled(p, N, E)
  <2>1. UNION {md_data_fwd(p, m) : m \in Undelivered(p) \ {i}} \subseteq Leaving(p)
    BY DEF Leaving
  <2>2. ConvertsHere(p, i) =>
            {m2u(p, i, m) : m \in {n \in Section(p.hdr, i) : n < j}} \subseteq md_data_fwd(p, i)
    BY DEF md_data_fwd
  <2>3. md_data_fwd(p, i) \subseteq Leaving(p)
    BY DEF Leaving
  <2>4. /\ ConvertsHere(p, i)
        /\ flight' = (flight \ {p})
                \cup (UNION {md_data_fwd(p, m) : m \in Undelivered(p) \ {i}})
                \cup {m2u(p, i, m) : m \in {n \in Section(p.hdr, i) : n < j}}
                \cup {SentOn(p, i)}
    BY <1>7 DEF md_data_fwd_error
  <2>5. flight' \subseteq (flight \ {p}) \cup Leaving(p) \cup {SentOn(p, i)}
    BY <2>1, <2>2, <2>3, <2>4
  <2>6. QED  BY <1>5, <2>5
<1>8. CASE set_dst_error(p)
  <2>1. PICK i \in Undelivered(p) : \E q \in md_data_fwd(p, i) :
            flight' = (flight \ {p})
                        \cup ((UNION {md_data_fwd(p, m) : m \in Undelivered(p)}) \ {q})
                        \cup {[q EXCEPT !.at = routing[p.at][p.dst]]}
    BY <1>8, Zenon DEF set_dst_error
  <2>2. PICK q \in md_data_fwd(p, i) :
            flight' = (flight \ {p})
                        \cup ((UNION {md_data_fwd(p, m) : m \in Undelivered(p)}) \ {q})
                        \cup {[q EXCEPT !.at = routing[p.at][p.dst]]}
    BY <2>1, Zenon
  <2>3. PICK u : u = [q EXCEPT !.at = routing[p.at][p.dst]]
    OBVIOUS
  <2>4. q \in Leaving(p) /\ PacketOK(q) /\ q.id[1] = p.id[1] /\ q.port = p.port
        /\ Duty(q) \subseteq Duty(p)
    BY <1>3 DEF Leaving, Shares
  <2>5. routing[p.at][p.dst] \in Router \cup Leaf
    BY <1>1, NetworkAssumption DEF PacketOK, Packet, TypeOK
  <2>6. /\ u \in Packet /\ u.id = q.id /\ u.dst = q.dst /\ u.hdr = q.hdr
        /\ u.dlvm = q.dlvm /\ u.port = q.port
    BY <2>3, <2>4, <2>5 DEF PacketOK, Packet
  <2>7. Duty(u) = Duty(q)
    BY <2>6 DEF Duty, Undelivered
  <2>8. PacketOK(u)
    BY <2>4, <2>6, <2>7 DEF PacketOK
  <2> DEFINE N == (Leaving(p) \ {q}) \cup {u}
  <2>9. Shares(N, p)
    BY <1>3, <2>4, <2>6, <2>7, <2>8 DEF Shares
  <2>10. Apart(N)
    BY <1>3, <2>4, <2>7 DEF Apart
  <2>11. flight' \subseteq (flight \ {p}) \cup N
    <3>1. flight' = (flight \ {p}) \cup (Leaving(p) \ {q}) \cup {u}
      BY <2>2, <2>3, Zenon DEF Leaving
    <3>2. QED  BY <3>1
  <2> HIDE DEF N
  <2>12. Handled(p, N, {})
    BY <1>1, <2>9, <2>10, <2>11 DEF Handled
  <2>13. QED  BY <2>12
<1>9. QED  BY <1>6, <1>7, <1>8

\* The step of the sender that sends the next packet of a list, to S.
Sends(q, S) ==
    /\ PacketOK(q) /\ q.id[1] = nread
    /\ Duty(q) \subseteq S
    /\ flight' = flight \cup {q}

LEMMA UniSends ==
    ASSUME Base, tx_uni
    PROVE  \E q : /\ Sends(q, {grp.uni[k]}) /\ q.port = PeerPort
                  /\ q.hdr = Null /\ Duty(q) = {grp.uni[k]}
<1>1. grp \in Groups /\ k \in 1 .. Len(grp.uni) /\ k \in Nat /\ TypeOK
  <2>1. grp \in Groups /\ k \in Nat /\ k >= 1 /\ TypeOK
    BY DEF Base, TypeOK, tx_uni
  <2>2. QED  BY <2>1, ListPlaces DEF tx_uni
<1>2. grp.uni[k] \in Leaf
  BY <1>1, ListPlaces
<1>3. PICK q : q = Sent(<<nread, 0, k>>, grp.uni[k], Null, PeerPort)
  OBVIOUS
<1>4. PacketOK(q) /\ q.id[1] = nread /\ q.port = PeerPort /\ q.hdr = Null
      /\ Duty(q) = {grp.uni[k]}
  BY <1>1, <1>2, <1>3, UnicastPacket
<1>5. flight' = flight \cup {q}
  BY <1>3 DEF tx_uni
<1>6. QED  BY <1>4, <1>5 DEF Sends

LEMMA MdcSends ==
    ASSUME Base, tx_mdc
    PROVE  \E q : /\ Sends(q, InHeader(grp.mdc[k])) /\ q.port = port
                  /\ q.hdr = grp.mdc[k] /\ q.dlvm = q.hdr.rtm
                  /\ q.dst = At(q.hdr, 1) /\ q.at = routing[Sender][q.dst]
                  /\ Duty(q) = UNION {Served(q.hdr, i) : i \in q.hdr.rtm}
<1>1. /\ grp \in Groups /\ k \in 1 .. Len(grp.mdc) /\ k \in Nat /\ TypeOK
      /\ port \in {AppPort, PeerPort}
  <2>1. grp \in Groups /\ k \in Nat /\ k >= 1 /\ TypeOK /\ port \in {AppPort, PeerPort}
    BY DEF Base, TypeOK, tx_mdc
  <2>2. QED  BY <2>1, ListPlaces DEF tx_mdc
<1>2. PICK h : h = grp.mdc[k]
  OBVIOUS
<1>3. h \in Headers /\ 0 \in h.rtm
  BY <1>1, <1>2, ListPlaces
<1>4. PICK q : q = Sent(<<nread, 1, k>>, At(h, 1), h, port)
  OBVIOUS
<1>5. /\ PacketOK(q) /\ q.id[1] = nread /\ q.port = port
      /\ q.hdr = h /\ q.dlvm = h.rtm /\ q.dst = At(h, 1)
      /\ q.at = routing[Sender][At(h, 1)]
      /\ Duty(q) = UNION {Served(h, i) : i \in h.rtm}
  BY <1>1, <1>3, <1>4, MdcPacket
<1>6. Duty(q) \subseteq InHeader(h)
  BY <1>3, <1>5, ServedInHeader
<1>7. flight' = flight \cup {q}
  <2>1. Len(h.addrs) \in Nat /\ 1 < Len(h.addrs)
    <3>1. HeaderOK(h)
      BY <1>1, <1>2, GroupsAssumption
    <3>2. QED  BY <1>3, <3>1 DEF HeaderOK
  <2>2. QED  BY <1>2, <1>4, <2>1 DEF tx_mdc
<1>8. QED  BY <1>2, <1>5, <1>6, <1>7 DEF Sends

\* What a receiver takes is all that packet had to reach.
LEMMA Received ==
    ASSUME Base, NEW p \in flight, Receive(p)
    PROVE  PacketOK(p) /\ p.at \in Leaf /\ flight' \cup got' = flight \cup got
<1>1. PacketOK(p) /\ p.at \in Leaf
  BY DEF Base, PacketOK, Packet, Receive
<1>2. QED  BY <1>1 DEF Receive

-----------------------------------------------------------------------------
\* What is true of every packet is kept by every step.

LEMMA BaseInit ==
    ASSUME Init
    PROVE  Base
<1>1. TypeOK
  <2>1. nread \in 0 .. Datagrams /\ k \in Nat
    BY BoundsAssumption DEF Init
  <2>2. routing \in Routings
    BY NetworkAssumption DEF Init
  <2>3. faults \in Seq({"sendto", "router"})
    BY DEF Init
  <2>4. QED  BY <2>1, <2>2, <2>3 DEF Init, TypeOK
<1>2. QED  BY <1>1 DEF Init, Base

\* The types of all but the packets.
Rest ==
    /\ txg \in Groups /\ grp \in Groups \cup {Null}
    /\ pc \in {"read", "uni", "mdc"} /\ (pc # "read" => grp \in Groups)
    /\ k \in Nat /\ nread \in 0 .. Datagrams
    /\ routing \in Routings /\ rerouted \in BOOLEAN /\ min_dsts \in MinDsts
    /\ faults \in Seq({"sendto", "router"})
    /\ port \in {AppPort, PeerPort}
    /\ k >= 1

LEMMA BaseParts ==
    /\ Base <=> /\ Rest
                /\ \A p \in flight \cup got : PacketOK(p)
                /\ \A p \in got : p.at \in Leaf
BY DEF Base, Rest, TypeOK, PacketOK

LEMMA RestKept ==
    ASSUME Base, [Next]_vars
    PROVE  Rest'
<1>1. Rest /\ nread \in Nat /\ Datagrams \in Nat
  <2>1. Rest
    BY BaseParts
  <2>2. QED  BY <2>1, BoundsAssumption DEF Rest
<1>2. CASE read
  BY <1>1, <1>2 DEF read, Rest, net_vars
<1>3. CASE tx_uni
  BY <1>1, <1>3 DEF tx_uni, Rest, net_vars
<1>4. CASE tx_uni_done
  BY <1>1, <1>4 DEF tx_uni_done, Rest, net_vars
<1>5. CASE tx_mdc
  BY <1>1, <1>5 DEF tx_mdc, Rest, net_vars
<1>6. CASE tx_mdc_done
  BY <1>1, <1>6 DEF tx_mdc_done, Rest, net_vars
<1>7. CASE set_txg
  BY <1>1, <1>7 DEF set_txg, Rest, net_vars, tx_vars
<1>8. CASE Carry
  BY <1>1, <1>8 DEF Carry, md_data_rcv, ip6_forward, Receive, Rest, net_vars, tx_vars
<1>9. CASE Reroute
  BY <1>1, <1>9 DEF Reroute, Rest, tx_vars
<1>10. CASE sendto_error
  <2>1. faults' \in Seq({"sendto", "router"})
    BY <1>1, <1>10 DEF sendto_error, Fault, Rest
  <2>2. QED  BY <1>1, <1>10, <2>1 DEF sendto_error, Rest, net_vars
<1>11. CASE RouterError
  <2>1. PICK p \in flight : 
          \/ set_dst_error(p)
          \/ \E i \in Undelivered(p) :
                 \/ md_data_rcv_error(p, i)
                 \/ \E j \in Section(p.hdr, i) : md_data_fwd_error(p, i, j)
    BY <1>11 DEF RouterError
  <2>2. Fault("router") /\ UNCHANGED <<txg, tx_vars, got, net_vars>>
    BY <2>1 DEF set_dst_error, md_data_rcv_error, md_data_fwd_error
  <2>3. faults' \in Seq({"sendto", "router"})
    BY <1>1, <2>2 DEF Fault, Rest
  <2>4. QED  BY <1>1, <2>2, <2>3 DEF Rest, net_vars, tx_vars
<1>12. CASE UNCHANGED vars
  BY <1>1, <1>12 DEF vars, tx_vars, net_vars, Rest
<1>13. QED
  BY <1>2, <1>3, <1>4, <1>5, <1>6, <1>7, <1>8, <1>9, <1>10, <1>11, <1>12
     DEF Next, Transmit, Idle

\* What a step may do to the packets.
PacketsStay == flight' = flight /\ got' = got
SenderSends ==
    /\ got' = got
    /\ \/ tx_uni /\ \E q : Sends(q, {grp.uni[k]})
       \/ tx_mdc /\ \E q : Sends(q, InHeader(grp.mdc[k]))
RouterRelays ==
    /\ UNCHANGED <<txg, tx_vars, got, net_vars>>
    /\ \/ faults' = faults /\ \E p, N : Handled(p, N, {}) /\ Relayed(p, N)
       \/ Fault("router") /\ \E p, N, E : Handled(p, N, E)
ReceiverTakes == \E p \in flight : Receive(p)

LEMMA StepKinds ==
    ASSUME Base, [Next]_vars
    PROVE  \/ PacketsStay /\ (read \/ tx_uni_done \/ tx_mdc_done \/ set_txg \/ Reroute
                                \/ sendto_error \/ UNCHANGED vars)
           \/ SenderSends
           \/ RouterRelays
           \/ ReceiverTakes
<1>1. CASE read \/ tx_uni_done \/ tx_mdc_done \/ set_txg \/ Reroute \/ sendto_error
             \/ UNCHANGED vars
  BY <1>1 DEF PacketsStay, read, tx_uni_done, tx_mdc_done, set_txg, Reroute, sendto_error, vars
<1>2. CASE tx_uni
  BY <1>2, UniSends DEF SenderSends, tx_uni
<1>3. CASE tx_mdc
  BY <1>3, MdcSends DEF SenderSends, tx_mdc
<1>4. CASE Carry
  <2>1. PICK p \in flight : md_data_rcv(p) \/ ip6_forward(p) \/ Receive(p)
    BY <1>4 DEF Carry
  <2>2. CASE Receive(p)
    BY <2>2 DEF ReceiverTakes
  <2>3. CASE md_data_rcv(p) \/ ip6_forward(p)
    <3>1. \E n : Handled(p, n, {}) /\ Relayed(p, n)
      BY <2>3, CarryHandles
    <3>2. UNCHANGED <<txg, tx_vars, got, net_vars>> /\ faults' = faults
      BY <2>3 DEF md_data_rcv, ip6_forward
    <3>3. QED  BY <3>1, <3>2 DEF RouterRelays
  <2>4. QED  BY <2>1, <2>2, <2>3
<1>5. CASE RouterError
  <2>1. PICK p \in flight :
          /\ p.at \in Capable /\ p.hdr # Null
          /\ \/ set_dst_error(p)
             \/ \E i \in Undelivered(p) :
                    \/ md_data_rcv_error(p, i)
                    \/ \E j \in Section(p.hdr, i) : md_data_fwd_error(p, i, j)
    BY <1>5 DEF RouterError
  <2>2. Fault("router") /\ UNCHANGED <<txg, tx_vars, got, net_vars>>
    BY <2>1 DEF set_dst_error, md_data_rcv_error, md_data_fwd_error
  <2>3. \E n, e : Handled(p, n, e)
    BY <2>1, ErrorHandles
  <2>4. QED  BY <2>2, <2>3 DEF RouterRelays
<1>6. QED
  BY <1>1, <1>2, <1>3, <1>4, <1>5 DEF Next, Transmit, Idle

LEMMA BaseStep ==
    ASSUME Base, [Next]_vars
    PROVE  Base'
<1>1. Rest'
  BY RestKept
<1>2. \A p \in flight \cup got : PacketOK(p)
  BY BaseParts
<1>3. \A p \in got : p.at \in Leaf
  BY BaseParts
<1>4. /\ \A p \in flight' \cup got' : PacketOK(p)
      /\ \A p \in got' : p.at \in Leaf
  <2>1. CASE PacketsStay
    BY <2>1, <1>2, <1>3 DEF PacketsStay
  <2>2. CASE SenderSends
    <3>1. PICK q : PacketOK(q) /\ flight' = flight \cup {q} /\ got' = got
      BY <2>2 DEF SenderSends, Sends
    <3>2. QED  BY <3>1, <1>2, <1>3
  <2>3. CASE RouterRelays
    <3>1. PICK p, N, E : Handled(p, N, E) /\ got' = got
      BY <2>3 DEF RouterRelays
    <3>2. flight' \subseteq flight \cup N \cup E /\ \A q \in N \cup E : PacketOK(q)
      BY <3>1 DEF Handled, Shares
    <3>3. QED  BY <3>1, <3>2, <1>2, <1>3
  <2>4. CASE ReceiverTakes
    <3>1. PICK p \in flight : Receive(p)
      BY <2>4 DEF ReceiverTakes
    <3>2. p.at \in Leaf
      BY <3>1, Received
    <3>3. QED  BY <3>1, <3>2, <1>2, <1>3 DEF Receive
  <2>5. QED  BY <2>1, <2>2, <2>3, <2>4, StepKinds
<1>5. (\A p \in flight \cup got : PacketOK(p))' /\ (\A p \in got : p.at \in Leaf)'
  BY <1>4 DEF PacketOK
<1>6. QED  BY <1>1, <1>5 DEF Base, Rest, TypeOK, PacketOK

LEMMA BaseInvariant == Spec => []Base
<1>1. Init => Base
  BY BaseInit
<1>2. Base /\ [Next]_vars => Base'
  BY BaseStep
<1>3. QED  BY <1>1, <1>2, PTL DEF Spec

\* The types of the state of the sender, of the network and of every packet, for
\* every group, routing and bound.  The delivery map of a packet stays within the
\* bitmap, and its address is that of a receiver.
THEOREM PacketsWellFormed == Spec => []TypeOK
<1>1. Base => TypeOK
  BY DEF Base
<1>2. QED  BY <1>1, BaseInvariant, PTL

-----------------------------------------------------------------------------
\* How many packets there are for one receiver of one datagram.

\* The receivers the datagram at hand has still to be sent to.
ToSend ==
    IF pc = "uni" THEN UniFrom(grp, k) \cup MdcFrom(grp, 1)
    ELSE IF pc = "mdc" THEN MdcFrom(grp, k) ELSE {}

Pending(n, l) == n > nread \/ (n = nread /\ l \in ToSend)

Copies(n, l) == {p \in flight \cup got : p.id[1] = n /\ l \in Duty(p)}

\* There is no packet before its time, and one more at most for every error of a
\* router.
Counted(n, l) ==
    /\ IsFiniteSet(Copies(n, l))
    /\ Cardinality(Copies(n, l)) <= 1 + RouterErrors
    /\ Pending(n, l) => Copies(n, l) = {}

AllCounted == \A n \in Nat, l \in Leaf : Counted(n, l)

LEMMA ErrorsFinite ==
    ASSUME faults \in Seq({"sendto", "router"})
    PROVE  RouterErrors \in Nat /\ IsFiniteSet({i \in DOMAIN faults : faults[i] = "router"})
<1>1. DOMAIN faults = 1 .. Len(faults) /\ Len(faults) \in Nat
  OBVIOUS
<1>2. IsFiniteSet(1 .. Len(faults))
  BY <1>1, FS_Interval
<1>3. IsFiniteSet({i \in DOMAIN faults : faults[i] = "router"})
  BY <1>1, <1>2, FS_Subset
<1>4. QED  BY <1>3, FS_CardinalityType DEF RouterErrors

LEMMA FaultCounts ==
    ASSUME faults \in Seq({"sendto", "router"}), NEW w \in {"sendto", "router"}, Fault(w)
    PROVE  RouterErrors' = IF w = "router" THEN RouterErrors + 1 ELSE RouterErrors
<1> DEFINE Routers(f) == {i \in DOMAIN f : f[i] = "router"}
<1>1. faults' = Append(faults, w) /\ Len(faults) \in Nat
  BY DEF Fault
<1>2. /\ DOMAIN faults' = 1 .. Len(faults) + 1 /\ DOMAIN faults = 1 .. Len(faults)
      /\ faults'[Len(faults) + 1] = w
      /\ \A i \in 1 .. Len(faults) : faults'[i] = faults[i]
  BY <1>1
<1>3. IsFiniteSet(Routers(faults))
  BY ErrorsFinite
<1>4. Len(faults) + 1 \notin Routers(faults)
  BY <1>1, <1>2
<1>5. CASE w = "router"
  <2>1. Routers(faults') = Routers(faults) \cup {Len(faults) + 1}
    BY <1>1, <1>2, <1>5
  <2>2. Cardinality(Routers(faults')) = Cardinality(Routers(faults)) + 1
    BY <1>3, <1>4, <2>1, FS_AddElement
  <2>3. QED  BY <1>5, <2>2 DEF RouterErrors
<1>6. CASE w # "router"
  <2>1. Routers(faults') = Routers(faults)
    BY <1>1, <1>2, <1>6
  <2>2. QED  BY <1>6, <2>1 DEF RouterErrors
<1>7. QED  BY <1>5, <1>6

\* Errors are not taken back.
LEMMA ErrorsGrow ==
    ASSUME Base, [Next]_vars
    PROVE  /\ RouterErrors \in Nat /\ RouterErrors' \in Nat
           /\ RouterErrors <= RouterErrors'
<1>1. /\ faults \in Seq({"sendto", "router"}) /\ faults' \in Seq({"sendto", "router"})
  BY RestKept, BaseParts DEF Rest
<1>2. RouterErrors \in Nat /\ RouterErrors' \in Nat
  <2>1. RouterErrors \in Nat
    BY <1>1, ErrorsFinite
  <2>2. (faults \in Seq({"sendto", "router"}) => RouterErrors \in Nat)'
    BY ErrorsFinite, PTL
  <2>3. QED  BY <1>1, <2>1, <2>2
<1>3. faults' = faults \/ Fault("sendto") \/ Fault("router")
  <2>1. (read \/ tx_uni_done \/ tx_mdc_done \/ set_txg \/ Reroute \/ sendto_error
           \/ UNCHANGED vars) => faults' = faults \/ Fault("sendto")
    BY DEF read, tx_uni_done, tx_mdc_done, set_txg, Reroute, sendto_error, vars
  <2>2. SenderSends => faults' = faults
    BY DEF SenderSends, tx_uni, tx_mdc
  <2>3. RouterRelays => faults' = faults \/ Fault("router")
    BY DEF RouterRelays
  <2>4. ReceiverTakes => faults' = faults
    BY DEF ReceiverTakes, Receive
  <2>5. QED  BY <2>1, <2>2, <2>3, <2>4, StepKinds
<1>4. CASE faults' = faults
  BY <1>2, <1>4 DEF RouterErrors
<1>5. CASE Fault("sendto")
  BY <1>1, <1>2, <1>5, FaultCounts
<1>6. CASE Fault("router")
  BY <1>1, <1>2, <1>6, FaultCounts
<1>7. QED  BY <1>3, <1>4, <1>5, <1>6

\* What is still to be sent was still to be sent before; when tx_uni and tx_mdc send
\* a packet, what it has to reach is crossed out.
LEMMA PendingShrinks ==
    ASSUME Base, [Next]_vars, NEW n \in Nat, NEW l \in Leaf, Pending(n, l)'
    PROVE  /\ Pending(n, l)
           /\ tx_uni /\ n = nread => l # grp.uni[k]
           /\ tx_mdc /\ n = nread => l \notin InHeader(grp.mdc[k])
<1>0. /\ TypeOK /\ nread \in Nat /\ k \in Nat /\ k >= 1 /\ grp \in Groups \cup {Null}
      /\ pc # "read" => grp \in Groups
  BY BoundsAssumption DEF Base, TypeOK
<1>1. CASE read
  <2>1. nread' = nread + 1
    BY <1>1 DEF read
  <2>2. n > nread' \/ n = nread'
    BY DEF Pending
  <2>3. n > nread /\ n # nread
    BY <1>0, <2>1, <2>2
  <2>4. QED  BY <1>1, <2>3 DEF Pending, read, tx_uni, tx_mdc
<1>2. CASE tx_uni
  <2>1. grp \in Groups /\ k \in 1 .. Len(grp.uni)
    <3>1. grp \in Groups
      BY <1>0, <1>2 DEF tx_uni
    <3>2. Len(grp.uni) \in Nat
      BY <3>1, ListPlaces
    <3>3. QED  BY <1>0, <1>2, <3>1, <3>2 DEF tx_uni
  <2>2. /\ ToSend = UniFrom(grp, k) \cup MdcFrom(grp, 1)
        /\ ToSend' = UniFrom(grp, k + 1) \cup MdcFrom(grp, 1)
    BY <1>2 DEF tx_uni, ToSend, UniFrom, MdcFrom
  <2>3. /\ UniFrom(grp, k) = UniFrom(grp, k + 1) \cup {grp.uni[k]}
        /\ grp.uni[k] \notin UniFrom(grp, k + 1)
    BY <2>1, UniRest
  <2>4. grp.uni[k] \notin MdcFrom(grp, 1)
    <3>1. ASSUME NEW m \in 1 .. Len(grp.mdc) PROVE grp.uni[k] \notin InHeader(grp.mdc[m])
      BY <2>1, UniMdcDisjoint
    <3>2. QED  BY <3>1 DEF MdcFrom, InHeader
  <2>5. n > nread \/ (n = nread /\ l \in ToSend')
    BY <1>2 DEF Pending, tx_uni
  <2>6. ~tx_mdc
    BY <1>2 DEF tx_uni, tx_mdc
  <2>7. QED  BY <1>0, <2>2, <2>3, <2>4, <2>5, <2>6 DEF Pending
<1>3. CASE tx_uni_done
  <2>1. ToSend' \subseteq ToSend
    BY <1>3 DEF tx_uni_done, ToSend, MdcFrom
  <2>2. ~tx_uni /\ ~tx_mdc /\ nread' = nread
    <3>1. grp \in Groups
      BY <1>0, <1>3 DEF tx_uni_done
    <3>2. Len(grp.uni) \in Nat
      BY <3>1, ListPlaces
    <3>3. QED  BY <1>0, <1>3, <3>2 DEF tx_uni, tx_mdc, tx_uni_done
  <2>3. QED  BY <2>1, <2>2 DEF Pending
<1>4. CASE tx_mdc
  <2>1. grp \in Groups /\ k \in 1 .. Len(grp.mdc)
    <3>1. grp \in Groups
      BY <1>0, <1>4 DEF tx_mdc
    <3>2. Len(grp.mdc) \in Nat
      BY <3>1, ListPlaces
    <3>3. QED  BY <1>0, <1>4, <3>1, <3>2 DEF tx_mdc
  <2>2. ToSend = MdcFrom(grp, k) /\ ToSend' = MdcFrom(grp, k + 1)
    BY <1>4 DEF tx_mdc, ToSend, MdcFrom
  <2>3. /\ MdcFrom(grp, k) = MdcFrom(grp, k + 1) \cup InHeader(grp.mdc[k])
        /\ InHeader(grp.mdc[k]) \cap MdcFrom(grp, k + 1) = {}
    BY <2>1, MdcRest
  <2>4. n > nread \/ (n = nread /\ l \in ToSend')
    BY <1>4 DEF Pending, tx_mdc
  <2>5. ~tx_uni
    BY <1>4 DEF tx_uni, tx_mdc
  <2>6. QED  BY <1>0, <2>2, <2>3, <2>4, <2>5 DEF Pending
<1>5. CASE tx_mdc_done
  <2>1. ToSend' = {} /\ nread' = nread
    BY <1>5 DEF tx_mdc_done, ToSend
  <2>2. n > nread
    BY <2>1 DEF Pending
  <2>3. QED  BY <1>0, <2>2 DEF Pending
<1>6. CASE sendto_error
  <2>1. nread' = nread /\ ToSend' \subseteq ToSend
    BY <1>6 DEF sendto_error, ToSend, MdcFrom
  <2>2. ~tx_uni /\ ~tx_mdc
    <3>1. faults # faults'
      <4>1. faults \in Seq({"sendto", "router"})
        BY <1>0 DEF TypeOK
      <4>2. faults' = Append(faults, "sendto")
        BY <1>6 DEF sendto_error, Fault
      <4>3. Len(faults') = Len(faults) + 1 /\ Len(faults) \in Nat
        BY <4>1, <4>2
      <4>4. QED  BY <4>3
    <3>2. QED  BY <3>1 DEF tx_uni, tx_mdc
  <2>3. QED  BY <2>1, <2>2 DEF Pending
<1>7. CASE UNCHANGED tx_vars
  <2>1. nread' = nread /\ ToSend' = ToSend /\ k' = k
    BY <1>7 DEF tx_vars, ToSend, UniFrom, MdcFrom
  <2>2. ~tx_uni /\ ~tx_mdc
    BY <1>0, <2>1 DEF tx_uni, tx_mdc
  <2>3. QED  BY <2>1, <2>2 DEF Pending
<1>8. (set_txg \/ Carry \/ Reroute \/ RouterError \/ UNCHANGED vars) => UNCHANGED tx_vars
  BY DEF set_txg, Carry, md_data_rcv, ip6_forward, Receive, Reroute, RouterError,
         set_dst_error, md_data_rcv_error, md_data_fwd_error, vars
<1>9. QED
  BY <1>1, <1>2, <1>3, <1>4, <1>5, <1>6, <1>7, <1>8 DEF Next, Transmit, Idle

LEMMA SentPending ==
    ASSUME Base, NEW l,
           (tx_uni /\ l = grp.uni[k]) \/ (tx_mdc /\ l \in InHeader(grp.mdc[k]))
    PROVE  Pending(nread, l)
<1>1. k \in Nat /\ k >= 1 /\ (pc # "read" => grp \in Groups)
  BY DEF Base, TypeOK
<1>2. CASE tx_uni /\ l = grp.uni[k]
  <2>1. Len(grp.uni) \in Nat
    BY <1>1, <1>2, ListPlaces DEF tx_uni
  <2>2. k \in k .. Len(grp.uni)
    BY <1>1, <1>2, <2>1 DEF tx_uni
  <2>3. QED  BY <1>2, <2>2 DEF Pending, ToSend, UniFrom, tx_uni
<1>3. CASE tx_mdc /\ l \in InHeader(grp.mdc[k])
  <2>1. Len(grp.mdc) \in Nat
    BY <1>1, <1>3, ListPlaces DEF tx_mdc
  <2>2. k \in k .. Len(grp.mdc)
    BY <1>1, <1>3, <2>1 DEF tx_mdc
  <2>3. l \in MdcFrom(grp, k)
    BY <1>3, <2>2 DEF MdcFrom, InHeader
  <2>4. QED  BY <1>3, <2>3 DEF Pending, ToSend, tx_mdc
<1>4. QED  BY <1>2, <1>3

LEMMA CopiesRelayed ==
    ASSUME Base, NEW p, NEW N, NEW E, Handled(p, N, E), got' = got,
           NEW n \in Nat, NEW l \in Leaf
    PROVE  IF p.id[1] = n /\ l \in Duty(p)
           THEN /\ p \in Copies(n, l)
                /\ \E x : \/ Copies(n, l)' \subseteq (Copies(n, l) \ {p}) \cup {x}
                          \/ /\ E # {}
                             /\ \E y : Copies(n, l)' \subseteq
                                           ((Copies(n, l) \ {p}) \cup {x}) \cup {y}
           ELSE Copies(n, l)' \subseteq Copies(n, l)
<1>1. /\ p \in flight /\ p.at \in Router
      /\ flight' \subseteq (flight \ {p}) \cup N \cup E
      /\ Shares(N \cup E, p) /\ Apart(N) /\ \A q, u \in E : q = u
  BY DEF Handled
<1>2. p \notin got
  <2>1. \A q \in got : q.at \in Leaf
    BY DEF Base
  <2>2. QED  BY <1>1, <2>1, NetworkAssumption
<1>3. Copies(n, l)' = {q \in flight' \cup got : q.id[1] = n /\ l \in Duty(q)}
  BY DEF Copies, Duty, Undelivered, Section, At
<1> DEFINE Of(S) == {q \in S : q.id[1] = n /\ l \in Duty(q)}
<1>4. Copies(n, l)' \subseteq (Copies(n, l) \ {p}) \cup Of(N) \cup Of(E)
  BY <1>1, <1>2, <1>3 DEF Copies
<1>5. CASE p.id[1] = n /\ l \in Duty(p)
  <2>1. p \in Copies(n, l)
    BY <1>1, <1>5 DEF Copies
  <2>2. \A q, u \in Of(N) : q = u
    BY <1>1 DEF Apart
  <2>3. \A q, u \in Of(E) : q = u
    BY <1>1
  <2>4. PICK x : Of(N) \subseteq {x}
    <3>1. CASE Of(N) = {}
      BY <3>1
    <3>2. CASE Of(N) # {}
      <4>1. PICK x : x \in Of(N)
        BY <3>2
      <4>2. Of(N) \subseteq {x}
        BY <2>2, <4>1
      <4>3. QED  BY <4>2
    <3>3. QED  BY <3>1, <3>2
  <2>5. CASE E = {}
    <3>1. Of(E) = {}
      BY <2>5
    <3>2. Copies(n, l)' \subseteq (Copies(n, l) \ {p}) \cup {x}
      BY <1>4, <2>4, <3>1
    <3>3. QED  BY <1>5, <2>1, <3>2
  <2>6. CASE E # {}
    <3>1. PICK y : y \in E
      BY <2>6
    <3>2. Of(E) \subseteq {y}
      BY <1>1, <3>1
    <3>3. Copies(n, l)' \subseteq ((Copies(n, l) \ {p}) \cup {x}) \cup {y}
      BY <1>4, <2>4, <3>2
    <3>4. QED  BY <1>5, <2>1, <2>6, <3>3
  <2>7. QED  BY <2>5, <2>6
<1>6. CASE ~(p.id[1] = n /\ l \in Duty(p))
  <2>1. Of(N \cup E) = {}
    BY <1>1, <1>6 DEF Shares
  <2>2. Of(N) = {} /\ Of(E) = {}
    BY <2>1
  <2> HIDE DEF Of
  <2>3. Copies(n, l)' \subseteq Copies(n, l)
    BY <1>4, <2>2
  <2>4. QED  BY <1>6, <2>3
<1>7. QED  BY <1>5, <1>6

\* One packet goes for each that comes, but for one more with an error.
LEMMA OneForOne ==
    ASSUME NEW S, IsFiniteSet(S), NEW p \in S, NEW x, NEW y, NEW T
    PROVE  /\ T \subseteq (S \ {p}) \cup {x} =>
                  IsFiniteSet(T) /\ Cardinality(T) <= Cardinality(S)
           /\ T \subseteq ((S \ {p}) \cup {x}) \cup {y} =>
                  IsFiniteSet(T) /\ Cardinality(T) <= Cardinality(S) + 1
<1> DEFINE A == S \ {p}
           B == A \cup {x}
           C == B \cup {y}
<1>1. IsFiniteSet(A) /\ Cardinality(A) = Cardinality(S) - 1 /\ Cardinality(S) \in Nat
  BY FS_RemoveElement, FS_CardinalityType
<1>2. IsFiniteSet(B) /\ Cardinality(B) \in Nat
  BY <1>1, FS_AddElement, FS_CardinalityType
<1>3. Cardinality(B) = IF x \in A THEN Cardinality(A) ELSE Cardinality(A) + 1
  BY <1>1, FS_AddElement
<1>4. IsFiniteSet(C) /\ Cardinality(C) \in Nat
  BY <1>2, FS_AddElement, FS_CardinalityType
<1>5. Cardinality(C) = IF y \in B THEN Cardinality(B) ELSE Cardinality(B) + 1
  BY <1>2, FS_AddElement
<1>6. Cardinality(B) <= Cardinality(S) /\ Cardinality(C) <= Cardinality(S) + 1
  BY <1>1, <1>2, <1>3, <1>4, <1>5
<1> HIDE DEF B, C
<1>7. T \subseteq B => IsFiniteSet(T) /\ Cardinality(T) <= Cardinality(S)
  <2> HAVE T \subseteq B
  <2>1. IsFiniteSet(T) /\ Cardinality(T) <= Cardinality(B)
    BY <1>2, FS_Subset
  <2>2. Cardinality(T) \in Nat
    BY <2>1, FS_CardinalityType
  <2>3. QED  BY <1>1, <1>2, <1>6, <2>1, <2>2
<1>8. T \subseteq C => IsFiniteSet(T) /\ Cardinality(T) <= Cardinality(S) + 1
  <2> HAVE T \subseteq C
  <2>1. IsFiniteSet(T) /\ Cardinality(T) <= Cardinality(C)
    BY <1>4, FS_Subset
  <2>2. Cardinality(T) \in Nat
    BY <2>1, FS_CardinalityType
  <2>3. QED  BY <1>1, <1>4, <1>6, <2>1, <2>2
<1>9. QED  BY <1>7, <1>8 DEF B, C

LEMMA CountedInit ==
    ASSUME Init
    PROVE  AllCounted
<1> SUFFICES ASSUME NEW n \in Nat, NEW l \in Leaf PROVE Counted(n, l)
  BY DEF AllCounted
<1>1. Copies(n, l) = {}
  BY DEF Init, Copies
<1>2. RouterErrors \in Nat
  <2>1. faults \in Seq({"sendto", "router"})
    BY DEF Init
  <2>2. QED  BY <2>1, ErrorsFinite
<1>3. IsFiniteSet(Copies(n, l)) /\ Cardinality(Copies(n, l)) = 0
  BY <1>1, FS_EmptySet
<1>4. QED  BY <1>1, <1>2, <1>3 DEF Counted

LEMMA CountedStep ==
    ASSUME Base, AllCounted, [Next]_vars
    PROVE  AllCounted'
<1> SUFFICES ASSUME NEW n \in Nat, NEW l \in Leaf PROVE Counted(n, l)'
  BY DEF AllCounted
<1>1. Counted(n, l)
  BY DEF AllCounted
<1>2. RouterErrors \in Nat /\ RouterErrors' \in Nat /\ RouterErrors <= RouterErrors'
  BY ErrorsGrow
<1> DEFINE C == Copies(n, l)
<1>3. /\ IsFiniteSet(C) /\ Cardinality(C) \in Nat /\ Cardinality(C) <= 1 + RouterErrors
      /\ Pending(n, l) => C = {}
  BY <1>1, FS_CardinalityType DEF Counted
<1>4. SUFFICES \/ C' \subseteq C
               \/ /\ IsFiniteSet(C') /\ Cardinality(C') \in Nat
                  /\ Cardinality(C') <= 1 + RouterErrors'
                  /\ ~Pending(n, l)'
  <2>1. CASE C' \subseteq C
    <3>1. IsFiniteSet(C') /\ Cardinality(C') <= Cardinality(C)
      BY <1>3, <2>1, FS_Subset
    <3>2. Cardinality(C') \in Nat
      BY <3>1, FS_CardinalityType
    <3>3. Pending(n, l)' => C' = {}
      BY <1>3, <2>1, PendingShrinks
    <3>4. QED  BY <1>2, <1>3, <3>1, <3>2, <3>3 DEF Counted
  <2>2. QED  BY <1>4, <2>1 DEF Counted
<1>5. CASE PacketsStay
  <2>1. C' = C
    BY <1>5 DEF PacketsStay, Copies, Duty, Undelivered, Section, At
  <2>2. QED  BY <2>1
<1>6. CASE SenderSends
  <2>1. PICK q : /\ flight' = flight \cup {q} /\ got' = got /\ q.id[1] = nread
                 /\ \/ tx_uni /\ Duty(q) \subseteq {grp.uni[k]}
                    \/ tx_mdc /\ Duty(q) \subseteq InHeader(grp.mdc[k])
    BY <1>6 DEF SenderSends, Sends
  <2>2. C' = C \cup (IF nread = n /\ l \in Duty(q) THEN {q} ELSE {})
    BY <2>1 DEF Copies, Duty, Undelivered, Section, At
  <2>3. CASE nread = n /\ l \in Duty(q)
    <3>1. /\ tx_uni => l = grp.uni[k]
          /\ tx_mdc => l \in InHeader(grp.mdc[k])
      <4>1. ~(tx_uni /\ tx_mdc)
        BY DEF tx_uni, tx_mdc
      <4>2. QED  BY <2>1, <2>3, <4>1
    <3>2. ~Pending(n, l)'
      BY <2>1, <2>3, <3>1, PendingShrinks
    <3>3. Pending(n, l)
      <4>1. (tx_uni /\ l = grp.uni[k]) \/ (tx_mdc /\ l \in InHeader(grp.mdc[k]))
        BY <2>1, <3>1
      <4>2. Pending(nread, l)
        BY <4>1, SentPending
      <4>3. QED  BY <2>3, <4>2
    <3>4. C' = {q}
      BY <1>3, <2>2, <2>3, <3>3
    <3>5. IsFiniteSet(C') /\ Cardinality(C') = 1
      BY <3>4, FS_Singleton
    <3>6. \A e \in Nat : 1 <= 1 + e
      OBVIOUS
    <3>7. Cardinality(C') <= 1 + RouterErrors'
      BY <1>2, <3>5, <3>6, Zenon
    <3>8. Cardinality(C') \in Nat
      BY <3>5, FS_CardinalityType
    <3>9. QED  BY <3>2, <3>5, <3>7, <3>8, Zenon
  <2>4. CASE ~(nread = n /\ l \in Duty(q))
    BY <2>2, <2>4
  <2>5. QED  BY <2>3, <2>4
<1>7. CASE RouterRelays
  <2>1. PICK p, N, E : /\ Handled(p, N, E) /\ got' = got
                       /\ E = {} \/ Fault("router")
    BY <1>7 DEF RouterRelays
  <2>2. CASE p.id[1] = n /\ l \in Duty(p)
    <3>1. PICK x : \/ C' \subseteq (C \ {p}) \cup {x}
                   \/ /\ E # {}
                      /\ \E y : C' \subseteq ((C \ {p}) \cup {x}) \cup {y}
      BY <2>1, <2>2, CopiesRelayed
    <3>2. p \in C
      BY <2>1, <2>2, CopiesRelayed
    <3>3. ~Pending(n, l)'
      BY <1>3, <3>2, PendingShrinks
    <3>4. CASE C' \subseteq (C \ {p}) \cup {x}
      <4>1. IsFiniteSet(C') /\ Cardinality(C') <= Cardinality(C)
        BY <1>3, <3>2, <3>4, OneForOne
      <4>2. Cardinality(C') \in Nat
        BY <4>1, FS_CardinalityType
      <4>3. QED  BY <1>2, <1>3, <3>3, <4>1, <4>2
    <3>5. ASSUME E # {}, NEW y, C' \subseteq ((C \ {p}) \cup {x}) \cup {y}
          PROVE  /\ IsFiniteSet(C') /\ Cardinality(C') \in Nat
                 /\ Cardinality(C') <= 1 + RouterErrors'
      <4>1. IsFiniteSet(C') /\ Cardinality(C') <= Cardinality(C) + 1
        BY <1>3, <3>2, <3>5, OneForOne
      <4>2. Cardinality(C') \in Nat
        BY <4>1, FS_CardinalityType
      <4>3. RouterErrors' = RouterErrors + 1
        <5>1. faults \in Seq({"sendto", "router"})
          BY BaseParts DEF Rest
        <5>2. QED  BY <2>1, <3>5, <5>1, FaultCounts
      <4>4. QED  BY <1>2, <1>3, <4>1, <4>2, <4>3
    <3>6. QED  BY <3>1, <3>3, <3>4, <3>5
  <2>3. CASE ~(p.id[1] = n /\ l \in Duty(p))
    BY <2>1, <2>3, CopiesRelayed
  <2>4. QED  BY <2>2, <2>3
<1>8. CASE ReceiverTakes
  <2>1. flight' \cup got' = flight \cup got
    BY <1>8, Received DEF ReceiverTakes
  <2>2. C' = C
    BY <2>1 DEF Copies, Duty, Undelivered, Section, At
  <2>3. QED  BY <2>2
<1>9. QED  BY <1>5, <1>6, <1>7, <1>8, StepKinds

LEMMA CountInvariant == Spec => [](Base /\ AllCounted)
<1>1. Init => Base /\ AllCounted
  BY BaseInit, CountedInit
<1>2. Base /\ AllCounted /\ [Next]_vars => (Base /\ AllCounted)'
  BY BaseStep, CountedStep
<1>3. QED  BY <1>1, <1>2, PTL DEF Spec

\* What packets have to reach is receivers.
LEMMA DutyType ==
    ASSUME NEW p, PacketOK(p)
    PROVE  /\ Duty(p) \subseteq Leaf /\ p.dst \in Leaf
           /\ p.id[1] \in Nat
<1>1. p.dst \in Leaf /\ p.id \in Seq(Nat) /\ Len(p.id) >= 1
  BY DEF PacketOK, Packet
<1>2. CASE p.hdr = Null
  BY <1>1, <1>2 DEF Duty
<1>3. CASE p.hdr # Null
  <2>1. /\ p.hdr \in Headers /\ p.dlvm \subseteq p.hdr.rtm
        /\ Duty(p) = UNION {Served(p.hdr, i) : i \in p.dlvm}
    BY <1>3, HeaderDuty
  <2>2. ASSUME NEW i \in p.dlvm PROVE Served(p.hdr, i) \subseteq Leaf
    BY <2>1, SectionFacts DEF Served
  <2>3. Duty(p) \subseteq Leaf
    BY <2>1, <2>2
  <2>4. QED  BY <1>1, <2>3
<1>4. QED  BY <1>2, <1>3

LEMMA OneElement ==
    ASSUME NEW S, IsFiniteSet(S), Cardinality(S) <= 1, NEW x \in S, NEW y \in S
    PROVE  x = y
<1>1. /\ IsFiniteSet(S \ {x}) /\ Cardinality(S \ {x}) = Cardinality(S) - 1
      /\ Cardinality(S) \in Nat /\ Cardinality(S \ {x}) \in Nat
  BY FS_RemoveElement, FS_CardinalityType
<1>2. Cardinality(S \ {x}) = 0
  BY <1>1
<1>3. S \ {x} = {}
  BY <1>1, <1>2, FS_EmptySet
<1>4. QED  BY <1>3

\* No receiver gets a datagram more than once, and once more for every error of a
\* router halfway through a list: tx takes the group once for a datagram, grouping
\* puts a receiver in it once, and md_data_rcv shares out what a packet has to reach.
THEOREM DeliveredAtMostOnce == Spec => []AtMostOnce
<1>1. Base /\ AllCounted => AtMostOnce
  <2> SUFFICES ASSUME Base, AllCounted, NEW q \in got
               PROVE  Cardinality({p \in got : p.id[1] = q.id[1] /\ p.dst = q.dst})
                        <= 1 + RouterErrors
    BY DEF AtMostOnce
  <2>1. \A p \in flight \cup got : PacketOK(p)
    BY DEF Base
  <2> DEFINE n == q.id[1]
             T == {p \in got : p.id[1] = q.id[1] /\ p.dst = q.dst}
  <2>2. n \in Nat /\ q.dst \in Leaf
    BY <2>1, DutyType
  <2>3. Counted(n, q.dst)
    BY <2>2 DEF AllCounted
  <2>4. T \subseteq Copies(n, q.dst)
    BY <2>1 DEF Copies, PacketOK
  <2>5. /\ IsFiniteSet(Copies(n, q.dst))
        /\ Cardinality(Copies(n, q.dst)) <= 1 + RouterErrors
    BY <2>3 DEF Counted
  <2>6. /\ IsFiniteSet(T) /\ Cardinality(T) <= Cardinality(Copies(n, q.dst))
    BY <2>4, <2>5, FS_Subset
  <2>7. Cardinality(T) \in Nat /\ Cardinality(Copies(n, q.dst)) \in Nat
    BY <2>5, <2>6, FS_CardinalityType
  <2>8. RouterErrors \in Nat
    BY ErrorsFinite, BaseParts DEF Rest
  <2>9. QED  BY <2>5, <2>6, <2>7, <2>8
<1>2. QED  BY <1>1, CountInvariant, PTL

\* A bit of a delivery map tells the truth while no router has failed: nobody below
\* its router has got the datagram, or gets it by another packet.  Routing may
\* change and another group may be published at any time.
THEOREM MapTellsTruth == Spec => []DeliveryMapTruthful
<1>1. Base /\ AllCounted => DeliveryMapTruthful
  <2> SUFFICES ASSUME Base, AllCounted, RouterErrors = 0,
                      NEW p \in flight, NEW q \in flight \cup got,
                      p # q, p.id[1] = q.id[1], NEW l \in Duty(p), l \in Duty(q)
               PROVE  FALSE
    BY DEF DeliveryMapTruthful
  <2>1. PacketOK(p)
    BY DEF Base
  <2>2. p.id[1] \in Nat /\ l \in Leaf
    BY <2>1, DutyType
  <2>3. Counted(p.id[1], l)
    BY <2>2 DEF AllCounted
  <2>4. p \in Copies(p.id[1], l) /\ q \in Copies(p.id[1], l)
    BY DEF Copies
  <2>5. IsFiniteSet(Copies(p.id[1], l)) /\ Cardinality(Copies(p.id[1], l)) <= 1
    BY <2>3 DEF Counted
  <2>6. QED  BY <2>4, <2>5, OneElement
<1>2. QED  BY <1>1, CountInvariant, PTL

-----------------------------------------------------------------------------
\* What a receiver sees.

\* All packets of the datagram at hand have the port in the buffer: tx_uni corrects
\* it with the first of them.
Ported ==
    /\ \A p, q \in flight \cup got : p.id[1] = q.id[1] => p.port = q.port
    /\ \A p \in flight \cup got : p.id[1] <= nread
    /\ pc # "read" =>
           \A p \in flight \cup got :
               p.id[1] = nread => p.port = port /\ (pc = "uni" => port = PeerPort)

LEMMA PortedStep ==
    ASSUME Base, Ported, [Next]_vars
    PROVE  Ported'
<1>1. nread \in Nat /\ \A p \in flight \cup got : p.id[1] \in Nat
  <2>1. nread \in Nat
    BY BoundsAssumption DEF Base, TypeOK
  <2>2. QED  BY <2>1, DutyType DEF Base
<1>2. CASE PacketsStay /\ (read \/ tx_uni_done \/ tx_mdc_done \/ set_txg \/ Reroute
                              \/ sendto_error \/ UNCHANGED vars)
  <2>1. CASE read
    <3>1. nread' = nread + 1 /\ nread + 1 # nread
      BY <1>1, <2>1 DEF read
    <3>2. \A p \in flight \cup got : p.id[1] <= nread + 1 /\ p.id[1] # nread + 1
      BY <1>1 DEF Ported
    <3>3. QED  BY <1>2, <3>1, <3>2 DEF Ported, PacketsStay
  <2>2. CASE tx_uni_done
    BY <1>2, <2>2 DEF Ported, PacketsStay, tx_uni_done
  <2>3. CASE tx_mdc_done
    BY <1>2, <2>3 DEF Ported, PacketsStay, tx_mdc_done
  <2>4. CASE sendto_error
    BY <1>2, <2>4 DEF Ported, PacketsStay, sendto_error
  <2>5. CASE set_txg \/ Reroute \/ UNCHANGED vars
    <3>1. UNCHANGED <<nread, pc, port>>
      BY <2>5 DEF set_txg, Reroute, vars, tx_vars
    <3>2. QED  BY <1>2, <3>1 DEF Ported, PacketsStay
  <2>6. QED  BY <1>2, <2>1, <2>2, <2>3, <2>4, <2>5
<1>3. CASE tx_uni
  <2>1. PICK q : flight' = flight \cup {q} /\ q.id[1] = nread /\ q.port = PeerPort
    BY <1>3, UniSends DEF Sends
  <2>2. nread <= nread
    BY <1>1
  <2>3. QED  BY <1>3, <2>1, <2>2 DEF Ported, tx_uni
<1>4. CASE tx_mdc
  <2>1. PICK q : flight' = flight \cup {q} /\ q.id[1] = nread /\ q.port = port
    BY <1>4, MdcSends DEF Sends
  <2>2. nread <= nread
    BY <1>1
  <2>3. QED  BY <1>4, <2>1, <2>2 DEF Ported, tx_mdc
<1>5. CASE RouterRelays
  <2>1. PICK p, N, E : Handled(p, N, E) /\ got' = got
    BY <1>5 DEF RouterRelays
  <2>2. UNCHANGED <<nread, pc, port>>
    BY <1>5 DEF RouterRelays, tx_vars
  <2>3. \A q \in flight' \cup got' : \E u \in flight \cup got :
            q.id[1] = u.id[1] /\ q.port = u.port
    BY <2>1 DEF Handled, Shares
  <2>4. QED  BY <2>2, <2>3 DEF Ported
<1>6. CASE ReceiverTakes
  <2>1. flight' \cup got' = flight \cup got
    BY <1>6, Received DEF ReceiverTakes
  <2>2. UNCHANGED <<nread, pc, port>>
    BY <1>6 DEF ReceiverTakes, Receive, tx_vars
  <2>3. QED  BY <2>1, <2>2 DEF Ported
<1>7. QED  BY <1>2, <1>3, <1>4, <1>5, <1>6, StepKinds DEF SenderSends

\* Going on, a packet meets what is still ahead of it.
LEMMA MeetsStart ==
    ASSUME NEW x \in Router \cup Leaf, NEW l, NEW Stop
    PROVE  x \in Meets(x, l, Stop)
BY DEF Meets

LEMMA MeetsNext ==
    ASSUME NEW x, NEW l \in Leaf, NEW Stop, NEW y \in Meets(x, l, Stop),
           y \in Router, y \notin Stop
    PROVE  Discovered[y][l] \in Meets(x, l, Stop)
<1>1. Discovered[y][l] \in Router \cup Leaf
  BY NetworkAssumption
<1>2. QED  BY <1>1 DEF Meets

LEMMA MeetsAhead ==
    ASSUME NEW x \in Router, NEW l \in Leaf, NEW y \in Meets(x, l, {}), y # x
    PROVE  y \in Meets(Discovered[x][l], l, {})
<1> SUFFICES ASSUME NEW S \in SUBSET (Router \cup Leaf), Discovered[x][l] \in S,
                    \A z \in S \cap (Router \ {}) : Discovered[z][l] \in S
             PROVE  y \in S
  BY DEF Meets
<1> DEFINE U == S \cup {x}
<1>1. U \in SUBSET (Router \cup Leaf) /\ x \in U
  OBVIOUS
<1>2. \A z \in U \cap (Router \ {}) : Discovered[z][l] \in U
  OBVIOUS
<1> HIDE DEF U
<1>3. y \in U
  BY <1>1, <1>2 DEF Meets
<1>4. QED  BY <1>3 DEF U

LEMMA MeetsAtLeaf ==
    ASSUME NEW x \in Leaf, NEW l, NEW Stop, NEW y \in Meets(x, l, Stop)
    PROVE  y = x
<1>1. {x} \in SUBSET (Router \cup Leaf) /\ x \in {x}
  OBVIOUS
<1>2. \A z \in {x} \cap (Router \ Stop) : Discovered[z][l] \in {x}
  BY NetworkAssumption
<1> DEFINE U == {x}
<1> HIDE DEF U
<1>3. y \in U
  BY <1>1, <1>2 DEF Meets, U
<1>4. QED  BY <1>3 DEF U

\* What the groups have to do with the routing, of a header.
LEMMA Ways ==
    ASSUME NEW h \in Headers
    PROVE  LET met == Meets(Discovered[Sender][At(h, 1)], At(h, 1), Capable) IN
           /\ met \cap Leaf = {}
           /\ \A c \in met \cap Capable, i \in h.rtm :
                  At(h, i) \in Capable /\ At(h, i) \in Meets(c, At(h, i + 1), {})
BY WaysAssumption DEF Headers

\* A packet that follows its header: whole, on the way to the first receiver before
\* any MEADcast router, or for one section, with its router ahead.
Whole(p) ==
    /\ p.dlvm = p.hdr.rtm /\ p.dst = At(p.hdr, 1)
    /\ p.at \in Meets(Discovered[Sender][p.dst], p.dst, Capable)
Split(p, i) ==
    /\ p.dlvm = {i} /\ p.dst = At(p.hdr, i + 1)
    /\ At(p.hdr, i) \in Capable
    /\ At(p.hdr, i) \in Meets(p.at, p.dst, {})
OnItsWay(p) == Whole(p) \/ \E i \in p.hdr.rtm : Split(p, i)

Untroubled == ~rerouted /\ RouterErrors = 0

Straight ==
    /\ ~rerouted => routing = Discovered
    /\ Untroubled =>
           /\ \A p \in flight : p.hdr # Null => OnItsWay(p)
           /\ \A p \in got : p.hdr = Null

\* md_data_rcv keeps its copies on their way ...
LEMMA ReplicaOnItsWay ==
    ASSUME TypeOK, routing = Discovered,
           NEW p, PacketOK(p), p.hdr # Null, p.at \in Capable, OnItsWay(p),
           NEW i \in p.dlvm, ~ConvertsHere(p, i)
    PROVE  OnItsWay(Replica(p, i))
<1>1. /\ p.hdr \in Headers /\ i \in p.hdr.rtm /\ p.at \in Router /\ p.dst \in Leaf
  BY HeaderDuty, DutyType, NetworkAssumption
<1>2. i + 1 \in Section(p.hdr, i) /\ At(p.hdr, i + 1) \in Leaf /\ i \in Nat
  BY <1>1, SectionFacts
<1>3. At(p.hdr, i) # p.at
  BY DEF ConvertsHere
<1>4. At(p.hdr, i) \in Capable /\ At(p.hdr, i) \in Meets(p.at, At(p.hdr, i + 1), {})
  <2>1. CASE Whole(p)
    BY <1>1, <2>1, Ways DEF Whole
  <2>2. CASE \E m \in p.hdr.rtm : Split(p, m)
    BY <2>2 DEF Split
  <2>3. QED  BY <2>1, <2>2 DEF OnItsWay
<1>5. PICK q : q = Replica(p, i)
  OBVIOUS
<1>6. /\ q.hdr = p.hdr /\ q.dst = At(p.hdr, i + 1) /\ q.dlvm = {i}
      /\ q.at = Discovered[p.at][At(p.hdr, i + 1)]
  BY <1>1, <1>5, ReplicaPacket
<1>7. At(p.hdr, i) \in Meets(q.at, q.dst, {})
  BY <1>1, <1>2, <1>3, <1>4, <1>6, MeetsAhead
<1>8. Split(q, i)
  BY <1>4, <1>6, <1>7 DEF Split
<1>9. QED  BY <1>1, <1>5, <1>6, <1>8 DEF OnItsWay

\* ... and so does a router without MEADcast.
LEMMA ForwardedOnItsWay ==
    ASSUME TypeOK, routing = Discovered,
           NEW p, PacketOK(p), p.hdr # Null, p.at \in Router, p.at \notin Capable,
           OnItsWay(p)
    PROVE  OnItsWay(Onward(p, p.dst, p.id, p.hdr, p.dlvm))
<1>1. p.dst \in Leaf /\ p.id \in Seq(Nat) /\ Len(p.id) >= 1
  BY DutyType DEF PacketOK, Packet
<1>2. PICK q : q = Onward(p, p.dst, p.id, p.hdr, p.dlvm)
  OBVIOUS
<1>3. /\ q.hdr = p.hdr /\ q.dst = p.dst /\ q.dlvm = p.dlvm
      /\ q.at = Discovered[p.at][p.dst]
  BY <1>1, <1>2, ForwardedPacket
<1>4. CASE Whole(p)
  <2>1. q.at \in Meets(Discovered[Sender][p.dst], p.dst, Capable)
    BY <1>1, <1>3, <1>4, MeetsNext DEF Whole
  <2>2. Whole(q)
    BY <1>3, <1>4, <2>1 DEF Whole
  <2>3. QED  BY <1>2, <2>2 DEF OnItsWay
<1>5. ASSUME NEW i \in p.hdr.rtm, Split(p, i)
      PROVE  OnItsWay(q)
  <2>1. At(p.hdr, i) \in Meets(q.at, q.dst, {})
    BY <1>1, <1>3, <1>5, MeetsAhead DEF Split
  <2>2. Split(q, i)
    BY <1>3, <1>5, <2>1 DEF Split
  <2>3. QED  BY <1>3, <2>2 DEF OnItsWay
<1>6. QED  BY <1>2, <1>4, <1>5 DEF OnItsWay

\* What is on its way has not arrived.
LEMMA NotThereYet ==
    ASSUME NEW p, PacketOK(p), p.hdr # Null, OnItsWay(p)
    PROVE  p.at # p.dst
<1> SUFFICES ASSUME p.at = p.dst PROVE FALSE
  OBVIOUS
<1>1. p.hdr \in Headers /\ p.dst \in Leaf
  BY HeaderDuty, DutyType
<1>2. CASE Whole(p)
  BY <1>1, <1>2, Ways DEF Whole
<1>3. ASSUME NEW i \in p.hdr.rtm, Split(p, i)
      PROVE  FALSE
  <2>1. At(p.hdr, i) = p.dst
    BY <1>1, <1>3, MeetsAtLeaf DEF Split
  <2>2. QED  BY <1>1, <1>3, <2>1, NetworkAssumption DEF Split
<1>4. QED  BY <1>2, <1>3 DEF OnItsWay

LEMMA StraightStep ==
    ASSUME Base, Straight, [Next]_vars
    PROVE  Straight'
<1>1. TypeOK /\ \A p \in flight \cup got : PacketOK(p)
  BY DEF Base
<1>2. CASE Reroute
  BY <1>2 DEF Reroute, Straight, Untroubled
<1>3. CASE RouterError
  <2>1. Fault("router") /\ UNCHANGED net_vars
    BY <1>3 DEF RouterError, set_dst_error, md_data_rcv_error, md_data_fwd_error
  <2>2. faults \in Seq({"sendto", "router"})
    BY <1>1 DEF TypeOK
  <2>3. RouterErrors \in Nat /\ RouterErrors' = RouterErrors + 1
    BY <2>1, <2>2, FaultCounts, ErrorsFinite
  <2>4. RouterErrors' # 0
    <3>1. \A e \in Nat : e + 1 # 0
      OBVIOUS
    <3>2. QED  BY <2>3, <3>1
  <2>5. QED  BY <2>1, <2>4 DEF Straight, Untroubled, net_vars
<1>4. ASSUME UNCHANGED net_vars,
             Untroubled => 
                 /\ \A p \in flight' \ flight : p.hdr # Null => OnItsWay(p)
                 /\ \A p \in got' \ got : p.hdr = Null
      PROVE  Straight'
  <2>1. Untroubled' => Untroubled
    <3>1. RouterErrors' = 0 => RouterErrors = 0
      BY ErrorsGrow
    <3>2. QED  BY <1>4, <3>1 DEF Untroubled, net_vars
  <2>2. ~rerouted' => routing' = Discovered
    BY <1>4 DEF Straight, net_vars
  <2>3. Untroubled' => /\ \A p \in flight' : p.hdr # Null => OnItsWay(p)
                       /\ \A p \in got' : p.hdr = Null
    BY <1>4, <2>1 DEF Straight
  <2>4. QED
    BY <2>2, <2>3 DEF Straight, OnItsWay, Whole, Split, Meets, At
<1>5. CASE PacketsStay /\ UNCHANGED net_vars
  BY <1>4, <1>5 DEF PacketsStay
<1>6. CASE tx_uni
  <2>1. PICK q : flight' = flight \cup {q} /\ q.hdr = Null
    BY <1>6, UniSends DEF Sends
  <2>2. QED  BY <1>4, <1>6, <2>1 DEF tx_uni
<1>7. CASE tx_mdc
  <2>1. PICK q : /\ flight' = flight \cup {q} /\ PacketOK(q)
                 /\ q.hdr = grp.mdc[k] /\ q.dlvm = q.hdr.rtm
                 /\ q.dst = At(q.hdr, 1) /\ q.at = routing[Sender][q.dst]
    BY <1>7, MdcSends DEF Sends
  <2>2. ASSUME Untroubled PROVE OnItsWay(q)
    <3>1. q.at = Discovered[Sender][q.dst] /\ q.at \in Router \cup Leaf
      BY <2>1, <2>2 DEF Straight, Untroubled, PacketOK, Packet
    <3>2. Whole(q)
      BY <2>1, <3>1, MeetsStart DEF Whole
    <3>3. QED  BY <3>2 DEF OnItsWay
  <2>3. QED  BY <1>4, <1>7, <2>1, <2>2 DEF tx_mdc
<1>8. CASE Carry
  <2>1. PICK p \in flight : md_data_rcv(p) \/ ip6_forward(p) \/ Receive(p)
    BY <1>8 DEF Carry
  <2>2. PacketOK(p) /\ (Untroubled => routing = Discovered /\ (p.hdr # Null => OnItsWay(p)))
    BY <1>1 DEF Straight, Untroubled
  <2>3. CASE md_data_rcv(p)
    <3>1. /\ p.at \in Capable /\ p.at \in Router /\ p.hdr # Null
          /\ flight' = (flight \ {p}) \cup Leaving(p)
      BY <2>3, NetworkAssumption DEF md_data_rcv, Leaving
    <3>2. ASSUME Untroubled, NEW q \in Leaving(p), q.hdr # Null PROVE OnItsWay(q)
      <4>1. PICK i \in p.dlvm : q \in md_data_fwd(p, i)
        BY <2>2, <3>1, HeaderDuty DEF Leaving
      <4>2. CASE ConvertsHere(p, i)
        <5>1. PICK j \in Section(p.hdr, i) : q = m2u(p, i, j)
          BY <4>1, <4>2 DEF md_data_fwd
        <5>2. q.hdr = Null
          BY <1>1, <2>2, <3>1, <5>1, UnicastCopy
        <5>3. QED  BY <3>2, <5>2
      <4>3. CASE ~ConvertsHere(p, i)
        <5>1. q = Replica(p, i)
          BY <4>1, <4>3 DEF md_data_fwd
        <5>2. QED  BY <1>1, <2>2, <3>1, <3>2, <4>3, <5>1, ReplicaOnItsWay
      <4>4. QED  BY <4>2, <4>3
    <3>3. UNCHANGED <<got, net_vars>>
      BY <2>3 DEF md_data_rcv
    <3>4. QED  BY <1>4, <3>1, <3>2, <3>3
  <2>4. CASE ip6_forward(p)
    <3>1. PICK q : q = Onward(p, p.dst, p.id, p.hdr, p.dlvm)
      OBVIOUS
    <3>2. /\ p.at \in Router /\ flight' = (flight \ {p}) \cup {q}
          /\ p.at \notin Capable \/ p.hdr = Null
          /\ UNCHANGED <<got, net_vars>>
      BY <2>4, <3>1 DEF ip6_forward
    <3>3. q.hdr = p.hdr
      BY <3>1, OnwardFields
    <3>4. Untroubled /\ q.hdr # Null => OnItsWay(q)
      BY <1>1, <2>2, <3>1, <3>2, <3>3, ForwardedOnItsWay
    <3>5. QED  BY <1>4, <3>2, <3>4
  <2>5. CASE Receive(p)
    <3>1. /\ p.at = p.dst /\ flight' = flight \ {p} /\ got' = got \cup {p}
          /\ UNCHANGED net_vars
      BY <2>5 DEF Receive
    <3>2. Untroubled => p.hdr = Null
      BY <2>2, <3>1, NotThereYet
    <3>3. QED  BY <1>4, <3>1, <3>2
  <2>6. QED  BY <2>1, <2>3, <2>4, <2>5
<1>9. (read \/ tx_uni_done \/ tx_mdc_done \/ set_txg \/ sendto_error \/ UNCHANGED vars)
          => PacketsStay /\ UNCHANGED net_vars
  BY DEF read, tx_uni_done, tx_mdc_done, set_txg, sendto_error, vars, net_vars, PacketsStay
<1>10. QED
  BY <1>2, <1>3, <1>5, <1>6, <1>7, <1>8, <1>9 DEF Next, Transmit, Idle

\* All packets of a datagram reach receivers at one port, and unless the routing has
\* changed or a router has failed they reach them as unicast: before the first MEADcast
\* router a packet is whole, after it the router of its only section is ahead.
THEOREM UnicastSeen == Spec => []ReceiversSeeUnicast
<1>1. Init => Base /\ Ported /\ Straight
  <2>1. Init => Ported /\ Straight
    BY DEF Init, Ported, Straight
  <2>2. QED  BY <2>1, BaseInit
<1>2. Base /\ Ported /\ Straight /\ [Next]_vars => (Base /\ Ported /\ Straight)'
  BY BaseStep, PortedStep, StraightStep
<1>3. Ported /\ Straight => ReceiversSeeUnicast
  BY DEF Ported, Straight, Untroubled, ReceiversSeeUnicast
<1>4. QED  BY <1>1, <1>2, <1>3, PTL DEF Spec

-----------------------------------------------------------------------------
\* Who misses a datagram.

LEMMA NatMin ==
    ASSUME NEW S \in SUBSET Nat, S # {}
    PROVE  \E n \in S : \A m \in S : n <= m
<1> DEFINE R == OpToRel(<, Nat)
<1>1. \A x, y \in Nat : x < y => <<x, y>> \in R
  BY DEF OpToRel
<1>2. IsWellFoundedOn(R, Nat)
  BY NatLessThanWellFounded
<1> HIDE DEF R
<1>3. PICK n \in S : \A m \in S : ~ (<<m, n>> \in R)
  BY <1>2, WFMin
<1>4. \A m \in S : ~ (m < n)
  BY <1>1, <1>3
<1>5. \A m \in S : n <= m
  BY <1>4
<1>6. QED  BY <1>5

LEMMA BoundedMax ==
    ASSUME NEW n \in Nat, NEW S \in SUBSET (0 .. n), S # {}
    PROVE  \E m \in S : \A j \in S : j <= m
<1> DEFINE T == {n - j : j \in S}
<1>1. T \in SUBSET Nat /\ T # {}
  <2>1. \A j \in S : n - j \in Nat
    OBVIOUS
  <2>2. QED  BY <2>1
<1>2. PICK t \in T : \A u \in T : t <= u
  BY <1>1, NatMin
<1>3. PICK m \in S : t = n - m
  BY <1>2
<1>4. ASSUME NEW j \in S PROVE j <= m
  <2>1. t <= n - j
    BY <1>2
  <2>2. QED  BY <1>3, <2>1
<1>5. QED  BY <1>4

\* Every receiver of a header is in the section of the last router before it.
LEMMA HeaderServed ==
    ASSUME NEW h \in Headers, 0 \in h.rtm
    PROVE  InHeader(h) \subseteq UNION {Served(h, i) : i \in h.rtm}
<1> SUFFICES ASSUME NEW j \in 1 .. Len(h.addrs) - 1, At(h, j) \notin Router
             PROVE  \E i \in h.rtm : At(h, j) \in Served(h, i)
  BY DEF InHeader
<1>0. PICK g \in Groups : \E m \in 1 .. Len(g.mdc) : h = g.mdc[m]
  BY DEF Headers
<1>1. HeaderOK(h)
  BY <1>0, GroupsAssumption
<1>2. /\ h.rtm = {n \in 0 .. Len(h.addrs) - 1 : At(h, n) \in Router}
      /\ Len(h.addrs) \in Nat
  BY <1>1 DEF HeaderOK
<1> DEFINE S == {m \in h.rtm : m < j}
<1>3. j \in Nat /\ 0 < j
  BY <1>2
<1>4. S \in SUBSET (0 .. j) /\ S # {}
  <2>1. \A m \in h.rtm : m \in Nat
    BY <1>2
  <2>2. QED  BY <1>3, <2>1
<1>5. PICK i \in S : \A m \in S : m <= i
  BY <1>3, <1>4, BoundedMax
<1>6. ASSUME NEW m \in h.rtm PROVE m <= i \/ j < m
  <2>1. m # j
    BY <1>2
  <2>2. m \in Nat
    BY <1>2
  <2>3. CASE m < j
    BY <1>5, <2>3
  <2>4. CASE ~(m < j)
    BY <1>3, <2>1, <2>2, <2>4
  <2>5. QED  BY <2>3, <2>4
<1>7. j \in Section(h, i)
  BY <1>5, <1>6 DEF Section
<1>8. QED  BY <1>5, <1>7 DEF Served

\* A receiver of a datagram that is read has its packet, or has it before it; one
\* whose packet was refused has none any more.
HasPacket(n, l) == Copies(n, l) # {} \/ (n = nread /\ l \in ToSend)
Refused(n, l) == Copies(n, l) = {} /\ ~Pending(n, l)

AllServed(n, T) ==
    \A m \in 1 .. nread, l \in Leaf :
        IF m = n /\ l \in T THEN Refused(m, l) ELSE HasPacket(m, l)


Accounted ==
    /\ faults = << >> => AllServed(0, {})
    /\ faults = <<"sendto">> => 
           \E n \in 1 .. nread, g \in Groups : \E T \in Tails(g) :
               (n = nread => g = grp) /\ AllServed(n, T)

LEMMA FaultGrows ==
    ASSUME faults \in Seq({"sendto", "router"}), NEW w, Fault(w)
    PROVE  faults' = Append(faults, w) /\ Len(faults') = Len(faults) + 1 /\ faults' # faults
<1>1. faults' = Append(faults, w)
  BY DEF Fault
<1>2. Len(faults') = Len(faults) + 1 /\ Len(faults) \in Nat
  BY <1>1
<1>3. QED  BY <1>1, <1>2

LEMMA ReadServesAll ==
    ASSUME Base, read, NEW l \in Leaf
    PROVE  HasPacket(nread, l)'
<1>1. txg \in Groups /\ nread' = nread + 1
  BY DEF Base, TypeOK, read
<1>2. ToSend' = UniFrom(txg, 1) \cup MdcFrom(txg, 1)
  BY DEF read, ToSend, UniFrom, MdcFrom
<1>3. l \in ToSend'
  BY <1>1, <1>2, AllListed
<1>4. QED  BY <1>1, <1>3 DEF HasPacket, Copies

\* Without an error nobody loses a packet, and nobody gets one that was refused.
LEMMA PacketKept ==
    ASSUME Base, [Next]_vars, faults' = faults, NEW n \in 1 .. nread, NEW l \in Leaf,
           HasPacket(n, l)
    PROVE  HasPacket(n, l)'
<1>0. /\ TypeOK /\ nread \in Nat /\ n \in Nat /\ n <= nread
      /\ k \in Nat /\ k >= 1 /\ (pc # "read" => grp \in Groups)
      /\ \A p \in flight \cup got : PacketOK(p)
  BY BoundsAssumption DEF Base, TypeOK
<1>1. ASSUME flight' \cup got' = flight \cup got,
             n = nread /\ l \in ToSend => nread' = nread /\ l \in ToSend'
      PROVE  HasPacket(n, l)'
  <2>1. Copies(n, l)' = Copies(n, l)
    BY <1>1 DEF Copies, Duty, Undelivered, Section, At
  <2>2. QED  BY <1>1, <2>1 DEF HasPacket
<1>2. CASE PacketsStay /\ (read \/ tx_uni_done \/ tx_mdc_done \/ set_txg \/ Reroute
                              \/ sendto_error \/ UNCHANGED vars)
  <2>1. CASE read
    <3>1. ToSend = {}
      BY <2>1 DEF read, ToSend
    <3>2. QED  BY <1>1, <1>2, <3>1 DEF PacketsStay
  <2>2. CASE tx_uni_done
    <3>1. Len(grp.uni) \in Nat
      BY <1>0, <2>2, ListPlaces DEF tx_uni_done
    <3>2. UniFrom(grp, k) = {}
      BY <1>0, <2>2, <3>1 DEF tx_uni_done, UniFrom
    <3>3. ToSend' = ToSend /\ nread' = nread
      BY <2>2, <3>2 DEF tx_uni_done, ToSend, MdcFrom
    <3>4. QED  BY <1>1, <1>2, <3>3 DEF PacketsStay
  <2>3. CASE tx_mdc_done
    <3>1. Len(grp.mdc) \in Nat
      BY <1>0, <2>3, ListPlaces DEF tx_mdc_done
    <3>2. MdcFrom(grp, k) = {}
      BY <1>0, <2>3, <3>1 DEF tx_mdc_done, MdcFrom
    <3>3. ToSend = {}
      BY <2>3, <3>2 DEF tx_mdc_done, ToSend
    <3>4. QED  BY <1>1, <1>2, <3>3 DEF PacketsStay
  <2>4. CASE set_txg \/ Reroute \/ UNCHANGED vars
    <3>1. UNCHANGED tx_vars
      BY <2>4 DEF set_txg, Reroute, vars
    <3>2. ToSend' = ToSend /\ nread' = nread
      BY <3>1 DEF tx_vars, ToSend, UniFrom, MdcFrom
    <3>3. QED  BY <1>1, <1>2, <3>2 DEF PacketsStay
  <2>5. ~sendto_error
    BY <1>0, FaultGrows DEF sendto_error, TypeOK
  <2>6. QED  BY <1>2, <2>1, <2>2, <2>3, <2>4, <2>5
<1>3. ASSUME NEW q, flight' = flight \cup {q}, got' = got, q.id[1] = nread,
             nread' = nread, ToSend \subseteq ToSend' \cup Duty(q)
      PROVE  HasPacket(n, l)'
  <2>1. Copies(n, l) \subseteq Copies(n, l)'
    BY <1>3 DEF Copies, Duty, Undelivered, Section, At
  <2>2. n = nread /\ l \in Duty(q) => q \in Copies(n, l)'
    BY <1>3 DEF Copies, Duty, Undelivered, Section, At
  <2>3. QED  BY <1>3, <2>1, <2>2 DEF HasPacket
<1>4. CASE tx_uni
  <2>1. PICK q : /\ flight' = flight \cup {q} /\ q.id[1] = nread
                 /\ Duty(q) = {grp.uni[k]}
    BY <1>4, UniSends DEF Sends
  <2>2. grp \in Groups /\ k \in 1 .. Len(grp.uni)
    <3>1. grp \in Groups
      BY <1>0, <1>4 DEF tx_uni
    <3>2. QED  BY <1>0, <1>4, <3>1, ListPlaces DEF tx_uni
  <2>3. UniFrom(grp, k) = UniFrom(grp, k + 1) \cup {grp.uni[k]}
    BY <2>2, UniRest
  <2>4. /\ ToSend = UniFrom(grp, k) \cup MdcFrom(grp, 1)
        /\ ToSend' = UniFrom(grp, k + 1) \cup MdcFrom(grp, 1)
    BY <1>4 DEF tx_uni, ToSend, UniFrom, MdcFrom
  <2>5. got' = got /\ nread' = nread
    BY <1>4 DEF tx_uni
  <2>6. QED  BY <1>3, <2>1, <2>3, <2>4, <2>5
<1>5. CASE tx_mdc
  <2>1. grp \in Groups /\ k \in 1 .. Len(grp.mdc)
    <3>1. grp \in Groups
      BY <1>0, <1>5 DEF tx_mdc
    <3>2. QED  BY <1>0, <1>5, <3>1, ListPlaces DEF tx_mdc
  <2>2. PICK q : /\ flight' = flight \cup {q} /\ q.id[1] = nread
                 /\ q.hdr = grp.mdc[k]
                 /\ Duty(q) = UNION {Served(q.hdr, i) : i \in q.hdr.rtm}
    BY <1>5, MdcSends DEF Sends
  <2>3. InHeader(grp.mdc[k]) \subseteq Duty(q)
    <3>1. grp.mdc[k] \in Headers /\ 0 \in grp.mdc[k].rtm
      BY <2>1, ListPlaces
    <3>2. QED  BY <2>2, <3>1, HeaderServed
  <2>4. MdcFrom(grp, k) = MdcFrom(grp, k + 1) \cup InHeader(grp.mdc[k])
    BY <2>1, MdcRest
  <2>5. ToSend = MdcFrom(grp, k) /\ ToSend' = MdcFrom(grp, k + 1)
    BY <1>5 DEF tx_mdc, ToSend, MdcFrom
  <2>6. got' = got /\ nread' = nread
    BY <1>5 DEF tx_mdc
  <2>7. QED  BY <1>3, <2>2, <2>3, <2>4, <2>5, <2>6
<1>6. CASE RouterRelays
  <2>1. ~Fault("router")
    BY <1>0, FaultGrows DEF TypeOK
  <2>2. PICK p, N : Handled(p, N, {}) /\ Relayed(p, N) /\ got' = got
    BY <1>6, <2>1 DEF RouterRelays
  <2>3. ToSend' = ToSend /\ nread' = nread
    BY <1>6 DEF RouterRelays, tx_vars, ToSend, UniFrom, MdcFrom
  <2>4. ASSUME NEW u \in Copies(n, l) PROVE Copies(n, l)' # {}
    <3>1. u \in flight \cup got /\ u.id[1] = n /\ l \in Duty(u)
      BY DEF Copies
    <3>2. CASE u # p
      <4>1. u \in flight' \cup got'
        BY <2>2, <3>1, <3>2 DEF Relayed
      <4>2. QED  BY <3>1, <4>1 DEF Copies, Duty, Undelivered, Section, At
    <3>3. CASE u = p
      <4>1. PICK q \in N : l \in Duty(q)
        BY <2>2, <3>1, <3>3 DEF Relayed
      <4>2. q \in flight' /\ q.id[1] = n
        BY <2>2, <3>1, <3>3 DEF Relayed, Handled, Shares
      <4>3. QED  BY <4>1, <4>2 DEF Copies, Duty, Undelivered, Section, At
    <3>4. QED  BY <3>2, <3>3
  <2>5. QED  BY <2>3, <2>4 DEF HasPacket
<1>7. CASE ReceiverTakes
  <2>1. flight' \cup got' = flight \cup got
    BY <1>7, Received DEF ReceiverTakes
  <2>2. ToSend' = ToSend /\ nread' = nread
    BY <1>7 DEF ReceiverTakes, Receive, tx_vars, ToSend, UniFrom, MdcFrom
  <2>3. QED  BY <1>1, <2>1, <2>2
<1>8. QED  BY <1>2, <1>4, <1>5, <1>6, <1>7, StepKinds DEF SenderSends

LEMMA RefusedKept ==
    ASSUME Base, AllCounted, [Next]_vars, faults' = faults, NEW n \in Nat, NEW l \in Leaf,
           Refused(n, l)
    PROVE  Refused(n, l)'
<1>1. ~Pending(n, l)'
  BY PendingShrinks DEF Refused
<1>2. Copies(n, l) = {} /\ ~Pending(n, l)
  BY DEF Refused
<1>3. CASE flight' \cup got' = flight \cup got
  BY <1>2, <1>3, <1>1 DEF Refused, Copies, Duty, Undelivered, Section, At
<1>4. CASE SenderSends
  <2>1. PICK q : /\ flight' = flight \cup {q} /\ got' = got /\ q.id[1] = nread
                 /\ \/ tx_uni /\ Duty(q) \subseteq {grp.uni[k]}
                    \/ tx_mdc /\ Duty(q) \subseteq InHeader(grp.mdc[k])
    BY <1>4 DEF SenderSends, Sends
  <2>2. ~(n = nread /\ l \in Duty(q))
    <3>1. SUFFICES ASSUME n = nread, l \in Duty(q) PROVE Pending(n, l)
      BY <1>2
    <3>2. (tx_uni /\ l = grp.uni[k]) \/ (tx_mdc /\ l \in InHeader(grp.mdc[k]))
      BY <2>1, <3>1
    <3>3. Pending(nread, l)
      BY <3>2, SentPending
    <3>4. QED  BY <3>1, <3>3
  <2>3. Copies(n, l)' = {}
    BY <1>2, <2>1, <2>2 DEF Copies, Duty, Undelivered, Section, At
  <2>4. QED  BY <1>1, <2>3 DEF Refused
<1>5. CASE RouterRelays
  <2>1. PICK p, N, E : Handled(p, N, E) /\ got' = got
    BY <1>5 DEF RouterRelays
  <2>2. Copies(n, l)' \subseteq Copies(n, l)
    BY <1>2, <2>1, CopiesRelayed
  <2>3. QED  BY <1>1, <1>2, <2>2 DEF Refused
<1>6. QED  BY <1>3, <1>4, <1>5, StepKinds, Received DEF PacketsStay, ReceiverTakes

LEMMA TailsOfReceivers ==
    ASSUME NEW g \in Groups, NEW T \in Tails(g)
    PROVE  T \subseteq Leaf
<1>1. CASE \E m \in 1 .. Len(g.uni) : T = UniFrom(g, m)
  <2>1. PICK m \in 1 .. Len(g.uni) : T = UniFrom(g, m)
    BY <1>1
  <2>2. ASSUME NEW i \in m .. Len(g.uni) PROVE g.uni[i] \in Leaf
    <3>1. i \in 1 .. Len(g.uni)
      BY ListPlaces
    <3>2. QED  BY <3>1, ListPlaces
  <2>3. QED  BY <2>1, <2>2 DEF UniFrom
<1>2. CASE \E m \in 1 .. Len(g.mdc) : T = MdcFrom(g, m)
  <2>1. PICK m \in 1 .. Len(g.mdc) : T = MdcFrom(g, m)
    BY <1>2
  <2>2. ASSUME NEW i \in m .. Len(g.mdc) PROVE InHeader(g.mdc[i]) \subseteq Leaf
    <3>1. i \in 1 .. Len(g.mdc)
      BY ListPlaces
    <3>2. QED  BY <3>1, HeaderPlaces
  <2>3. QED  BY <2>1, <2>2 DEF MdcFrom, InHeader
<1>3. QED  BY <1>1, <1>2 DEF Tails

\* The step in which sendto refuses a packet.
LEMMA ErrorAccounted ==
    ASSUME Base, AllCounted, sendto_error, AllServed(0, {}), pc # "read" => nread >= 1
    PROVE  \E T \in Tails(grp) : nread \in 1 .. nread /\ AllServed(nread, T)'
<1>0. /\ TypeOK /\ nread \in Nat /\ k \in Nat /\ k >= 1 /\ (pc # "read" => grp \in Groups)
  BY BoundsAssumption DEF Base, TypeOK
<1>1. \A n \in 1 .. nread, l \in Leaf : HasPacket(n, l)
  BY <1>0 DEF AllServed
<1>2. \A n \in Nat, l \in Leaf : Pending(n, l) => Copies(n, l) = {}
  BY DEF AllCounted, Counted
<1>3. grp' = grp /\ nread' = nread /\ flight' = flight /\ got' = got /\ grp \in Groups
  BY <1>0 DEF sendto_error
<1>4. \A n, l : Copies(n, l)' = Copies(n, l)
  BY <1>3 DEF Copies, Duty, Undelivered, Section, At
<1>5. ASSUME NEW T, T \subseteq ToSend, ToSend = T \cup ToSend', T \cap ToSend' = {}
      PROVE  AllServed(nread, T)'
  <2> SUFFICES ASSUME NEW n \in 1 .. nread, NEW l \in Leaf
               PROVE  IF n = nread /\ l \in T THEN Refused(n, l)' ELSE HasPacket(n, l)'
    BY <1>3 DEF AllServed
  <2>1. n \in Nat /\ n <= nread
    BY <1>0
  <2>2. CASE n = nread /\ l \in T
    <3>1. Copies(n, l) = {}
      BY <1>2, <1>5, <2>1, <2>2 DEF Pending
    <3>2. ~Pending(n, l)'
      BY <1>0, <1>3, <1>5, <2>2 DEF Pending
    <3>3. QED  BY <1>4, <2>2, <3>1, <3>2 DEF Refused
  <2>3. CASE ~(n = nread /\ l \in T)
    BY <1>1, <1>3, <1>4, <1>5, <2>3 DEF HasPacket
  <2>4. QED  BY <2>2, <2>3
<1>6. CASE pc = "uni" /\ k <= Len(grp.uni) /\ pc' = "mdc"
  <2>1. k \in 1 .. Len(grp.uni)
    BY <1>0, <1>3, <1>6, ListPlaces
  <2>0. PICK T : T = UniFrom(grp, k)
    OBVIOUS
  <2>2. T \in Tails(grp)
    BY <2>0, <2>1 DEF Tails
  <2>3. ToSend = T \cup MdcFrom(grp, 1) /\ ToSend' = MdcFrom(grp, 1)
    BY <1>3, <1>6, <2>0 DEF sendto_error, ToSend, MdcFrom, UniFrom
  <2>4. T \cap MdcFrom(grp, 1) = {}
    <3>1. ASSUME NEW i \in k .. Len(grp.uni), NEW m \in 1 .. Len(grp.mdc)
          PROVE  grp.uni[i] \notin InHeader(grp.mdc[m])
      <4>1. i \in 1 .. Len(grp.uni)
        BY <1>0, <1>3, ListPlaces
      <4>2. QED  BY <1>3, <4>1, UniMdcDisjoint
    <3>2. QED  BY <2>0, <3>1 DEF MdcFrom, InHeader, UniFrom
  <2>5. AllServed(nread, T)'
    BY <1>5, <2>3, <2>4
  <2>6. nread \in 1 .. nread
    BY <1>0, <1>6
  <2>7. QED  BY <2>2, <2>5, <2>6
<1>7. CASE pc = "mdc" /\ k <= Len(grp.mdc) /\ pc' = "read"
  <2>1. k \in 1 .. Len(grp.mdc)
    BY <1>0, <1>3, <1>7, ListPlaces
  <2>0. PICK T : T = MdcFrom(grp, k)
    OBVIOUS
  <2>2. T \in Tails(grp)
    BY <2>0, <2>1 DEF Tails
  <2>3. ToSend = T /\ ToSend' = {}
    BY <1>3, <1>7, <2>0 DEF sendto_error, ToSend, MdcFrom
  <2>4. AllServed(nread, T)'
    BY <1>5, <2>3
  <2>5. nread \in 1 .. nread
    BY <1>0, <1>7
  <2>6. QED  BY <2>2, <2>4, <2>5
<1>8. QED  BY <1>6, <1>7 DEF sendto_error

LEMMA AccountedStep ==
    ASSUME Base, AllCounted, Accounted, pc # "read" => nread >= 1, [Next]_vars
    PROVE  Accounted' /\ (pc # "read" => nread >= 1)'
<1>0. /\ faults \in Seq({"sendto", "router"}) /\ nread \in Nat
      /\ nread' \in Nat /\ nread <= nread'
  <2>1. nread' = nread \/ nread' = nread + 1
    BY DEF Next, Transmit, Carry, Idle, read, tx_uni, tx_uni_done, tx_mdc, tx_mdc_done,
           set_txg, md_data_rcv, ip6_forward, Receive, Reroute, sendto_error, RouterError,
           set_dst_error, md_data_rcv_error, md_data_fwd_error, vars, tx_vars
  <2>2. nread \in Nat
    BY BoundsAssumption DEF Base, TypeOK
  <2>3. QED  BY <2>1, <2>2 DEF Base, TypeOK
<1>1. (pc # "read" => nread >= 1)'
  BY <1>0 DEF Next, Transmit, Carry, Idle, read, tx_uni, tx_uni_done, tx_mdc, tx_mdc_done,
         set_txg, md_data_rcv, ip6_forward, Receive, Reroute, sendto_error, RouterError,
         set_dst_error, md_data_rcv_error, md_data_fwd_error, vars, tx_vars
<1>2. ASSUME faults' = faults, NEW n \in Nat, NEW T, AllServed(n, T), n <= nread,
             n = 0 => T = {}
      PROVE  AllServed(n, T)'
  <2> SUFFICES ASSUME NEW m \in 1 .. nread', NEW l \in Leaf
               PROVE  IF m = n /\ l \in T THEN Refused(m, l)' ELSE HasPacket(m, l)'
    BY DEF AllServed
  <2>1. CASE m \in 1 .. nread
    <3>1. IF m = n /\ l \in T THEN Refused(m, l) ELSE HasPacket(m, l)
      BY <1>2, <2>1 DEF AllServed
    <3>2. QED  BY <1>2, <2>1, <3>1, PacketKept, RefusedKept
  <2>2. CASE m \notin 1 .. nread
    <3>1. nread' # nread
      BY <2>2
    <3>2. read
      BY <3>1 DEF Next, Transmit, Carry, Idle, tx_uni, tx_uni_done, tx_mdc, tx_mdc_done,
           set_txg, md_data_rcv, ip6_forward, Receive, Reroute, sendto_error, RouterError,
           set_dst_error, md_data_rcv_error, md_data_fwd_error, vars, tx_vars
    <3>3. nread' = nread + 1
      BY <3>2 DEF read
    <3>4. m = nread' /\ m # n
      BY <1>0, <1>2, <2>2, <3>3
    <3>5. HasPacket(m, l)'
      BY <3>2, <3>4, ReadServesAll DEF HasPacket, Copies
    <3>6. QED  BY <3>4, <3>5
  <2>3. QED  BY <2>1, <2>2
<1>3. CASE faults' = faults
  <2>1. CASE faults = << >>
    <3>1. AllServed(0, {})'
      BY <1>0, <1>2, <1>3, <2>1 DEF Accounted
    <3>2. faults' # <<"sendto">>
      BY <1>3, <2>1
    <3>3. QED  BY <1>1, <3>1, <3>2 DEF Accounted
  <2>2. CASE faults = <<"sendto">>
    <3>1. PICK n \in 1 .. nread, g \in Groups : \E T \in Tails(g) :
                  (n = nread => g = grp) /\ AllServed(n, T)
      BY <2>2 DEF Accounted
    <3>2. PICK T \in Tails(g) : (n = nread => g = grp) /\ AllServed(n, T)
      BY <3>1
    <3>3. AllServed(n, T)'
      BY <1>0, <1>2, <1>3, <3>2
    <3>4. n = nread' => g = grp'
      <4>1. nread' = nread => grp' = grp
        BY <1>0 DEF Next, Transmit, Carry, Idle, read, tx_uni, tx_uni_done, tx_mdc,
           tx_mdc_done, set_txg, md_data_rcv, ip6_forward, Receive, Reroute, sendto_error,
           RouterError, set_dst_error, md_data_rcv_error, md_data_fwd_error, vars, tx_vars
      <4>2. QED  BY <1>0, <3>2, <4>1
    <3>5. n \in 1 .. nread'
      BY <1>0
    <3>6. faults' # << >>
      BY <1>3, <2>2
    <3>7. QED  BY <1>1, <3>3, <3>4, <3>5, <3>6 DEF Accounted, Tails, UniFrom, MdcFrom, At
  <2>3. CASE faults # << >> /\ faults # <<"sendto">>
    BY <1>1, <1>3, <2>3 DEF Accounted
  <2>4. QED  BY <2>1, <2>2, <2>3
<1>4. CASE faults' # faults
  <2>1. sendto_error \/ Fault("router")
    BY <1>4 DEF Next, Transmit, Carry, Idle, read, tx_uni, tx_uni_done, tx_mdc, tx_mdc_done,
         set_txg, md_data_rcv, ip6_forward, Receive, Reroute, RouterError,
         set_dst_error, md_data_rcv_error, md_data_fwd_error, vars
  <2>2. CASE Fault("router")
    <3>1. faults' = Append(faults, "router")
      BY <2>2 DEF Fault
    <3>2. Len(faults) \in Nat /\ faults'[Len(faults) + 1] = "router"
          /\ Len(faults') = Len(faults) + 1
      BY <1>0, <3>1
    <3>3. faults' # << >> /\ faults' # <<"sendto">>
      BY <3>2
    <3>4. QED  BY <1>1, <3>3 DEF Accounted
  <2>3. CASE sendto_error
    <3>1. faults' = Append(faults, "sendto") /\ Len(faults') = Len(faults) + 1
      BY <1>0, <2>3, FaultGrows DEF sendto_error
    <3>2. faults' # << >>
      BY <1>0, <3>1
    <3>3. CASE faults = << >>
      <4>1. AllServed(0, {})
        BY <3>3 DEF Accounted
      <4>2. PICK T \in Tails(grp) : nread \in 1 .. nread /\ AllServed(nread, T)'
        BY <2>3, <4>1, ErrorAccounted
      <4>3. grp \in Groups /\ grp' = grp /\ nread' = nread
        BY <2>3 DEF Base, TypeOK, sendto_error
      <4>4. QED
        BY <1>1, <3>2, <4>2, <4>3 DEF Accounted, Tails, UniFrom, MdcFrom, At
    <3>4. CASE faults # << >>
      <4>1. Len(faults) \in Nat /\ Len(faults) # 0
        BY <1>0, <3>4
      <4>2. faults' # <<"sendto">>
        BY <3>1, <4>1
      <4>3. QED  BY <1>1, <3>2, <4>2 DEF Accounted
    <3>5. QED  BY <3>3, <3>4
  <2>4. QED  BY <2>1, <2>2, <2>3
<1>5. QED  BY <1>3, <1>4

\* The invariant of the whole way of the data.
Inv ==
    /\ Base /\ AllCounted /\ Ported /\ Straight
    /\ Accounted /\ (pc # "read" => nread >= 1)

LEMMA Invariant == Spec => []Inv
<1>1. Init => Inv
  <2>1. ASSUME Init PROVE Ported /\ Straight /\ Accounted /\ (pc # "read" => nread >= 1)
    <3>1. faults = << >> /\ nread = 0
      BY <2>1 DEF Init
    <3>2. << >> # <<"sendto">>
      OBVIOUS
    <3>3. Accounted
      BY <3>1, <3>2 DEF Accounted, AllServed
    <3>4. QED  BY <2>1, <3>3 DEF Init, Ported, Straight
  <2>2. QED  BY <2>1, BaseInit, CountedInit DEF Inv
<1>2. Inv /\ [Next]_vars => Inv'
  <2> SUFFICES ASSUME Inv, [Next]_vars PROVE Inv'
    OBVIOUS
  <2>1. Base' /\ AllCounted' /\ Ported' /\ Straight'
    BY BaseStep, CountedStep, PortedStep, StraightStep DEF Inv
  <2>2. Accounted' /\ (pc # "read" => nread >= 1)'
    BY AccountedStep DEF Inv
  <2>3. QED  BY <2>1, <2>2 DEF Inv
<1>3. QED  BY <1>1, <1>2, PTL DEF Spec

\* When sendto has refused one packet, its receivers and those of the rest of the list
\* miss the datagram, and nobody misses anything else: tx_uni and tx_mdc return at
\* once, but tx goes on from one to the other, and with the next datagram.
THEOREM TailIsTheCost == Spec => []ErrorCostsTail
<1>1. Inv => ErrorCostsTail
  <2> SUFFICES ASSUME Inv, pc = "read", flight = {}, ~rerouted, faults = <<"sendto">>
               PROVE  \E n \in 1 .. nread, g \in Groups :
                         /\ n = nread => g = grp
                         /\ Missing(n) \in Tails(g)
                         /\ \A m \in 1 .. nread : m # n => Missing(m) = {}
    BY DEF ErrorCostsTail
  <2>1. PICK n \in 1 .. nread, g \in Groups :
            \E T \in Tails(g) : (n = nread => g = grp) /\ AllServed(n, T)
    BY DEF Inv, Accounted
  <2>2. PICK T \in Tails(g) : (n = nread => g = grp) /\ AllServed(n, T)
    BY <2>1
  <2>3. RouterErrors = 0
    <3>1. {i \in DOMAIN faults : faults[i] = "router"} = {}
      OBVIOUS
    <3>2. QED  BY <3>1, FS_EmptySet DEF RouterErrors
  <2>4. \A p \in got : p.hdr = Null /\ Duty(p) = {p.dst}
    BY <2>3 DEF Inv, Straight, Untroubled, Duty
  <2>5. ToSend = {}
    BY DEF ToSend
  <2>6. ASSUME NEW m, NEW l \in Leaf
        PROVE  l \in Missing(m) <=> Copies(m, l) = {}
    <3>1. \A p \in got : l \in Duty(p) <=> p.dst = l
      BY <2>4
    <3>2. Copies(m, l) = {p \in got : p.id[1] = m /\ p.dst = l}
      BY <3>1 DEF Copies
    <3>3. QED  BY <3>2 DEF Missing
  <2>7. ASSUME NEW m \in 1 .. nread, NEW l \in Leaf
        PROVE  l \in Missing(m) <=> (m = n /\ l \in T)
    <3>1. CASE m = n /\ l \in T
      BY <2>2, <2>6, <3>1 DEF AllServed, Refused
    <3>2. CASE ~(m = n /\ l \in T)
      BY <2>2, <2>5, <2>6, <3>2 DEF AllServed, HasPacket
    <3>3. QED  BY <3>1, <3>2
  <2>8. \A m : Missing(m) \subseteq Leaf
    BY DEF Missing
  <2>9. Missing(n) = T
    BY <2>7, <2>8, TailsOfReceivers
  <2>10. \A m \in 1 .. nread : m # n => Missing(m) = {}
    BY <2>7, <2>8
  <2>11. QED  BY <2>2, <2>9, <2>10
<1>2. QED  BY <1>1, Invariant, PTL
=============================================================================
