---------------------------- MODULE TxBufferProofs ----------------------------
(***************************************************************************)
(* The two threads never disturb each other's bytes in the send buffer, for *)
(* every MTU, every --max that fits it, and all packets, groups and numbers *)
(* of receivers.                                                            *)
(***************************************************************************)
EXTENDS TxBuffer, SequenceTheorems, TLAPS

USE DEF IP, PI, MDC, ADDR, UDP

-----------------------------------------------------------------------------
\* The layout.

\* Headers need no padding, and the room in front of the packet takes the largest.
LEMMA Layout ==
    /\ hlen \in Nat /\ hlen = 16 + 16 * MaxAddrs
    /\ hlen >= 48 /\ hlen + 52 <= Mtu
    /\ pi = hlen /\ ip = hlen + 4 /\ l3pl = hlen + 44
    /\ buflen = Mtu - hlen
    /\ get_mdc_hdr_size(1) = 32
    /\ \A d \in 0 .. MaxAddrs : /\ get_mdc_hdr_size(d) \in Nat
                                /\ get_mdc_hdr_size(d) <= hlen
<1>1. \A d \in Nat : get_mdc_hdr_size(d) = 16 + 16 * d
  BY DEF get_mdc_hdr_size
<1>2. hlen = 16 + 16 * MaxAddrs
  BY <1>1, SizeAssumption DEF hlen
<1> QED
  BY <1>1, <1>2, SizeAssumption DEF hlen, pi, ip, l3pl, buflen

\* What read returns: at least the IP header, and for UDP its header too.
LEMMA ReadBounds ==
    ASSUME NEW p \in Packets
    PROVE  /\ Read(p.len) \in Nat
           /\ Read(p.len) >= 44 /\ Read(p.len) <= buflen
           /\ p.udp => Read(p.len) >= 52
<1>1. p.len \in Int /\ p.len >= 40 /\ (p.udp => p.len >= 48)
  BY PacketAssumption, SizeAssumption, Layout DEF tif_mtu, MIN_IPV6_MTU, hlen
<1> QED
  BY <1>1, Layout, SizeAssumption DEF Read

\* Bytes outside of what is written keep their values.
LEMMA WriteKeeps ==
    ASSUME NEW buf, NEW lo \in Int, NEW hi \in Int, NEW t,
           NEW a \in Nat, NEW b \in Int, NEW u,
           b <= Mtu, b <= lo \/ hi <= a,
           Holds(buf, a, b, u)
    PROVE  Holds(Write(buf, lo, hi, t), a, b, u)
  BY SizeAssumption DEF Holds, Write, Byte

\* Bytes that are written have the new value.
LEMMA WriteSets ==
    ASSUME NEW buf, NEW lo \in Int, NEW hi \in Int, NEW t,
           NEW a \in Nat, NEW b \in Int,
           lo <= a, b <= hi, b <= Mtu
    PROVE  Holds(Write(buf, lo, hi, t), a, b, t)
  BY SizeAssumption DEF Holds, Write, Byte

LEMMA WriteType ==
    ASSUME NEW buf \in [Byte -> Tag], NEW lo, NEW hi, NEW t \in Tag
    PROVE  Write(buf, lo, hi, t) \in [Byte -> Tag]
  BY DEF Write

-----------------------------------------------------------------------------
\* The inductive invariant.

\* The discovery thread's bytes, from the step that writes them on.
Request ==
    /\ dx \in {"addr", "send"} => Holds(txbuf, 0, 16, tag("request", 0))
    /\ dx = "send" => Holds(txbuf, 16, 32, tag("receiver", j))

\* How much was read, and what tx_uni and tx_mdc leave of it for the next turn.
Received ==
    /\ n <= buflen
    /\ (tx # "read" /\ packet.udp = TRUE) =>
          /\ n >= 52
          /\ Holds(txbuf, l3pl, l3pl + 2, tag("packet", 0))
          /\ Holds(txbuf, l3pl + 4, l3pl + 6, tag("packet", 0))
          /\ Holds(txbuf, l3pl + 8, pi + n, tag("packet", 0))
    /\ tx \in {"uni", "uni_send"} =>
          /\ Holds(txbuf, ip, ip + 24, tag("packet", 0))
          /\ packet.udp = FALSE => Holds(txbuf, l3pl, pi + n, tag("packet", 0))

\* What tx_uni and tx_mdc have written for the receiver or header i.
Written ==
    /\ tx = "uni_send" =>
          /\ Holds(txbuf, ip + 24, ip + 40, tag("daddr", i))
          /\ packet.udp = TRUE => /\ Holds(txbuf, l3pl + 2, l3pl + 4, tag("dest", i))
                                 /\ Holds(txbuf, l3pl + 6, l3pl + 8, tag("check", i))
    /\ tx = "mdc_send" =>
          /\ Holds(txbuf, Header(i).from, l3pl, tag("header", i))
          /\ Holds(txbuf, l3pl + 6, l3pl + 8, tag("mcheck", i))

Inv == TypeOK /\ Request /\ Received /\ Written

\* Where header k of the group starts: behind the discovery request.
LEMMA HeaderRoom ==
    ASSUME TypeOK, NEW k \in 1 .. Len(grp.mdc)
    PROVE  /\ Header(k).from \in Nat /\ Header(k).to = l3pl
           /\ Header(k).from >= 44 /\ Header(k).from <= l3pl
           /\ get_mdc_hdr_size(grp.mdc[k]) \in Nat
           /\ get_mdc_hdr_size(grp.mdc[k]) <= hlen
<1>1. grp.mdc \in Seq(0 .. MaxAddrs)
  BY GroupAssumption DEF TypeOK, Group
<1>2. grp.mdc[k] \in 0 .. MaxAddrs
  BY <1>1, ElementOfSeq
<1>3. PICK d \in 0 .. MaxAddrs : d = grp.mdc[k]
  BY <1>2
<1>4. get_mdc_hdr_size(d) \in Nat /\ get_mdc_hdr_size(d) <= hlen
  BY Layout
<1>5. Header(k) = [from |-> l3pl - get_mdc_hdr_size(d), to |-> l3pl]
  BY <1>3 DEF Header
<1>6. Header(k).from = l3pl - get_mdc_hdr_size(d) /\ Header(k).to = l3pl
  BY <1>5
<1>7. get_mdc_hdr_size(grp.mdc[k]) = get_mdc_hdr_size(d)
  BY <1>3
<1>8. l3pl = hlen + 44 /\ hlen \in Nat
  BY Layout
<1> HIDE DEF get_mdc_hdr_size, Header, l3pl, hlen
<1> QED
  BY <1>4, <1>6, <1>7, <1>8

LEMMA TagType ==
    ASSUME NEW k \in Nat
    PROVE  /\ tag("malloc", k) \in Tag /\ tag("request", k) \in Tag
           /\ tag("receiver", k) \in Tag /\ tag("packet", k) \in Tag
           /\ tag("daddr", k) \in Tag /\ tag("dest", k) \in Tag
           /\ tag("check", k) \in Tag /\ tag("header", k) \in Tag
           /\ tag("mcheck", k) \in Tag
  BY DEF tag, Tag

\* The initial states satisfy the invariant.
LEMMA InitInv == Init => Inv
<1> SUFFICES ASSUME Init PROVE Inv
  OBVIOUS
<1>1. TypeOK
  BY TagType, SizeAssumption DEF Init, TypeOK
<1>2. Request /\ Received /\ Written
  BY Layout, SizeAssumption DEF Init, Request, Received, Written
<1> QED
  BY <1>1, <1>2 DEF Inv

\* The discovery thread: its bytes end at 32, the other thread's start at 44.
LEMMA DxStep ==
    ASSUME Inv, set_dcvr_hdr \/ memcpy_addr \/ dcvr_sendto \/ send_dcvr_done
    PROVE  Inv'
<1>1. (Header(i).from \in Nat /\ Header(i).from >= 44) \/ tx # "mdc_send"
  BY HeaderRoom DEF Inv, TypeOK
<1>2. n \in Nat /\ pi + n <= Mtu /\ i \in Nat /\ j \in Nat
  BY Layout, SizeAssumption DEF Inv, TypeOK, Received
<1>3. CASE set_dcvr_hdr
  <2> USE <1>3
  <2>1. TypeOK'
    BY WriteType, TagType DEF Inv, TypeOK, set_dcvr_hdr, tx_vars
  <2>2. Request'
    BY WriteSets, Layout, SizeAssumption DEF Request, set_dcvr_hdr
  <2>3. Received'
    BY <1>2, WriteKeeps, Layout, SizeAssumption DEF Inv, Received, set_dcvr_hdr, tx_vars
  <2>4. Written'
    BY <1>1, <1>2, WriteKeeps, Layout, SizeAssumption DEF Inv, Written, set_dcvr_hdr, tx_vars, Header
  <2> QED
    BY <2>1, <2>2, <2>3, <2>4 DEF Inv
<1>4. CASE memcpy_addr
  <2> USE <1>4
  <2>1. TypeOK'
    BY WriteType, TagType DEF Inv, TypeOK, memcpy_addr, tx_vars
  <2>2. Request'
    BY WriteSets, WriteKeeps, Layout, SizeAssumption DEF Inv, Request, memcpy_addr
  <2>3. Received'
    BY <1>2, WriteKeeps, Layout, SizeAssumption DEF Inv, Received, memcpy_addr, tx_vars
  <2>4. Written'
    BY <1>1, <1>2, WriteKeeps, Layout, SizeAssumption DEF Inv, Written, memcpy_addr, tx_vars, Header
  <2> QED
    BY <2>1, <2>2, <2>3, <2>4 DEF Inv
<1>5. CASE dcvr_sendto \/ send_dcvr_done
  BY <1>5 DEF Inv, TypeOK, Request, Received, Written, dcvr_sendto, send_dcvr_done,
              tx_vars, Header
<1> QED
  BY <1>3, <1>4, <1>5

\* Reading a packet: it is written behind the room for the headers.
LEMMA ReadStep == ASSUME Inv, read PROVE Inv'
<1>1. PICK p \in Packets, g \in Groups :
        /\ packet' = p /\ grp' = g /\ n' = Read(p.len)
        /\ txbuf' = Write(txbuf, pi, pi + n', tag("packet", 0))
  BY DEF read
<1>2. /\ tx' = "uni" /\ i' = 1 /\ UNCHANGED <<dx, j>>
  BY DEF read, tx_after, dx_vars
<1>3. /\ n' \in Nat /\ n' >= 44 /\ n' <= buflen
      /\ packet'.udp = TRUE => n' >= 52
  BY <1>1, ReadBounds
<1>4. TypeOK'
  <2>1. txbuf' \in [Byte -> Tag]
    BY <1>1, WriteType, TagType DEF Inv, TypeOK
  <2>2. n' \in 0 .. Mtu
    BY <1>3, Layout, SizeAssumption
  <2> QED
    BY <1>1, <1>2, <1>3, <2>1, <2>2 DEF Inv, TypeOK
<1>5. Request'
  BY <1>1, <1>2, <1>3, WriteKeeps, Layout, SizeAssumption DEF Inv, Request
<1>6. Received'
  BY <1>1, <1>2, <1>3, WriteSets, Layout, SizeAssumption DEF Received
<1>7. Written'
  BY <1>2 DEF Written
<1> QED
  BY <1>4, <1>5, <1>6, <1>7 DEF Inv

\* tx_uni changes fields of the packet, each of them beyond the request.
LEMMA UniStep == ASSUME Inv, tx_uni PROVE Inv'
<1> DEFINE a == Write(txbuf, ip + 24, ip + 40, tag("daddr", i))
           d == Write(a, l3pl + 2, l3pl + 4, tag("dest", i))
           c == Write(d, l3pl + 6, l3pl + 8, tag("check", i))
<1>1. /\ tx = "uni" /\ tx' = "uni_send" /\ i \in Nat /\ i >= 1
      /\ UNCHANGED <<packet, n, grp, i, dx, j>>
  BY DEF tx_uni, dx_vars, Inv, TypeOK
<1>2. n \in Nat /\ pi + n <= Mtu /\ n >= 44 /\ i \in 1 .. grp.uni
  BY <1>1, Layout, SizeAssumption DEF Inv, TypeOK, Received, tx_uni
<1>3. CASE packet.udp = TRUE
  <2>1. txbuf' = c
    BY <1>3 DEF tx_uni, Udp, Address
  <2>2. TypeOK'
    <3>1. a \in [Byte -> Tag]
      BY <1>1, WriteType, TagType DEF Inv, TypeOK
    <3>2. d \in [Byte -> Tag]
      BY <1>1, <3>1, WriteType, TagType
    <3>3. c \in [Byte -> Tag]
      BY <1>1, <3>2, WriteType, TagType
    <3> QED
      BY <1>1, <1>2, <2>1, <3>3 DEF Inv, TypeOK
  <2> HIDE DEF a
  <2>3. Request'
    BY <1>1, <2>1, WriteKeeps, Layout, SizeAssumption DEF Inv, Request, a
  <2>4. Received'
    BY <1>1, <1>2, <1>3, <2>1, WriteKeeps, Layout, SizeAssumption DEF Inv, Received, a
  <2>5. Written'
    BY <1>1, <1>3, <2>1, WriteKeeps, WriteSets, Layout, SizeAssumption DEF Written, a
  <2> QED
    BY <2>2, <2>3, <2>4, <2>5 DEF Inv
<1>4. CASE packet.udp = FALSE
  <2>1. txbuf' = a
    BY <1>4 DEF tx_uni, Address
  <2>2. TypeOK'
    BY <1>1, <1>2, <2>1, WriteType, TagType DEF Inv, TypeOK
  <2>3. Request'
    BY <1>1, <2>1, WriteKeeps, Layout, SizeAssumption DEF Inv, Request
  <2>4. Received'
    BY <1>1, <1>2, <1>4, <2>1, WriteKeeps, Layout, SizeAssumption DEF Inv, Received
  <2>5. Written'
    BY <1>1, <1>4, <2>1, WriteSets, Layout, SizeAssumption DEF Written
  <2> QED
    BY <2>2, <2>3, <2>4, <2>5 DEF Inv
<1>5. packet.udp \in BOOLEAN
  BY PacketAssumption DEF Inv, TypeOK
<1> QED
  BY <1>3, <1>4, <1>5

\* tx_mdc copies its header between the request and the payload.
LEMMA MdcStep == ASSUME Inv, tx_mdc PROVE Inv'
<1> DEFINE h == Write(txbuf, Header(i).from, Header(i).to, tag("header", i))
           c == Write(h, l3pl + 6, l3pl + 8, tag("mcheck", i))
<1>1. /\ tx = "mdc" /\ tx' = "mdc_send" /\ i \in Nat
      /\ i \in 1 .. Len(grp.mdc) /\ grp.mdc[i] >= 2
      /\ UNCHANGED <<packet, n, grp, i, dx, j>>
  <2>1. Len(grp.mdc) \in Nat
    BY GroupAssumption DEF Inv, TypeOK, Group
  <2> QED
    BY <2>1 DEF tx_mdc, dx_vars, Inv, TypeOK
<1>2. n \in Nat /\ pi + n <= Mtu
  BY Layout, SizeAssumption DEF Inv, TypeOK, Received
<1>3. /\ Header(i).from \in Nat /\ Header(i).to = l3pl
      /\ Header(i).from >= 44 /\ Header(i).from <= l3pl
  BY <1>1, HeaderRoom DEF Inv
<1>4. txbuf' = c
  BY DEF tx_mdc, memcpy_header
<1>5. TypeOK'
  <2>1. h \in [Byte -> Tag]
    BY <1>1, WriteType, TagType DEF Inv, TypeOK
  <2>2. c \in [Byte -> Tag]
    BY <1>1, <2>1, WriteType, TagType
  <2> QED
    BY <1>1, <1>4, <2>2 DEF Inv, TypeOK
<1>6. Header(i)' = Header(i)
  BY <1>1 DEF Header
<1>7. Request'
  <2>1. ASSUME NEW a \in Nat, NEW b \in 0 .. 32, NEW t, Holds(txbuf, a, b, t)
        PROVE  Holds(c, a, b, t)
    <3>1. Holds(h, a, b, t)
      BY <1>3, <2>1, WriteKeeps, Layout, SizeAssumption
    <3> HIDE DEF h
    <3> QED
      BY <2>1, <3>1, WriteKeeps, Layout, SizeAssumption
  <2> HIDE DEF c
  <2> QED
    BY <1>1, <1>4, <2>1 DEF Inv, Request
<1>8. Received'
  <2>1. ASSUME NEW a \in Nat, NEW b \in Int, NEW t, l3pl <= a, b <= Mtu,
               b <= l3pl + 6 \/ l3pl + 8 <= a, Holds(txbuf, a, b, t)
        PROVE  Holds(c, a, b, t)
    <3>1. Holds(h, a, b, t)
      BY <1>3, <2>1, WriteKeeps, Layout
    <3> HIDE DEF h
    <3> QED
      BY <2>1, <3>1, WriteKeeps, Layout
  <2>2. packet.udp = TRUE =>
          /\ n >= 52
          /\ Holds(txbuf, l3pl, l3pl + 2, tag("packet", 0))
          /\ Holds(txbuf, l3pl + 4, l3pl + 6, tag("packet", 0))
          /\ Holds(txbuf, l3pl + 8, pi + n, tag("packet", 0))
    BY <1>1 DEF Inv, Received
  <2> HIDE DEF c
  <2>3. packet.udp = TRUE =>
          /\ Holds(c, l3pl, l3pl + 2, tag("packet", 0))
          /\ Holds(c, l3pl + 4, l3pl + 6, tag("packet", 0))
          /\ Holds(c, l3pl + 8, pi + n, tag("packet", 0))
    BY <1>2, <2>1, <2>2, Layout, SizeAssumption
  <2> QED
    BY <1>1, <1>4, <2>2, <2>3 DEF Inv, Received
<1>9. Written'
  <2>1. Holds(h, Header(i).from, l3pl, tag("header", i))
    BY <1>3, WriteSets, Layout, SizeAssumption
  <2>2. Holds(c, Header(i).from, l3pl, tag("header", i))
    BY <1>3, <2>1, WriteKeeps, Layout, SizeAssumption
  <2>3. Holds(c, l3pl + 6, l3pl + 8, tag("mcheck", i))
    BY WriteSets, Layout, SizeAssumption
  <2> QED
    BY <1>1, <1>4, <1>6, <2>2, <2>3 DEF Written
<1> QED
  BY <1>5, <1>7, <1>8, <1>9 DEF Inv

\* The steps of the transmission thread that write nothing.
LEMMA SendStep ==
    ASSUME Inv, tx_uni_sendto \/ tx_uni_done \/ tx_mdc_skip \/ tx_mdc_sendto
                \/ tx_mdc_done
    PROVE  Inv'
<1>1. UNCHANGED <<txbuf, packet, n, grp, dx, j>> /\ i' \in Nat \ {0}
  BY DEF Inv, TypeOK, tx_uni_sendto, tx_uni_done, tx_mdc_skip, tx_mdc_sendto,
         tx_mdc_done, dx_vars
<1>2. \/ tx' = "uni" /\ tx = "uni_send"
      \/ tx' = "mdc" /\ tx # "read"
      \/ tx' = "read"
  BY DEF tx_uni_sendto, tx_uni_done, tx_mdc_skip, tx_mdc_sendto, tx_mdc_done, tx_after
<1>3. TypeOK' /\ Request' /\ Received'
  BY <1>1, <1>2 DEF Inv, TypeOK, Request, Received
<1>4. Written'
  BY <1>2 DEF Written
<1> QED
  BY <1>3, <1>4 DEF Inv

\* Every step keeps the invariant.
LEMMA NextInv == Inv /\ [Next]_vars => Inv'
<1>1. ASSUME Inv, UNCHANGED vars PROVE Inv'
  BY <1>1 DEF Inv, TypeOK, Request, Received, Written, Header, vars, tx_vars, dx_vars
<1> QED
  BY <1>1, DxStep, ReadStep, UniStep, MdcStep, SendStep DEF Next

LEMMA Invariance == Spec => []Inv
  BY InitInv, NextInv, PTL DEF Spec

-----------------------------------------------------------------------------
\* A discovery request always leaves as the discovery thread made it: the
\* transmission thread never writes below byte 44.
THEOREM RequestsIntact == Spec => []RequestIntact
<1>1. Inv => RequestIntact
  BY Layout DEF Inv, Request, RequestIntact
<1> QED
  BY <1>1, Invariance, PTL

\* Unicast packets leave with the header and the payload that were read, and with
\* their receiver's address, whatever headers were copied for earlier packets.
THEOREM UnicastsIntact == Spec => []UnicastIntact
<1>1. Inv => UnicastIntact
  <2>1. ASSUME Inv PROVE packet.udp \in BOOLEAN
    BY <2>1, PacketAssumption DEF Inv, TypeOK
  <2> QED
    BY <2>1 DEF Inv, Received, Written, UnicastIntact, PayloadIntact
<1> QED
  BY <1>1, Invariance, PTL

\* Every MEADcast packet is its header, whole, with the datagram behind it.
THEOREM MeadcastsIntact == Spec => []MeadcastIntact
<1>1. Inv => MeadcastIntact
  <2>1. ASSUME Inv PROVE packet.udp \in BOOLEAN
    BY <2>1, PacketAssumption DEF Inv, TypeOK
  <2> QED
    BY <2>1 DEF Inv, Received, Written, MeadcastIntact, PayloadIntact
<1> QED
  BY <1>1, Invariance, PTL

\* No write or send leaves the buffer, and no MEADcast packet exceeds the MTU.
THEOREM Bounded == Spec => []InBuffer
<1>1. Inv => InBuffer
  <2> SUFFICES ASSUME Inv PROVE InBuffer
    OBVIOUS
  <2>1. n \in Nat /\ pi + n <= Mtu
    BY Layout, SizeAssumption DEF Inv, TypeOK, Received
  <2>2. CASE tx = "mdc_send"
    <3>1. i \in 1 .. Len(grp.mdc)
      BY <2>2 DEF Inv, TypeOK
    <3>2. /\ Header(i).from \in Nat
          /\ get_mdc_hdr_size(grp.mdc[i]) \in Nat
          /\ get_mdc_hdr_size(grp.mdc[i]) <= hlen
      BY <3>1, HeaderRoom DEF Inv
    <3> QED
      BY <2>1, <3>2, Layout, SizeAssumption DEF InBuffer, plen, iplen
  <2> QED
    BY <2>1, <2>2 DEF InBuffer
<1> QED
  BY <1>1, Invariance, PTL
=============================================================================
