------------------------------- MODULE TxBuffer -------------------------------
(***************************************************************************)
(* The send buffer of tx.c, byte by byte.  Both threads write to it: the    *)
(* discovery thread builds its requests at the start, the transmission      *)
(* thread reads packets behind the room for the largest MEADcast header,    *)
(* sends them as unicast, and then copies MEADcast headers over what is in  *)
(* front of the payload.                                                    *)
(*                                                                          *)
(* A byte holds a tag that tells who wrote it and what for.                 *)
(***************************************************************************)
EXTENDS Integers, Sequences

CONSTANTS Mtu,        \* MTU of the bind interface
          MaxAddrs,   \* --max
          Packets,    \* the IPv6 packets applications send, [len, udp]
          Groups,     \* the transmission groups, [uni, mdc], see Group
          NRcvr       \* number of receivers

-----------------------------------------------------------------------------
\* Sizes in bytes.
IP == 40            \* struct ipv6hdr
PI == 4             \* struct tun_pi
MDC == 16           \* struct ip6_mdc_hdr
ADDR == 16          \* struct in6_addr
UDP == 8            \* struct udphdr
MIN_IPV6_MTU == 1280

\* core.c: the size of a header with n addresses, padded to a multiple of 8.
get_mdc_hdr_size(n) ==
    LET mdc_pl == MDC + n * ADDR IN mdc_pl + ((8 - (mdc_pl % 8)) % 8)

\* The MTU of the TUN device, as init_fds and tun_up set it.
tif_mtu ==
    LET mtu == Mtu - get_mdc_hdr_size(MaxAddrs)
    IN  IF mtu < MIN_IPV6_MTU THEN MIN_IPV6_MTU ELSE mtu

\* Definitions named after another one, with a suffix, are that definition with a
\* slip a programmer could make; no specification uses them.
hlen_without_router == get_mdc_hdr_size(MaxAddrs - 1)

\* init_tx: hlen is the room in front of buf, where read puts the packet.
hlen == get_mdc_hdr_size(MaxAddrs)

buflen_ignoring_room == Mtu
buflen == Mtu - hlen
pi == hlen
ip == pi + PI
l3pl == ip + IP

\* How many addresses each header of mdc has, and how many receivers are in uni.
\* Grouping!InBounds is why no header has more than MaxAddrs addresses.
Group == [uni : Nat, mdc : Seq(0 .. MaxAddrs)]

\* The command line knows no upper limit for --max: without the third conjunct
\* buf is behind the end of the buffer.
ASSUME SizeAssumption ==
    /\ Mtu \in Nat /\ NRcvr \in Nat
    /\ MaxAddrs \in Nat /\ MaxAddrs >= 2
    /\ get_mdc_hdr_size(MaxAddrs) + PI + IP + UDP <= Mtu

ASSUME PacketAssumption ==
    /\ Packets \subseteq [len : IP .. tif_mtu, udp : BOOLEAN]
    /\ \A p \in Packets : p.udp => p.len >= IP + UDP

ASSUME GroupAssumption == Groups \subseteq Group

-----------------------------------------------------------------------------
VARIABLES txbuf,    \* the bytes
          tx,       \* where the transmission thread is
          packet,   \* the packet that was read
          n,        \* what read returned
          grp, i,   \* the group, and the place in its list
          dx, j     \* where the discovery thread is, and its receiver

tx_vars == <<tx, packet, n, grp, i>>
dx_vars == <<dx, j>>
vars == <<txbuf, tx_vars, dx_vars>>

Byte == 0 .. Mtu - 1

\* The tags: who wrote a byte, and the place in the list it is for.
Tag == [by : {"malloc", "request", "receiver", "packet", "daddr", "dest", "check",
              "header", "mcheck"}, of : Nat]
tag(by, of) == [by |-> by, of |-> of]

\* memcpy, read and assignments to fields: the bytes from lo up to hi.
Write(buf, lo, hi, t) == [b \in Byte |-> IF lo <= b /\ b < hi THEN t ELSE buf[b]]

\* Whether the bytes from lo up to hi hold t.
Holds(buf, lo, hi, t) == \A b \in lo .. hi - 1 : buf[b] = t

Init ==
    /\ txbuf = [b \in Byte |-> tag("malloc", 0)]
    /\ tx = "read" /\ packet \in Packets /\ n = 0 /\ grp \in Groups /\ i = 1
    /\ dx = "idle" /\ j = 0

-----------------------------------------------------------------------------
\* The transmission thread.

\* read returns at most buflen bytes: struct tun_pi and the packet.
Read(size) == IF PI + size < buflen THEN PI + size ELSE buflen

iplen == n - PI
plen == iplen - IP

tx_after_mdc_first == [read |-> "mdc", mdc |-> "uni", uni |-> "read"]

\* tx: what comes after read, tx_uni and tx_mdc.
tx_after == [read |-> "uni", uni |-> "mdc", mdc |-> "read"]

\* _tx_loop, and tx up to the loop of tx_uni.
read ==
    /\ tx = "read"
    /\ \E p \in Packets, g \in Groups :
          /\ packet' = p
          /\ grp' = g
          /\ n' = Read(p.len)
          /\ txbuf' = Write(txbuf, pi, pi + n', tag("packet", 0))
    /\ tx' = tx_after["read"] /\ i' = 1
    /\ UNCHANGED dx_vars

\* The changes of tx_uni for receiver k: the destination address (the last field
\* of the IP header) and, if it is UDP, the port and the checksum.
Address(buf, k) == Write(buf, ip + IP - ADDR, ip + IP, tag("daddr", k))
Udp(buf, k) ==
    Write(Write(buf, l3pl + 2, l3pl + 4, tag("dest", k)),
          l3pl + 6, l3pl + 8, tag("check", k))

tx_uni ==
    /\ tx = "uni" /\ i <= grp.uni
    /\ txbuf' = IF packet.udp THEN Udp(Address(txbuf, i), i) ELSE Address(txbuf, i)
    /\ tx' = "uni_send"
    /\ UNCHANGED <<packet, n, grp, i, dx_vars>>

\* sendto in tx_uni; an error ends the loop.
tx_uni_sendto ==
    /\ tx = "uni_send"
    /\ \/ tx' = "uni" /\ i' = i + 1
       \/ tx' = tx_after["uni"] /\ i' = 1
    /\ UNCHANGED <<txbuf, packet, n, grp, dx_vars>>

tx_uni_done ==
    /\ tx = "uni" /\ i > grp.uni
    /\ tx' = tx_after["uni"] /\ i' = 1
    /\ UNCHANGED <<txbuf, packet, n, grp, dx_vars>>

Header(k) == [from |-> l3pl - get_mdc_hdr_size(grp.mdc[k]), to |-> l3pl]

Header_before_packet(k) ==
    [from |-> pi - get_mdc_hdr_size(grp.mdc[k]), to |-> pi]

\* tx_mdc copies header k in front of the payload, and sets what it takes for the
\* checksum field of UDP, whatever the payload is.
memcpy_header(h, k) ==
    Write(Write(txbuf, h.from, h.to, tag("header", k)),
          l3pl + 6, l3pl + 8, tag("mcheck", k))

tx_mdc_before_packet ==
    /\ tx = "mdc" /\ i <= Len(grp.mdc) /\ grp.mdc[i] >= 2
    /\ txbuf' = memcpy_header(Header_before_packet(i), i)
    /\ tx' = "mdc_send"
    /\ UNCHANGED <<packet, n, grp, i, dx_vars>>

tx_mdc ==
    /\ tx = "mdc" /\ i <= Len(grp.mdc) /\ grp.mdc[i] >= 2
    /\ txbuf' = memcpy_header(Header(i), i)
    /\ tx' = "mdc_send"
    /\ UNCHANGED <<packet, n, grp, i, dx_vars>>

\* A header without a receiver is skipped.
tx_mdc_skip ==
    /\ tx = "mdc" /\ i <= Len(grp.mdc) /\ grp.mdc[i] < 2
    /\ i' = i + 1
    /\ UNCHANGED <<txbuf, tx, packet, n, grp, dx_vars>>

tx_mdc_sendto ==
    /\ tx = "mdc_send"
    /\ \/ tx' = "mdc" /\ i' = i + 1
       \/ tx' = tx_after["mdc"] /\ i' = 1
    /\ UNCHANGED <<txbuf, packet, n, grp, dx_vars>>

tx_mdc_done ==
    /\ tx = "mdc" /\ i > Len(grp.mdc)
    /\ tx' = tx_after["mdc"] /\ i' = 1
    /\ UNCHANGED <<txbuf, packet, n, grp, dx_vars>>

-----------------------------------------------------------------------------
\* The discovery thread: send_dcvr.

set_dcvr_hdr ==
    /\ dx = "idle"
    /\ txbuf' = Write(txbuf, 0, MDC, tag("request", 0))
    /\ dx' = "addr" /\ j' = 1
    /\ UNCHANGED tx_vars

memcpy_addr ==
    /\ dx = "addr" /\ j <= NRcvr
    /\ txbuf' = Write(txbuf, MDC, MDC + ADDR, tag("receiver", j))
    /\ dx' = "send"
    /\ UNCHANGED <<tx_vars, j>>

dcvr_sendto ==
    /\ dx = "send"
    /\ \/ dx' = "addr" /\ j' = j + 1
       \/ dx' = "idle" /\ j' = 0
    /\ UNCHANGED <<txbuf, tx_vars>>

send_dcvr_done ==
    /\ dx = "addr" /\ j > NRcvr
    /\ dx' = "idle" /\ j' = 0
    /\ UNCHANGED <<txbuf, tx_vars>>

-----------------------------------------------------------------------------
Next ==
    \/ read \/ tx_uni \/ tx_uni_sendto \/ tx_uni_done
    \/ tx_mdc \/ tx_mdc_skip \/ tx_mdc_sendto \/ tx_mdc_done
    \/ set_dcvr_hdr \/ memcpy_addr \/ dcvr_sendto \/ send_dcvr_done

Spec == Init /\ [][Next]_vars

-----------------------------------------------------------------------------
\* Properties.

TypeOK ==
    /\ txbuf \in [Byte -> Tag]
    /\ tx \in {"read", "uni", "uni_send", "mdc", "mdc_send"}
    /\ packet \in Packets /\ n \in 0 .. Mtu /\ grp \in Groups /\ i \in Nat \ {0}
    /\ tx # "read" => n >= PI + IP
    /\ tx = "uni_send" => i \in 1 .. grp.uni
    /\ tx = "mdc_send" => i \in 1 .. Len(grp.mdc) /\ grp.mdc[i] >= 2
    /\ dx \in {"idle", "addr", "send"} /\ j \in Nat

\* tx_mdc: "Caller must ensure sufficient preceding space."  Everything that is
\* written or sent lies in the buffer, and a MEADcast packet with the IP header the
\* kernel adds does not exceed the MTU.
InBuffer ==
    /\ pi + n <= Mtu
    /\ tx = "mdc_send" => /\ Header(i).from >= 0 /\ l3pl + UDP <= Mtu
                          /\ IP + get_mdc_hdr_size(grp.mdc[i]) + plen <= Mtu

\* A discovery request leaves as set_dcvr_hdr and memcpy made it, whatever the
\* transmission thread writes meanwhile.
RequestIntact ==
    dx = "send" => /\ Holds(txbuf, 0, MDC, tag("request", 0))
                   /\ Holds(txbuf, MDC, get_mdc_hdr_size(1), tag("receiver", j))

\* What of the payload must be as it was read, when tx_uni or tx_mdc send it.
PayloadIntact(from) == Holds(txbuf, from, pi + n, tag("packet", 0))

\* "Unicast needs to be delivered first, hence `tx_mdc` overwrites ip header":
\* a unicast packet has the IP header and the payload that were read, and the
\* address, port and checksum of its receiver.
UnicastIntact ==
    tx = "uni_send" =>
        /\ Holds(txbuf, ip, ip + IP - ADDR, tag("packet", 0))
        /\ Holds(txbuf, ip + IP - ADDR, ip + IP, tag("daddr", i))
        /\ packet.udp =>
              /\ Holds(txbuf, l3pl, l3pl + 2, tag("packet", 0))
              /\ Holds(txbuf, l3pl + 2, l3pl + 4, tag("dest", i))
              /\ Holds(txbuf, l3pl + 4, l3pl + 6, tag("packet", 0))
              /\ Holds(txbuf, l3pl + 6, l3pl + 8, tag("check", i))
              /\ PayloadIntact(l3pl + UDP)
        /\ ~packet.udp => PayloadIntact(l3pl)

\* A MEADcast packet is one whole header with the payload right behind it.
MeadcastIntact ==
    tx = "mdc_send" =>
        /\ Holds(txbuf, Header(i).from, l3pl, tag("header", i))
        /\ packet.udp =>
              /\ Holds(txbuf, l3pl, l3pl + 2, tag("packet", 0))
              /\ Holds(txbuf, l3pl + 4, l3pl + 6, tag("packet", 0))
              /\ Holds(txbuf, l3pl + 6, l3pl + 8, tag("mcheck", i))
              /\ PayloadIntact(l3pl + UDP)

\* 04_implementation.tex: "This ensures, that all packets read from the TUN
\* interface can be transmitted via MEADcast": a packet that fits the TUN device
\* is sent as a whole.
WholePacket == tx # "read" => iplen = packet.len
=============================================================================
