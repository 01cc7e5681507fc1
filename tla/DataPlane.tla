------------------------------- MODULE DataPlane -------------------------------
(***************************************************************************)
(* The way of the data: the transmission thread of the sender takes a       *)
(* datagram from the TUN device and sends it to the published group (tx.c), *)
(* and the routers on the way split, forward and convert the MEADcast       *)
(* packets (mdcast.c of the kernel patch).                                  *)
(*                                                                          *)
(* The discovery thread may publish another group, and the network may      *)
(* change its routing, between any two steps.  A position in an address     *)
(* list counts from 0 as in the code, and a bitmap is the set of the        *)
(* positions whose bit is set.  Checksums, and the hop count that no router *)
(* reads in a data packet, are left out.                                    *)
(***************************************************************************)
EXTENDS Naturals, Sequences, FiniteSets

CONSTANTS Leaf, Router, Sender, Null,
          Capable,      \* routers with the patch and ip6_mdcast_enable set
          MinDsts,      \* settings of ip6_mdcast_min_dsts: [Router -> Nat]
          Groups,       \* the groups greedy_grouping may publish
          Routings,     \* next hops: [Router \cup {Sender} -> [Leaf -> node]]
          Discovered,   \* the routing the groups were made for
          AppPort,      \* the port the application sends to
          PeerPort,     \* args.pport, the port of the receivers
          Datagrams,    \* bound on the datagrams that are read
          MaxFaults     \* bound on the errors of sendto, dst_output and route lookups

At(h, k) == h.addrs[k + 1]

BITMAP_LIMIT == 32

\* What greedy_grouping leaves (Grouping.tla: InBounds, SectionCovers and
\* ImplementsPacking): a header has no more addresses than the bitmap has bits, it
\* starts with a router, every router in it is followed by a receiver, and every
\* receiver is in the group once.
HeaderOK(h) ==
    /\ h # Null
    /\ h.addrs \in Seq(Leaf \cup Router)
    /\ Len(h.addrs) <= BITMAP_LIMIT
    /\ h.rtm = {k \in 0 .. Len(h.addrs) - 1 : At(h, k) \in Router}
    /\ 0 \in h.rtm
    /\ \A k \in h.rtm : k + 1 < Len(h.addrs) /\ k + 1 \notin h.rtm

Places(g) ==
    {<<0, i>> : i \in 1 .. Len(g.uni)}
      \cup UNION {{<<m, i>> : i \in 1 .. Len(g.mdc[m].addrs)} : m \in 1 .. Len(g.mdc)}
Member(g, x) == IF x[1] = 0 THEN g.uni[x[2]] ELSE g.mdc[x[1]].addrs[x[2]]

ASSUME GroupsAssumption ==
    \A g \in Groups :
        /\ g.uni \in Seq(Leaf)
        /\ Len(g.mdc) \in Nat
        /\ \A m \in 1 .. Len(g.mdc) : HeaderOK(g.mdc[m])
        /\ \A l \in Leaf : \E x \in Places(g) :
               \A y \in Places(g) : Member(g, y) = l <=> y = x

ASSUME NetworkAssumption ==
    /\ Leaf \cap Router = {}
    /\ Capable \subseteq Router
    /\ MinDsts \subseteq [Router -> Nat]
    /\ Discovered \in Routings
    /\ Routings \subseteq [Router \cup {Sender} -> [Leaf -> Router \cup Leaf]]

\* What a packet to l meets from x on, if it goes no further than Stop.
Meets(x, l, Stop) ==
    {y \in Router \cup Leaf :
        \A S \in SUBSET (Router \cup Leaf) :
            (x \in S /\ \A z \in S \cap (Router \ Stop) : Discovered[z][l] \in S)
                => y \in S}

\* The routers of a header were found on the ways to the receivers (Discovery.tla:
\* Sound; DiscoveryGrouping.tla: CommonAncestor), below one child of the root: a packet
\* meets a MEADcast router, and the first one is on the way to every section.
ASSUME WaysAssumption ==
    \A g \in Groups : \A m \in 1 .. Len(g.mdc) :
        LET h == g.mdc[m]
            met == Meets(Discovered[Sender][At(h, 1)], At(h, 1), Capable)
        IN  /\ met \cap Leaf = {}
            /\ \A c \in met \cap Capable, i \in h.rtm :
                  At(h, i) \in Capable /\ At(h, i) \in Meets(c, At(h, i + 1), {})

ASSUME BoundsAssumption == Datagrams \in Nat /\ MaxFaults \in Nat

VARIABLES txg,       \* the published group
          grp,       \* the group tx sends the datagram at hand to
          pc,        \* where the transmission thread is
          k,         \* the next entry of the list tx_uni or tx_mdc is at
          port,      \* the destination port in the datagram in the buffer
          nread,     \* datagrams read
          flight,    \* the packets in the network
          got,       \* the packets that reached a receiver
          routing,   \* the routing the network is in
          rerouted,  \* whether that has changed
          min_dsts,  \* the setting of ip6_mdcast_min_dsts at every router
          faults     \* where errors have occurred: "sendto" or "router"

tx_vars == <<grp, pc, k, port, nread>>
net_vars == <<routing, rerouted, min_dsts>>
vars == <<txg, tx_vars, flight, got, net_vars, faults>>

Init ==
    /\ txg \in Groups
    /\ grp = Null
    /\ pc = "read"
    /\ k = 1
    /\ port = AppPort
    /\ nread = 0
    /\ flight = {}
    /\ got = {}
    /\ routing = Discovered
    /\ rerouted = FALSE
    /\ min_dsts \in MinDsts
    /\ faults = << >>

-----------------------------------------------------------------------------
\* The sender.

\* A packet as sendto hands it to the network.  Its id tells the datagram, and
\* one copy of a packet from another.
Sent(id, dst, hdr, prt) ==
    [id |-> id, at |-> routing[Sender][dst], dst |-> dst, hdr |-> hdr,
     dlvm |-> IF hdr = Null THEN {} ELSE hdr.rtm, port |-> prt]

\* Definitions named after another one, with a suffix, are that definition with a
\* slip a programmer could make; no specification uses them.
read_without_group ==
    /\ pc = "read"
    /\ nread < Datagrams
    /\ nread' = nread + 1
    /\ port' = AppPort
    /\ pc' = "uni"
    /\ k' = 1
    /\ UNCHANGED <<txg, grp, flight, got, net_vars, faults>>

\* _tx_loop and the start of tx: read a datagram, and take the group once.
read ==
    /\ pc = "read"
    /\ nread < Datagrams
    /\ nread' = nread + 1
    /\ port' = AppPort
    /\ grp' = txg
    /\ pc' = "uni"
    /\ k' = 1
    /\ UNCHANGED <<txg, flight, got, net_vars, faults>>

\* tx_uni corrects the port in the buffer for every receiver.
tx_uni ==
    /\ pc = "uni"
    /\ k <= Len(grp.uni)
    /\ port' = PeerPort
    /\ flight' = flight \cup {Sent(<<nread, 0, k>>, grp.uni[k], Null, PeerPort)}
    /\ k' = k + 1
    /\ UNCHANGED <<txg, grp, pc, nread, got, net_vars, faults>>

tx_uni_done_rereading ==
    /\ pc = "uni"
    /\ k > Len(grp.uni)
    /\ grp' = txg
    /\ pc' = "mdc"
    /\ k' = 1
    /\ UNCHANGED <<txg, port, nread, flight, got, net_vars, faults>>

tx_uni_done ==
    /\ pc = "uni"
    /\ k > Len(grp.uni)
    /\ pc' = "mdc"
    /\ k' = 1
    /\ UNCHANGED <<txg, grp, port, nread, flight, got, net_vars, faults>>

\* tx_mdc addresses the packet to the first receiver of the list, and leaves
\* the port as it finds it.
tx_mdc ==
    /\ pc = "mdc"
    /\ k <= Len(grp.mdc)
    /\ LET h == grp.mdc[k]
       IN  flight' = IF Len(h.addrs) < 2 THEN flight
                     ELSE flight \cup {Sent(<<nread, 1, k>>, At(h, 1), h, port)}
    /\ k' = k + 1
    /\ UNCHANGED <<txg, grp, pc, port, nread, got, net_vars, faults>>

tx_mdc_done ==
    /\ pc = "mdc"
    /\ k > Len(grp.mdc)
    /\ pc' = "read"
    /\ UNCHANGED <<txg, grp, k, port, nread, flight, got, net_vars, faults>>

\* set_txg, by the discovery thread.
set_txg ==
    /\ \E g \in Groups \ {txg} : txg' = g
    /\ UNCHANGED <<tx_vars, flight, got, net_vars, faults>>

-----------------------------------------------------------------------------
\* The routers.

\* The routers of the list that wait for delivery, and the positions of the
\* receivers that follow the router at i, up to the next router.
Undelivered(p) == p.hdr.rtm \cap p.dlvm
Section(h, i) ==
    {j \in 1 .. Len(h.addrs) - 1 : i < j /\ \A m \in h.rtm : m <= i \/ j < m}

IsLast(S, i) == \A j \in S : j <= i

\* The datagram of p on its way out of the router p is at, to d.
Onward(p, d, id, hdr, dlvm) ==
    [id |-> id, at |-> routing[p.at][d], dst |-> d, hdr |-> hdr, dlvm |-> dlvm,
     port |-> p.port]

ConvertsHere_by_size_only(p, i) ==
    Cardinality(Section(p.hdr, i)) < min_dsts[p.at]

\* A router converts a section that is too small, or its own.
ConvertsHere(p, i) ==
    \/ Cardinality(Section(p.hdr, i)) < min_dsts[p.at]
    \/ At(p.hdr, i) = p.at

\* m2u: p as unicast to the receiver at j.  The packet itself becomes the last
\* one, all others are copies.
m2u(p, i, j) ==
    Onward(p, At(p.hdr, j),
           IF IsLast(Undelivered(p), i) /\ IsLast(Section(p.hdr, i), j)
           THEN p.id ELSE Append(p.id, j),
           Null, {})

\* Only the router at i is left to deliver.
ReplicaId(p, i) == IF IsLast(Undelivered(p), i) THEN p.id ELSE Append(p.id, i)

Replica_with_all_bits(p, i) ==
    Onward(p, At(p.hdr, i + 1), ReplicaId(p, i), p.hdr, p.dlvm)

Replica(p, i) == Onward(p, At(p.hdr, i + 1), ReplicaId(p, i), p.hdr, {i})

md_data_fwd_skipping_first(p, i) ==
    IF ConvertsHere(p, i) THEN {m2u(p, i, j) : j \in Section(p.hdr, i) \ {i + 1}}
    ELSE {Replica(p, i)}

\* md_data_fwd: the packets that leave for the section of the router at i.
md_data_fwd(p, i) ==
    IF ConvertsHere(p, i) THEN {m2u(p, i, j) : j \in Section(p.hdr, i)}
    ELSE {Replica(p, i)}

\* ip6_forward, md_rcv and md_data_rcv at a MEADcast router.
md_data_rcv(p) ==
    /\ p.at \in Capable /\ p.hdr # Null
    /\ flight' = (flight \ {p})
                   \cup UNION {md_data_fwd(p, i) : i \in Undelivered(p)}
    /\ UNCHANGED <<txg, tx_vars, got, net_vars, faults>>

\* Every other router forwards it, like any unicast packet, by its address.
ip6_forward(p) ==
    /\ p.at \in Router /\ (p.at \notin Capable \/ p.hdr = Null)
    /\ flight' = (flight \ {p}) \cup {Onward(p, p.dst, p.id, p.hdr, p.dlvm)}
    /\ UNCHANGED <<txg, tx_vars, got, net_vars, faults>>

\* A receiver takes what is addressed to it.  It has no patch; a routing header
\* it does not know, with no segments left, is skipped.
Receive(p) ==
    /\ p.at = p.dst
    /\ flight' = flight \ {p}
    /\ got' = got \cup {p}
    /\ UNCHANGED <<txg, tx_vars, net_vars, faults>>

Reroute ==
    /\ \E rt \in Routings \ {routing} : routing' = rt
    /\ rerouted' = TRUE
    /\ UNCHANGED <<txg, tx_vars, flight, got, min_dsts, faults>>

-----------------------------------------------------------------------------
\* Errors, at the sender and at MEADcast routers (RouterError).  A copy that
\* dst_output refuses is gone.

Fault(where) == Len(faults) < MaxFaults /\ faults' = Append(faults, where)

sendto_error_ending_tx ==
    /\ Fault("sendto")
    /\ \/ pc = "uni" /\ k <= Len(grp.uni) /\ port' = PeerPort
       \/ pc = "mdc" /\ k <= Len(grp.mdc) /\ UNCHANGED port
    /\ pc' = "read" /\ k' = 1
    /\ UNCHANGED <<txg, grp, nread, flight, got, net_vars>>

\* sendto fails: tx_uni and tx_mdc return at once.
sendto_error ==
    /\ Fault("sendto")
    /\ \/ pc = "uni" /\ k <= Len(grp.uni) /\ pc' = "mdc" /\ port' = PeerPort
       \/ pc = "mdc" /\ k <= Len(grp.mdc) /\ pc' = "read" /\ UNCHANGED port
    /\ k' = 1
    /\ UNCHANGED <<txg, grp, nread, flight, got, net_vars>>

\* p goes on as it came, after an error in the section of the router at i.
SentOn(p, i) == Onward(p, p.dst, Append(p.id, BITMAP_LIMIT + i), p.hdr, p.dlvm)

\* dst_output refuses the replica for the router at i: md_data_rcv returns, and
\* ip6_forward sends the packet on as it came.
md_data_rcv_error(p, i) ==
    LET U == Undelivered(p)
        S == Section(p.hdr, i)
        copies == IF ConvertsHere(p, i)
                  THEN {m2u(p, i, j) : j \in {m \in S : ~IsLast(S, m)}} ELSE {}
    IN  /\ Fault("router")
        /\ ~IsLast(U, i)
        /\ flight' = (flight \ {p}) \cup {SentOn(p, i)} \cup copies
                       \cup UNION {md_data_fwd(p, m) : m \in {n \in U : n < i}}
        /\ UNCHANGED <<txg, tx_vars, got, net_vars>>

\* dst_output refuses the copy for the receiver at j: md_data_fwd returns, and
\* what should have become the last copy is sent on as it came.
md_data_fwd_error(p, i, j) ==
    LET U == Undelivered(p)
        S == Section(p.hdr, i)
    IN  /\ Fault("router")
        /\ ConvertsHere(p, i) /\ ~IsLast(S, j)
        /\ flight' = (flight \ {p})
                       \cup (UNION {md_data_fwd(p, m) : m \in U \ {i}})
                       \cup {m2u(p, i, m) : m \in {n \in S : n < j}}
                       \cup {SentOn(p, i)}
        /\ UNCHANGED <<txg, tx_vars, got, net_vars>>

\* set_dst finds no route: the packet keeps its new address and leaves by the
\* old next hop.
set_dst_error(p) ==
    /\ Fault("router")
    /\ \E i \in Undelivered(p) : \E q \in md_data_fwd(p, i) :
           flight' = (flight \ {p})
                       \cup ((UNION {md_data_fwd(p, m) : m \in Undelivered(p)}) \ {q})
                       \cup {[q EXCEPT !.at = routing[p.at][p.dst]]}
    /\ UNCHANGED <<txg, tx_vars, got, net_vars>>

RouterError ==
    /\ Len(faults) < MaxFaults
    /\ \E p \in {q \in flight : q.at \in Capable /\ q.hdr # Null} :
          \/ set_dst_error(p)
          \/ \E i \in Undelivered(p) :
                 \/ md_data_rcv_error(p, i)
                 \/ \E j \in Section(p.hdr, i) : md_data_fwd_error(p, i, j)

-----------------------------------------------------------------------------
Transmit == tx_uni \/ tx_uni_done \/ tx_mdc \/ tx_mdc_done
Carry == \E p \in flight : md_data_rcv(p) \/ ip6_forward(p) \/ Receive(p)

Idle == pc = "read" /\ nread = Datagrams /\ flight = {} /\ UNCHANGED vars

Next ==
    \/ read \/ Transmit \/ set_txg \/ Carry \/ Reroute
    \/ sendto_error \/ RouterError \/ Idle

\* The thread goes on with its datagram, and the network loses no packet.
Spec == Init /\ [][Next]_vars /\ WF_vars(Transmit) /\ WF_vars(Carry)

-----------------------------------------------------------------------------
\* Properties.

Packet ==
    [id : Seq(Nat), at : Router \cup Leaf, dst : Leaf,
     hdr : {Null} \cup UNION {{g.mdc[m] : m \in 1 .. Len(g.mdc)} : g \in Groups},
     dlvm : SUBSET (0 .. BITMAP_LIMIT - 1), port : {AppPort, PeerPort}]

TypeOK ==
    /\ txg \in Groups /\ grp \in Groups \cup {Null}
    /\ pc \in {"read", "uni", "mdc"} /\ (pc # "read" => grp \in Groups)
    /\ k \in Nat /\ nread \in 0 .. Datagrams
    /\ flight \subseteq Packet /\ got \subseteq Packet
    /\ routing \in Routings /\ rerouted \in BOOLEAN /\ min_dsts \in MinDsts
    /\ faults \in Seq({"sendto", "router"})

\* The receivers a packet still has to reach.
Duty(p) ==
    IF p.hdr = Null THEN {p.dst}
    ELSE UNION {{At(p.hdr, j) : j \in Section(p.hdr, i)} : i \in Undelivered(p)}

RouterErrors == Cardinality({i \in DOMAIN faults : faults[i] = "router"})

\* No receiver gets a datagram twice, even if another group is published while it
\* is sent, or the routing changes while it is on its way.  An error halfway
\* through an address list costs at most one more copy.
AtMostOnce ==
    \A q \in got :
        Cardinality({p \in got : p.id[1] = q.id[1] /\ p.dst = q.dst}) <= 1 + RouterErrors

\* 02_related_work.tex, Delivery Map: a bit is 1 while its router is "not yet
\* delivered".  No receiver below a router with its bit set has got the datagram,
\* or gets it from another packet, unless a router failed halfway through a list.
DeliveryMapTruthful ==
    RouterErrors = 0 =>
        \A p \in flight, q \in flight \cup got :
            (p.hdr # Null /\ p # q /\ p.id[1] = q.id[1]) => Duty(p) \cap Duty(q) = {}

\* A receiver cannot tell unicast from MEADcast: all get a datagram at one port
\* (tx_uni corrects it in the buffer that tx_mdc sends), and unless the routing
\* changed the responsible router has made unicast of what reaches a receiver.
ReceiversSeeUnicast ==
    /\ \A p, q \in got : p.id[1] = q.id[1] => p.port = q.port
    /\ (~rerouted /\ RouterErrors = 0) => \A p \in got : p.hdr = Null

\* Every receiver gets every datagram, whichever group was in force and whenever
\* it was replaced, unless the routing changed or an error occurred.
EveryReceiverGets ==
    [](~rerouted /\ faults = << >>) =>
        \A l \in Leaf, n \in 1 .. Datagrams :
            (nread = n) ~> (\E p \in got : p.dst = l /\ p.id[1] = n)

\* What the entries of a list from m on hold in receivers.
UniFrom(g, m) == {g.uni[i] : i \in m .. Len(g.uni)}
MdcFrom(g, m) ==
    UNION {{At(g.mdc[i], j) : j \in 1 .. Len(g.mdc[i].addrs) - 1} \ Router :
              i \in m .. Len(g.mdc)}
Tails(g) ==
    {UniFrom(g, m) : m \in 1 .. Len(g.uni)} \cup {MdcFrom(g, m) : m \in 1 .. Len(g.mdc)}

Missing(n) == Leaf \ {p.dst : p \in {q \in got : q.id[1] = n}}

\* When sendto refuses a packet, its receivers and those of the rest of the list
\* miss the datagram; everybody before them, the other list and every other
\* datagram is served.
ErrorCostsTail ==
    (pc = "read" /\ flight = {} /\ ~rerouted /\ faults = <<"sendto">>) =>
        \E n \in 1 .. nread, g \in Groups :
            /\ n = nread => g = grp
            /\ Missing(n) \in Tails(g)
            /\ \A m \in 1 .. nread : m # n => Missing(m) = {}
=============================================================================
