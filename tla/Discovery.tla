------------------------------- MODULE Discovery -------------------------------
(***************************************************************************)
(* The discovery thread of the sender: start up (main.c, group.c), the      *)
(* event loop with its two timers (discover.c), the handling of discovery   *)
(* answers (rx.c), and the round of reduce_tree, greedy_grouping, set_txg   *)
(* and rec_reset_tree that ends a discovery phase (discover.c, tree.c).     *)
(*                                                                          *)
(* The walks of get_path_pos, reduce_tree and rec_reset_tree are steps of   *)
(* their own, so a walk that never ends is a behaviour of the model.        *)
(* greedy_grouping is one step here, by what it leaves behind; Grouping.tla *)
(* models its steps.  The network may lose, delay, reorder and duplicate    *)
(* answers: `net' holds every answer a router ever sent, and any of them    *)
(* may arrive at any time, any number of times, or never.                   *)
(***************************************************************************)
EXTENDS Topology, Sequences

CONSTANTS Routes,      \* the routings the network may be in: for each receiver
                       \* the routers that forward a packet to it, in order
          HopMod,      \* 2 ^ width of the hop count of the MEADcast header
          MinLeafs,    \* args.min_leafs
          MinRouters   \* args.min_routers

ASSUME MembersAssumption == Leaf # {}   \* argp.c: At least one destination
ASSUME RoutesAssumption == Routes \subseteq [Leaf -> Seq(Router \cup Leaf)]
ASSUME ParameterAssumption ==
    /\ HopMod \in Nat \ {0}
    /\ MinLeafs \in Nat \ {0}      \* argp.c accepts no smaller value
    /\ MinRouters \in Nat \ {0}

VARIABLES tree,     \* the topology tree
          ht,       \* the addresses in the hash table
          pc,       \* where the discovery thread is
          rx,       \* the answer in update_topo, and get_path_pos' node n
          visited,  \* the routers reduce_tree is done with
          armed,    \* which of the timers tint, tout is armed
          txg,      \* the published tx_group: who is served, and how
          net,      \* the answers routers sent
          route     \* the routing the network is in

vars == <<tree, ht, pc, rx, visited, armed, txg, net, route>>

Answer == [r : Router \cup Leaf, l : Leaf, h : 0 .. HopMod - 1]

\* md_dcv_rcv: the i-th router on the way has incremented the hop count i times.
HopCount(i) == i % HopMod

\* dcv_rsp: every router on the way to l answers for l.
Answers(rt, l) ==
    {[r |-> rt[l][i], l |-> l, h |-> HopCount(i)] : i \in 1 .. Len(rt[l])}

NoRx == [r |-> Null, l |-> Null, h |-> 0, n |-> Null]

TypeOK ==
    /\ tree \in Tree
    /\ ht \subseteq Node
    /\ pc \in {"startup", "exit", "loop", "climb", "reduce", "group", "reset"}
    /\ rx \in [r : Router, l : Leaf, h : 1 .. HopMod - 1, n : Leaf \cup Router]
              \cup {NoRx}
    /\ visited \subseteq Router
    /\ armed \in {"tint", "tout"}
    /\ txg \in [mdc : SUBSET Leaf, uni : SUBSET Leaf]
    /\ net \subseteq Answer
    /\ route \in Routes

Init ==
    /\ tree = init_group
    /\ ht = {Root}
    /\ pc = "startup"
    /\ rx = NoRx
    /\ visited = {}
    /\ armed = "tint"
    /\ txg = [mdc |-> {}, uni |-> {}]
    /\ net = {}
    /\ route \in Routes

-----------------------------------------------------------------------------
\* Start up.

\* join: Leaf are the receivers named on the command line.
Join(l) ==
    /\ pc = "startup"
    /\ l \notin ht
    /\ tree' = create_leaf(tree, l, Root)
    /\ ht' = ht \cup {l}
    /\ UNCHANGED <<pc, rx, visited, armed, txg, net, route>>

\* join fails for an address that is already in the table, and main returns.
JoinTwice(l) ==
    /\ pc = "startup"
    /\ l \in ht
    /\ pc' = "exit"
    /\ UNCHANGED <<tree, ht, rx, visited, armed, txg, net, route>>

Exited == pc = "exit" /\ UNCHANGED vars

\* The group before the first discovery: everyone by unicast.
init_txg == [mdc |-> {}, uni |-> Leaf]

\* start: the group is published, then the threads start; init_timerfd arms
\* tint and leaves tout disarmed.
Start ==
    /\ pc = "startup"
    /\ Leaf \subseteq ht
    /\ txg' = init_txg
    /\ pc' = "loop"
    /\ UNCHANGED <<tree, ht, rx, visited, armed, net, route>>

-----------------------------------------------------------------------------
\* dx_loop: the events.

\* Disarms the timer that fired and arms the other one, t.
flip_timers(t) == armed' = t

\* A request on the way to every receiver; the routers answer.
send_dcvr == net' = net \cup UNION {Answers(route, l) : l \in Leaf}

\* tint_handler: request every receiver's path, then wait for answers until
\* tout fires.
tint_handler ==
    /\ pc = "loop"
    /\ armed = "tint"
    /\ send_dcvr
    /\ flip_timers("tout")
    /\ UNCHANGED <<tree, ht, pc, rx, visited, txg, route>>

\* rx_dcvr and the checks of update_topo up to the call of get_path_pos.
\* A router that is in the table takes the hop count of the answer.
Accepts(m) ==
    /\ m.h >= 1                 \* rx_dcvr: hdr->hops < 1
    /\ m.l \in ht               \* Peer not in group
    /\ m.r \in ht => m.r \in Router   \* Address is already a peer

rx_dcvr(m) ==
    /\ pc = "loop"
    /\ Accepts(m)
    /\ tree' = IF m.r \in ht THEN set_hops(tree, m.r, m.h) ELSE tree
    /\ rx' = [r |-> m.r, l |-> m.l, h |-> m.h, n |-> m.l]
    /\ pc' = "climb"
    /\ UNCHANGED <<ht, visited, armed, txg, net, route>>

\* Every other answer is dropped without a trace.
rx_rejected(m) ==
    /\ pc = "loop"
    /\ ~Accepts(m)
    /\ UNCHANGED vars

get_path_pos_inverted ==
    /\ pc = "climb"
    /\ tree.parent[rx.n] # Null
    /\ tree.hops[tree.parent[rx.n]] < rx.h
    /\ rx' = [rx EXCEPT !.n = tree.parent[rx.n]]
    /\ UNCHANGED <<tree, ht, pc, visited, armed, txg, net, route>>

\* get_path_pos: one turn of its loop.
get_path_pos ==
    /\ pc = "climb"
    /\ tree.parent[rx.n] # Null
    /\ tree.hops[tree.parent[rx.n]] > rx.h
    /\ rx' = [rx EXCEPT !.n = tree.parent[rx.n]]
    /\ UNCHANGED <<tree, ht, pc, visited, armed, txg, net, route>>

InsertRouter_without_hops(t) == insert(t, rx.r, rx.n)

\* update_topo after get_path_pos returned the node n: a router that is not in
\* the table is inserted above n ...
InsertRouter(t) == set_hops(insert(t, rx.r, rx.n), rx.r, rx.h)

UpdateRouter_without_linking(t) == adopt(t, rx.r, rx.n)

\* ... and one that is adopts n, after it was linked into the tree if an
\* earlier phase left it outside.
UpdateRouter(t) ==
    LET r == rx.r
        outside == t.parent[r] = Null /\ nleaf(t, r) = 0 /\ nchild(t, r) = 0
    IN  adopt(IF outside THEN add_child(t, t.parent[rx.n], r) ELSE t, r, rx.n)

update_topo_at_the_leaf ==
    /\ pc = "climb"
    /\ tree' = IF rx.r \in ht THEN UpdateRouter(tree) ELSE InsertRouter(tree)
    /\ ht' = ht \cup {rx.r}
    /\ rx' = NoRx
    /\ pc' = "loop"
    /\ UNCHANGED <<visited, armed, txg, net, route>>

update_topo ==
    /\ pc = "climb"
    /\ tree.parent[rx.n] # Null
    /\ tree.hops[tree.parent[rx.n]] <= rx.h
    /\ tree' = IF rx.r \in ht THEN UpdateRouter(tree) ELSE InsertRouter(tree)
    /\ ht' = ht \cup {rx.r}
    /\ rx' = NoRx
    /\ pc' = "loop"
    /\ UNCHANGED <<visited, armed, txg, net, route>>

-----------------------------------------------------------------------------
\* tout_handler: the end of a discovery phase.

tout_handler ==
    /\ pc = "loop"
    /\ armed = "tout"
    /\ pc' = "reduce"
    /\ visited' = {}
    /\ UNCHANGED <<tree, ht, rx, armed, txg, net, route>>

\* reduce_tree returns from the children of r before it looks at r.
TooSmall(t, r) == nchild(t, r) < MinRouters /\ nleaf(t, r) < MinLeafs

reduce_tree_top_down(r) ==
    /\ pc = "reduce"
    /\ r \in Reach(tree) \ visited
    /\ visited' = visited \cup {r}
    /\ IF TooSmall(tree, r)
       THEN tree' = cut_router(tree, r) /\ ht' = ht \ {r}
       ELSE UNCHANGED <<tree, ht>>
    /\ UNCHANGED <<pc, rx, armed, txg, net, route>>

reduce_tree(r) ==
    /\ pc = "reduce"
    /\ r \in Reach(tree) \ visited
    /\ child(tree, r) \subseteq visited
    /\ visited' = visited \cup {r}
    /\ IF TooSmall(tree, r)
       THEN tree' = cut_router(tree, r) /\ ht' = ht \ {r}
       ELSE UNCHANGED <<tree, ht>>
    /\ UNCHANGED <<pc, rx, armed, txg, net, route>>

ReduceDone ==
    /\ pc = "reduce"
    /\ child(tree, Root) \subseteq visited
    /\ pc' = "group"
    /\ UNCHANGED <<tree, ht, rx, visited, armed, txg, net, route>>

greedy_grouping_without_remaining ==
    /\ pc = "group"
    /\ txg' = [mdc |-> (Reach(tree) \cap Leaf) \ leaf(tree, Root), uni |-> {}]
    /\ tree' = [tree EXCEPT !.f = [s \in Slot |-> 0]]
    /\ pc' = "reset"
    /\ UNCHANGED <<ht, rx, visited, armed, net, route>>

\* greedy_grouping puts the leafs of every router it walks to into MEADcast
\* headers, the leafs of the root into the unicast list, and uses up the free
\* counters; set_txg publishes the result.
greedy_grouping ==
    /\ pc = "group"
    /\ LET in == Reach(tree)
       IN  /\ txg' = [mdc |-> (in \cap Leaf) \ leaf(tree, Root),
                      uni |-> leaf(tree, Root)]
           /\ tree' = [tree EXCEPT !.f =
                          [s \in Slot |-> IF s[1] \in in THEN 0 ELSE @[s]]]
    /\ pc' = "reset"
    /\ UNCHANGED <<ht, rx, visited, armed, net, route>>

\* rec_reset_tree returns from the children of r before it resets r.
rec_reset_tree(r) ==
    /\ pc = "reset"
    /\ r \in Reach(tree)
    /\ child(tree, r) = {}
    /\ tree' = reset_router(tree, Root, r)
    /\ UNCHANGED <<ht, pc, rx, visited, armed, txg, net, route>>

\* The call for the root, and flip_timers.
ResetDone ==
    /\ pc = "reset"
    /\ child(tree, Root) = {}
    /\ tree' = reset_root(tree)
    /\ flip_timers("tint")
    /\ pc' = "loop"
    /\ UNCHANGED <<ht, rx, visited, txg, net, route>>

-----------------------------------------------------------------------------
\* The network may change its routing at any time.
Reroute ==
    /\ \E rt \in Routes \ {route} : route' = rt
    /\ UNCHANGED <<tree, ht, pc, rx, visited, armed, txg, net>>

\* The steps the discovery thread takes by itself once it is in a handler.
Work ==
    \/ get_path_pos \/ update_topo
    \/ \E r \in Router : reduce_tree(r)
    \/ ReduceDone \/ greedy_grouping
    \/ \E r \in Router : rec_reset_tree(r)
    \/ ResetDone

Next ==
    \/ \E l \in Leaf : Join(l) \/ JoinTwice(l)
    \/ Exited \/ Start
    \/ \E m \in net : rx_dcvr(m) \/ rx_rejected(m)
    \/ tint_handler \/ tout_handler
    \/ Work
    \/ Reroute

\* The thread goes on with its work.  The timers fire, and epoll_wait reports
\* them together with the socket (the event array holds ten events for three
\* descriptors), so a stream of answers does not starve them.
Spec ==
    /\ Init /\ [][Next]_vars
    /\ WF_vars(Work)
    /\ SF_vars(tint_handler)
    /\ SF_vars(tout_handler)
-----------------------------------------------------------------------------
\* Properties.

Running == pc \notin {"startup", "exit"}

\* Memory: update_topo, reduce_tree and rec_reset_tree follow no pointer to a
\* router that free_router has freed, or that is not allocated yet.  Every
\* parent, every list entry and the node get_path_pos stands at is in the table.
NoDangling ==
    /\ \A x \in Node : tree.parent[x] # Null => tree.parent[x] \in ht
    /\ \A p \in Hub : child(tree, p) \cup leaf(tree, p) \subseteq ht
    /\ pc = "climb" => {rx.n, rx.l} \subseteq ht

\* The walk of get_path_pos ends at a node that is in a list of its parent, so
\* get_child finds it: update_topo dereferences what get_path_pos returns.
ClimbStaysInTree ==
    pc = "climb" =>
        /\ tree.parent[rx.n] # Null
        /\ rx.n \in tree.list[slot(tree.parent[rx.n], rx.n)]

\* adopt, insert, cut_router and the reset keep both directions of the tree and
\* the list lengths together, whatever order answers arrive in.
ListsMatchParents == Linked(tree) /\ Counted(tree)

\* greedy_grouping finds every leaf and router free: what grouping used up in
\* one round, rec_reset_tree has made good before the next.
FreeBeforeGrouping ==
    pc \in {"loop", "climb", "reduce", "group"} =>
        tree.f = tree.n

\* No receiver drops out of the tree: a walk from the root meets them all.
NoReceiverLost == Running => Leaf \subseteq Reach(tree)

\* README.md: data goes "to all group members via MEADcast or IP Unicast".
EveryReceiverServed ==
    Running => txg.mdc \cup txg.uni = Leaf /\ txg.mdc \cap txg.uni = {}

\* argp.c: routers with less leafs than min_leafs and less routers than
\* min_routers get removed from the tree, although each removal changes the
\* counts of the router above.
Reduced ==
    pc = "group" => \A r \in Reach(tree) \cap Router : ~TooSmall(tree, r)

Hearable(l) == {m \in Answers(route, l) : Accepts(m)}

\* Nobody is ever placed below a router that its packets do not pass.
Sound ==
    Running => \A l \in Leaf :
                  Ancestors(tree, l) \subseteq {m.r : m \in Hearable(l)}

\* Every discovery phase ends with a new group published and tint armed again:
\* neither get_path_pos nor the recursions run for ever.
PhaseEnds == (armed = "tout") ~> (armed = "tint" /\ pc = "loop")

\* A router reports the same hop count whatever receiver it answers for and
\* whatever routing the network is in.
ReportsHops(hop) ==
    \A rt \in Routes, l \in Leaf : \A i \in 1 .. Len(rt[l]) :
        rt[l][i] \in Router => hop[rt[l][i]] = HopCount(i)

HopStable == \E hop \in [Router -> Nat] : ReportsHops(hop)

\* The paths form a tree: two that share a router share all before it.  None is
\* so long that a hop count is used twice.
TreeRoutes(rt) ==
    \A l, k \in Leaf :
        /\ Len(rt[l]) <= HopMod
        /\ \A i \in 1 .. Len(rt[l]), j \in 1 .. Len(rt[k]) :
              rt[l][i] = rt[k][j] /\ rt[l][i] \in Router =>
                  i = j /\ \A g \in 1 .. i : rt[l][g] = rt[k][g]

TreeLike == \E rt \in Routes : Routes = {rt} /\ TreeRoutes(rt)
=============================================================================
