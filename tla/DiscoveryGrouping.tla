-------------------------- MODULE DiscoveryGrouping --------------------------
(***************************************************************************)
(* The discovery thread with greedy_grouping step by step: Discovery, whose *)
(* one step of that name is replaced by the steps of Grouping on the tree   *)
(* that reduce_tree has left.  While they are taken the thread is in        *)
(* tout_handler and pc stays at "group"; gpc is "idle" otherwise.           *)
(*                                                                          *)
(* The C lists have an order that Topology leaves out: grouping starts with *)
(* any.                                                                     *)
(***************************************************************************)
EXTENDS Discovery, Grouping, Functions

VARIABLE order    \* the leaf lists, in order

allvars == <<vars, gvars, order>>

\* What the variables of greedy_grouping are outside of it is of no account.
Idle ==
    /\ order = << >> /\ T = << >>
    /\ fleaf = << >> /\ fchild = << >>
    /\ gpc = "idle" /\ r = Root /\ s = Null /\ p = 1
    /\ merge = reset_merging_stats
    /\ addrs = << >> /\ bm = {} /\ mdc = << >> /\ uni = {}

Forget ==
    /\ order' = << >> /\ T' = << >>
    /\ fleaf' = << >> /\ fchild' = << >>
    /\ gpc' = "idle" /\ r' = Root /\ s' = Null /\ p' = 1
    /\ merge' = reset_merging_stats
    /\ addrs' = << >> /\ bm' = {} /\ mdc' = << >> /\ uni' = {}

DGInit == Init /\ args \in Args /\ Idle

-----------------------------------------------------------------------------
\* One choice of an order for each of the sets f[q].
OrdersOf(S) == Bijection(1 .. Cardinality(S), S)

Orders(f) ==
    {o \in [Hub -> UNION {OrdersOf(f[q]) : q \in Hub}] :
        \A q \in Hub : o[q] \in OrdersOf(f[q])}

\* A router that is in the hash table, or was, but not in the tree.
Outside(q) == q # Root /\ tree.parent[q] = Null

\* The tree as Grouping sees it, its child lists in the order c.  No step gets to a
\* router outside of it, which Grouping takes to hang below the root.
TreeWith(c) ==
    [parent |-> [q \in Router |-> IF Outside(q) THEN Root ELSE tree.parent[q]],
     hops   |-> [q \in Hub |-> IF Outside(q) THEN 1 ELSE tree.hops[q]],
     child  |-> c,
     nleaf  |-> [q \in Hub |-> nleaf(tree, q)]]

\* The start of greedy_grouping: the counters are those of the tree.
BeginGrouping ==
    /\ pc = "group" /\ gpc = "idle"
    /\ order' \in Orders([q \in Hub |-> leaf(tree, q)])
    /\ \E c \in Orders([q \in Hub |-> child(tree, q)]) : T' = TreeWith(c)
    /\ fleaf' = [q \in Hub |-> tree.f[<<q, "leaf">>]]
    /\ fchild' = [q \in Hub |-> tree.f[<<q, "child">>]]
    /\ gpc' = "get_start"
    /\ UNCHANGED <<vars, args, r, s, p, merge, addrs, bm, mdc, uni>>

\* The steps of greedy_grouping.
GroupingStep == pc = "group" /\ Step /\ UNCHANGED <<vars, order>>

\* The address at a place of a header: a router, or a receiver.
NodeAt(x) == IF x[2] = 0 THEN x[1] ELSE order[x[1]][x[2]]

Receivers(h) == {NodeAt(h.addrs[i]) : i \in DOMAIN h.addrs} \cap Leaf

\* The end of greedy_grouping, and set_txg.  The counters stay in the tree.
EndGrouping ==
    /\ pc = "group" /\ gpc = "done"
    /\ txg' = [mdc |-> UNION {Receivers(mdc[i]) : i \in DOMAIN mdc},
               uni |-> {NodeAt(x) : x \in uni}]
    /\ tree' = [tree EXCEPT !.f = [z \in Slot |-> IF z[2] = "leaf" THEN fleaf[z[1]]
                                                               ELSE fchild[z[1]]]]
    /\ pc' = "reset"
    /\ UNCHANGED <<ht, rx, visited, armed, net, route, args>>
    /\ Forget

\* Everything else is as in Discovery.
DiscoveryWork ==
    /\ \/ get_path_pos \/ update_topo
       \/ \E q \in Router : reduce_tree(q) \/ rec_reset_tree(q)
       \/ ReduceDone \/ ResetDone
    /\ UNCHANGED <<gvars, order>>

DiscoveryEvent ==
    /\ \/ \E l \in Leaf : Join(l) \/ JoinTwice(l)
       \/ Exited \/ Start
       \/ \E m \in net : rx_dcvr(m) \/ rx_rejected(m)
       \/ Reroute
    /\ UNCHANGED <<gvars, order>>

tint == tint_handler /\ UNCHANGED <<gvars, order>>
tout == tout_handler /\ UNCHANGED <<gvars, order>>

PhaseWork == DiscoveryWork \/ BeginGrouping \/ GroupingStep \/ EndGrouping

DGNext == DiscoveryEvent \/ tint \/ tout \/ PhaseWork

\* As in Discovery.
DGSpec ==
    /\ DGInit /\ [][DGNext]_allvars
    /\ WF_allvars(PhaseWork) /\ SF_allvars(tint) /\ SF_allvars(tout)
-----------------------------------------------------------------------------
\* Properties.  One of Discovery is checked here too: PhaseEnds, with every step of
\* the walk of greedy_grouping in the phase.

\* The steps of greedy_grouping, on every tree discovery may leave and any order
\* of its lists, come to what Discovery says of it in one step: the receivers
\* below routers are in headers, those of the root in the unicast list, and all
\* free counters are used up.
ImplementsDiscovery == Init /\ [][Next]_vars

\* Reduction leaves a tree as grouping expects it: every router in the list of its
\* parent and in no other, no router in a list without a receiver below it, none
\* closer to the sender than its parent, and no cycle.  get_start would not end, and
\* a section would start with the wrong router.
GroupingInput == gpc # "idle" => GroupTree(T)

\* The router a receiver at place i of h is listed under.
SectionRouter(h, i) ==
    NodeAt(h.addrs[1 + CHOOSE b \in h.bm : b < i /\ \A c \in h.bm : c < i => c <= b])

\* argp.c, merge: "merge leafs with distinct parent routers under an common
\* ancestor".  In every finished header the router in front of a receiver is on
\* the way to it, in the tree that the answers have built, unless the routing has
\* put routers of one distance below each other.
CommonAncestor ==
    (gpc = "done" /\ Growing) => \A k \in DOMAIN mdc : \A i \in DOMAIN mdc[k].addrs :
        NodeAt(mdc[k].addrs[i]) \in Leaf =>
            SectionRouter(mdc[k], i - 1) \in Ancestors(tree, NodeAt(mdc[k].addrs[i]))
=============================================================================
