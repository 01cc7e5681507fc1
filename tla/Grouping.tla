------------------------------- MODULE Grouping -------------------------------
(***************************************************************************)
(* greedy_grouping (tree.c): the walk over the topology tree that packs the *)
(* receivers into MEADcast headers, one action per branch of its loop, and  *)
(* the search of get_start in steps of its own, since it may not end.       *)
(*                                                                          *)
(* The tree T does not change while it is grouped; only the free counters   *)
(* do.  Its lists are sequences here: get_free takes the used entries to be *)
(* the first ones.  The address of a receiver is the pair of its router and *)
(* its place in the leaf list, that of a router the pair with 0.  The list  *)
(* `addrs' is the part of the C array that is in use, so its length is the  *)
(* variable n of the code, and the router bitmap is the set of the          *)
(* positions (from 0) whose bit is set.                                     *)
(***************************************************************************)
EXTENDS Nodes, Integers, Sequences

CONSTANTS Trees,    \* the trees reduce_tree may leave
          Args      \* the values of the grouping options

BITMAP_LIMIT == 32

\* There is something below q.
Used(t, q) == t.nleaf[q] > 0 \/ t.child[q] # << >>

\* Every router with something below it is once in the list of its parent, and in no
\* other; going up ends at the root.  reduce_tree leaves no router in a list without
\* a receiver below it.  No router is closer than the one above it.  A router that
\* is in no list is not in the tree: it hangs below the root, and no step gets to it.
GroupTree(t) ==
    /\ t.parent \in [Router -> Hub]
    /\ t.hops \in [Hub -> Nat]
    /\ t.child \in [Hub -> Seq(Router)]
    /\ t.nleaf \in [Hub -> Nat]
    /\ \A q \in Router : Used(t, q) =>
           \E i \in 1 .. Len(t.child[t.parent[q]]) : t.child[t.parent[q]][i] = q
    /\ \A q \in Hub : \A i, j \in 1 .. Len(t.child[q]) :
           /\ t.parent[t.child[q][i]] = q
           /\ t.child[q][i] = t.child[q][j] => i = j
           /\ Used(t, t.child[q][i])
    /\ \A q \in Router : t.hops[t.parent[q]] <= t.hops[q]
    /\ \A U \in SUBSET Router : U # {} => \E q \in U : t.parent[q] \notin U

ASSUME TreesAssumption == \A t \in Trees : GroupTree(t)

\* argp.c: the bounds parse_opt enforces; ok_addrs is .8 * max_addrs if not given.
ASSUME ArgsAssumption ==
    /\ Args \subseteq [max_addrs : Nat, ok_addrs : Nat, split_nodes : BOOLEAN,
                       merge_range : Nat]
    /\ \A a \in Args : a.max_addrs >= 2 /\ a.ok_addrs >= 1

VARIABLES T, args,
          fleaf, fchild,   \* the free counters of the routers
          gpc,             \* where greedy_grouping is
          r,               \* the router at hand, in get_start too
          s,               \* get_start: the last router seen with a free leaf
          p,               \* 1 if the address of r needs a place, else 0
          merge,           \* the merging state cr, pcr, icr and init_hops
          addrs, bm,       \* the header being filled
          mdc, uni         \* the group: the headers, and the unicast receivers

gvars == <<T, args, fleaf, fchild, gpc, r, s, p, merge, addrs, bm, mdc, uni>>

Max == IF args.max_addrs < BITMAP_LIMIT THEN args.max_addrs ELSE BITMAP_LIMIT

Address(q) == <<q, 0>>
LeafsOf(q) == {<<q, i>> : i \in 1 .. T.nleaf[q]}

reset_merging_stats == [cr |-> Null, pcr |-> Null, icr |-> 0, init_hops |-> 0]

GInit ==
    /\ T \in Trees
    /\ args \in Args
    /\ fleaf = T.nleaf
    /\ fchild = [q \in Hub |-> Len(T.child[q])]
    /\ gpc = "get_start"
    /\ r = Root
    /\ s = Null
    /\ p = 1
    /\ merge = reset_merging_stats
    /\ addrs = << >>
    /\ bm = {}
    /\ mdc = << >>
    /\ uni = {}

-----------------------------------------------------------------------------
\* list.c: get_free, for the router list of q.
HasFree(q) == fchild[q] > 0 /\ fchild[q] <= Len(T.child[q])
get_free_router(q) == T.child[q][Len(T.child[q]) - fchild[q] + 1]

\* The m first free leafs of q, in order.
FreeLeafs(q, m) == [i \in 1 .. m |-> <<q, T.nleaf[q] - fleaf[q] + i>>]

\* get_start(r): begin at r, which counts as a start itself unless it is the root.
get_start ==
    /\ gpc = "get_start"
    /\ s' = IF r # Root /\ fleaf[r] > 0 THEN r ELSE Null
    /\ gpc' = "descend"
    /\ UNCHANGED <<T, args, fleaf, fchild, r, p, merge, addrs, bm, mdc, uni>>

Descend ==
    /\ gpc = "descend"
    /\ HasFree(r)
    /\ r' = get_free_router(r)
    /\ s' = IF fleaf[r'] > 0 THEN r' ELSE s
    /\ UNCHANGED <<T, args, fleaf, fchild, gpc, p, merge, addrs, bm, mdc, uni>>

Found ==
    /\ gpc = "descend"
    /\ ~HasFree(r)
    /\ s # Null
    /\ r' = s
    /\ gpc' = "start"
    /\ UNCHANGED <<T, args, fleaf, fchild, s, p, merge, addrs, bm, mdc, uni>>

\* Nothing found below: the search starts again from the parent.
Retry ==
    /\ gpc = "descend"
    /\ ~HasFree(r)
    /\ s = Null
    /\ r # Root
    /\ r' = T.parent[r]
    /\ gpc' = "get_start"
    /\ UNCHANGED <<T, args, fleaf, fchild, s, p, merge, addrs, bm, mdc, uni>>

Remaining_without_unicast ==
    /\ gpc = "descend"
    /\ ~HasFree(r)
    /\ s = Null
    /\ r = Root
    /\ fleaf' = [fleaf EXCEPT ![Root] = 0]
    /\ gpc' = "done"
    /\ UNCHANGED <<T, args, fchild, r, s, p, merge, addrs, bm, mdc, uni>>

\* No start left: the leafs of the root are served by unicast.
Remaining ==
    /\ gpc = "descend"
    /\ ~HasFree(r)
    /\ s = Null
    /\ r = Root
    /\ LET F == FreeLeafs(Root, fleaf[Root])
       IN  uni' = {F[i] : i \in 1 .. fleaf[Root]}
    /\ fleaf' = [fleaf EXCEPT ![Root] = 0]
    /\ gpc' = "done"
    /\ UNCHANGED <<T, args, fchild, r, s, p, merge, addrs, bm, mdc>>

-----------------------------------------------------------------------------
Dist(i, j) == IF i > j THEN i - j ELSE j - i

\* Definitions named after another one, with a suffix, are that definition with a
\* slip a programmer could make; no specification uses them.
is_mergeable_by_closest(q) ==
    /\ merge.cr # Null
    /\ Dist(T.hops[merge.cr], T.hops[q]) <= args.merge_range

is_mergeable(q) ==
    /\ merge.cr # Null
    /\ Dist(merge.init_hops, T.hops[q]) <= args.merge_range
    /\ Dist(T.hops[merge.cr], T.hops[q]) <= args.merge_range

\* The label start: does r share the address of the closest router cr?
Enter ==
    /\ gpc = "start"
    /\ p' = IF is_mergeable(r) THEN 0 ELSE 1
    /\ merge' = IF p' = 1 /\ merge.cr # Null THEN reset_merging_stats ELSE merge
    /\ gpc' = "fill"
    /\ UNCHANGED <<T, args, fleaf, fchild, r, s, addrs, bm, mdc, uni>>

set_txg_router_without_parent ==
    IF args.merge_range = 0 THEN [merge EXCEPT !.icr = Len(addrs)]
    ELSE IF merge.cr = Null
         THEN [merge EXCEPT !.cr = r, !.icr = Len(addrs), !.init_hops = T.hops[r]]
    ELSE IF T.hops[r] < T.hops[merge.cr] THEN [merge EXCEPT !.cr = r]
    ELSE merge

\* set_txg_router: the merging state after it, and whether the leafs of r get a
\* section of their own.
set_txg_router ==
    LET n == Len(addrs)
        pcr == merge.pcr
        Closer(q) == T.hops[q] < T.hops[merge.cr]
    IN  IF args.merge_range = 0 THEN [merge EXCEPT !.icr = n]
        ELSE IF merge.cr = Null
             THEN [merge EXCEPT !.cr = r, !.icr = n, !.init_hops = T.hops[r]]
        ELSE IF pcr # Null /\ T.hops[pcr] < T.hops[r] /\ Closer(pcr)
             THEN [merge EXCEPT !.cr = pcr, !.pcr = Null]
        ELSE IF Closer(r) THEN [merge EXCEPT !.cr = r]
        ELSE merge

\* add2txg: m free leafs of r into the list, after the address of r if they
\* open a section.  A closer router replaces the one of the open section.
add2txg(m) ==
    LET opens == args.merge_range = 0 \/ merge.cr = Null
        new == set_txg_router
        to == IF opens THEN Append(addrs, Address(r))
              ELSE [addrs EXCEPT ![merge.icr + 1] = Address(new.cr)]
    IN  /\ merge' = new
        /\ bm' = IF opens THEN bm \cup {new.icr} ELSE bm
        /\ addrs' = to \o FreeLeafs(r, m)
        /\ fleaf' = [fleaf EXCEPT ![r] = @ - m]

\* back_propagate and rec_back_propagate: the routers from q upwards that have
\* nothing free left are used up in the list of their parent.
Spent(q, fl, fc) == q # Root /\ fl[q] = 0 /\ fc[q] = 0

back_propagate(q, fl, fc) ==
    IF Spent(q, fl, fc)
    THEN [fc EXCEPT ![T.parent[q]] = IF @ > 0 THEN @ - 1 ELSE @]
    ELSE fc

rec_back_propagate_once(q, fl) == back_propagate(q, fl, fchild)

rec_back_propagate(q, fl) ==
    LET Turn[i \in 0 .. Cardinality(Router)] ==
            IF i = 0 THEN [at |-> q, fc |-> fchild]
            ELSE LET t == Turn[i - 1]
                 IN  IF Spent(t.at, fl, t.fc)
                     THEN [at |-> T.parent[t.at], fc |-> back_propagate(t.at, fl, t.fc)]
                     ELSE t
    IN  Turn[Cardinality(Router)].fc

-----------------------------------------------------------------------------
\* The loop over the free leafs of r.
Need == Len(addrs) + fleaf[r] + p
FullEnough_off_by_one == Need >= Max \/ Need >= args.ok_addrs
FullEnough == Need >= Max - 1 \/ Need >= args.ok_addrs
TooLarge_always == TRUE
TooLarge_off_by_one == fleaf[r] > Max \/ args.split_nodes
TooLarge == fleaf[r] >= Max \/ args.split_nodes

\* r has too many leafs for any header, or may be split: fill up this one.
Split ==
    /\ gpc = "fill"
    /\ fleaf[r] > 0
    /\ Need > Max
    /\ TooLarge
    /\ add2txg(Max - Len(addrs) - p)
    /\ gpc' = "next"
    /\ UNCHANGED <<T, args, fchild, r, s, p, mdc, uni>>

\* The leafs of r have to wait for the next header.
NoRoom ==
    /\ gpc = "fill"
    /\ fleaf[r] > 0
    /\ Need > Max
    /\ ~TooLarge
    /\ gpc' = "next"
    /\ UNCHANGED <<T, args, fleaf, fchild, r, s, p, merge, addrs, bm, mdc, uni>>

\* The header is full, or full enough, with the leafs of r.
Complete ==
    /\ gpc = "fill"
    /\ fleaf[r] > 0
    /\ Need <= Max
    /\ FullEnough
    /\ add2txg(fleaf[r])
    /\ fchild' = rec_back_propagate(r, fleaf')
    /\ gpc' = "next"
    /\ UNCHANGED <<T, args, r, s, p, mdc, uni>>

\* The header has room left after the leafs of r.
Fill ==
    /\ gpc = "fill"
    /\ fleaf[r] > 0
    /\ Need <= Max
    /\ ~FullEnough
    /\ add2txg(fleaf[r])
    /\ UNCHANGED <<T, args, fchild, gpc, r, s, p, mdc, uni>>

\* r has no free leafs left: go on to its next free child ...
Down ==
    /\ gpc = "fill"
    /\ fleaf[r] = 0
    /\ HasFree(r)
    /\ r' = get_free_router(r)
    /\ gpc' = "start"
    /\ UNCHANGED <<T, args, fleaf, fchild, s, p, merge, addrs, bm, mdc, uni>>

\* ... or back to its parent, where the header ends if that is the root.
Up ==
    /\ gpc = "fill"
    /\ fleaf[r] = 0
    /\ ~HasFree(r)
    /\ r # Root
    /\ r' = T.parent[r]
    /\ merge' = IF is_mergeable(T.parent[r])
                THEN [merge EXCEPT !.pcr = T.parent[r]] ELSE merge
    /\ fchild' = back_propagate(r, fleaf, fchild)
    /\ gpc' = IF T.parent[r] = Root THEN "next" ELSE "start"
    /\ UNCHANGED <<T, args, fleaf, s, p, addrs, bm, mdc, uni>>

finish_txg ==
    /\ gpc = "next"
    /\ mdc' = <<[addrs |-> addrs, bm |-> bm]>> \o mdc
    /\ addrs' = << >>
    /\ bm' = {}
    /\ merge' = reset_merging_stats
    /\ gpc' = "get_start"
    /\ UNCHANGED <<T, args, fleaf, fchild, r, s, p, uni>>

Finished == gpc = "done" /\ UNCHANGED gvars

Step ==
    \/ get_start \/ Descend \/ Found \/ Retry \/ Remaining
    \/ Enter \/ Split \/ NoRoom \/ Complete \/ Fill \/ Down \/ Up \/ finish_txg

GNext == Step \/ Finished

\* The thread runs greedy_grouping to its end.
GSpec == GInit /\ [][GNext]_gvars /\ WF_gvars(Step)
-----------------------------------------------------------------------------
\* Properties.

Elems(q) == {q[i] : i \in DOMAIN q}
Leafs(q) == [i \in {j \in DOMAIN q : q[j][2] > 0} |-> q[i]]

GTypeOK ==
    /\ fleaf \in [Hub -> Nat] /\ \A q \in Hub : fleaf[q] <= T.nleaf[q]
    /\ fchild \in [Hub -> Nat] /\ \A q \in Hub : fchild[q] <= Len(T.child[q])
    /\ gpc \in {"get_start", "descend", "start", "fill", "next", "done"}
    /\ r \in Hub /\ (gpc \in {"start", "fill"} => r \in Router)
    /\ s \in Router \cup {Null}
    /\ p \in {0, 1}
    /\ merge.cr \in Router \cup {Null} /\ merge.pcr \in Hub \cup {Null}
    /\ merge.icr \in 0 .. BITMAP_LIMIT - 1 /\ merge.init_hops \in Nat
    /\ bm \subseteq 0 .. BITMAP_LIMIT - 1

\* The routers from q up to the root.
Above[q \in Router] ==
    {q} \cup IF T.parent[q] = Root THEN {} ELSE Above[T.parent[q]]

\* The array addrs[max] is never overrun, no router gets a bit the bitmap does
\* not have, no counter falls below zero, and `max - n - p', unsigned in the code,
\* never wraps: a header that is still open has room for a router and a receiver.
InBounds ==
    /\ GTypeOK
    /\ Len(addrs) <= args.max_addrs /\ Len(addrs) <= BITMAP_LIMIT
    /\ (gpc = "fill" /\ fleaf[r] > 0) => Len(addrs) + p < Max

\* The free counters tell the truth whenever get_start reads them: the free
\* children of a router are those with a free leaf below them, and they are the
\* last ones of its list, where get_free looks for them.
FreeExact ==
    gpc \in {"get_start", "descend", "next", "done"} =>
        \A q \in Hub :
            {i \in 1 .. Len(T.child[q]) :
                \E x \in Router : T.child[q][i] \in Above[x] /\ fleaf[x] > 0}
            = Len(T.child[q]) - fchild[q] + 1 .. Len(T.child[q])

\* The receiver at place i belongs to the last router before it, which the bitmap
\* marks: the one at place b + 1.
Leads(h, b, i) == b < i - 1 /\ \A c \in h.bm : c <= b \/ c > i - 1

\* Distances grow on every way, as they do under one routing.  After a change of the
\* routing, routers of one distance may be below each other.
Growing == \A q \in Router : T.hops[T.parent[q]] < T.hops[q]

Covered(h) ==
    \A i \in 1 .. Len(h.addrs) :
        IF i - 1 \in h.bm THEN h.addrs[i][2] = 0
        ELSE h.addrs[i][2] > 0
             /\ \E b \in h.bm :
                    /\ Leads(h, b, i)
                    /\ Growing => h.addrs[b + 1][1] \in Above[h.addrs[i][1]]

Far(h) ==
    \E b \in h.bm, i \in 1 .. Len(h.addrs) :
        /\ Leads(h, b, i)
        /\ Dist(T.hops[h.addrs[i][1]], T.hops[h.addrs[b + 1][1]]) > 2 * args.merge_range

\* In every header a receiver follows the address of a router, and it is below that
\* router, merged or not, if distances grow.  argp.c, merge: "`distance` determines the range within which leafs will
\* be merged."  set_txg_router compares each router with the closest one so far, or
\* with its parent, but not the one it chooses with all that are merged: leafs may
\* be merged under a router at up to twice the range from their own.
SectionCovers ==
    /\ Covered([addrs |-> addrs, bm |-> bm])
    /\ \A i \in 1 .. Len(mdc) : Covered(mdc[i]) /\ ~Far(mdc[i])

\* argp.c, split: without the option leafs of one router are in one packet,
\* unless they are too many for any packet.
KeptTogether ==
    ~args.split_nodes =>
        \A q \in Router :
            T.nleaf[q] < Max =>
                Cardinality({i \in 1 .. Len(mdc) :
                                LeafsOf(q) \cap Elems(mdc[i].addrs) # {}}) <= 1

\* greedy_grouping implements ReceiverPacking: it ends, with every receiver that
\* has a router in exactly one packet, once, no packet empty or over its limit,
\* and the others in the unicast list.
All == UNION {LeafsOf(q) : q \in Hub}
Packing ==
    INSTANCE ReceiverPacking WITH
        direct  <- LeafsOf(Root),
        limit   <- Max,
        packets <- [i \in 1 .. Len(mdc) |-> Leafs(mdc[i].addrs)],
        unicast <- uni,
        todo    <- (All \ UNION {Elems(mdc[i].addrs) : i \in 1 .. Len(mdc)}) \ uni

ImplementsPacking == Packing!Spec
=============================================================================
