------------------------------- MODULE Topology -------------------------------
(***************************************************************************)
(* The topology tree of the MEADcast sender (tree.c, list.c, list.h) as a   *)
(* record, and its operations as operators that return the changed record.  *)
(* An operator keeps the name of the C function it stands for.  The linked  *)
(* lists `child` and `leaf' of struct router are sets here: nothing in this *)
(* module depends on their order (Grouping.tla, where it matters, keeps     *)
(* sequences).  The four counters are kept exactly as the code keeps them,  *)
(* so that a counter that drifts from its list is visible.                  *)
(***************************************************************************)
EXTENDS Nodes, Naturals

CONSTANT Leaf     \* receivers

Node == Leaf \cup Router \cup {Root}

ASSUME LeafAssumption == IsFiniteSet(Leaf) /\ Leaf \cap Hub = {} /\ Null \notin Leaf

\* A router has two lists, of child routers and of leafs; a node goes into the
\* one for its type.
Kind == {"child", "leaf"}
Slot == Hub \X Kind
slot(p, c) == <<p, IF c \in Router THEN "child" ELSE "leaf">>

\* struct node, struct leaf and struct router: the parent pointers, the hops of
\* the routers, their lists, and for each list its length (nchild, nleaf) and
\* its number of free entries (fchild, fleaf).
Tree == [parent : [Node -> Hub \cup {Null}],
         hops   : [Hub -> Nat],
         list   : [Slot -> SUBSET (Leaf \cup Router)],
         n      : [Slot -> Nat],
         f      : [Slot -> Nat]]

child(t, r)  == t.list[<<r, "child">>]
leaf(t, r)   == t.list[<<r, "leaf">>]
nchild(t, r) == t.n[<<r, "child">>]
nleaf(t, r)  == t.n[<<r, "leaf">>]

\* init_group: the root alone; every other node is not allocated yet.
init_group ==
    [parent |-> [x \in Node |-> Null],
     hops   |-> [r \in Hub |-> 0],
     list   |-> [s \in Slot |-> {}],
     n      |-> [s \in Slot |-> 0],
     f      |-> [s \in Slot |-> 0]]

\* Definitions named after another one, with a suffix, are that definition with a
\* slip a programmer could make.  No specification uses them; each is there to
\* show that a property tells the two apart.
Decrement_unguarded(n) == n - 1

Decrement(n) == IF n > 0 THEN n - 1 ELSE n

-----------------------------------------------------------------------------
\* list.c

\* add_router and add_leaf: c into the list of p for its type.
add_child(t, p, c) ==
    [parent |-> [t.parent EXCEPT ![c] = p],
     hops   |-> t.hops,
     list   |-> [t.list EXCEPT ![slot(p, c)] = @ \cup {c}],
     n      |-> [t.n EXCEPT ![slot(p, c)] = @ + 1],
     f      |-> [t.f EXCEPT ![slot(p, c)] = @ + 1]]

\* rm_router and rm_leaf.  The parent pointer of c is cleared even when the
\* list of p does not hold c, which leaves list and counters alone.
rm_child(t, p, c) ==
    LET s == slot(p, c)
        found == c \in t.list[s]
    IN  [parent |-> [t.parent EXCEPT ![c] = Null],
         hops   |-> t.hops,
         list   |-> [t.list EXCEPT ![s] = @ \ {c}],
         n      |-> [t.n EXCEPT ![s] = IF found THEN Decrement(@) ELSE @],
         f      |-> [t.f EXCEPT ![s] = IF found THEN Decrement(@) ELSE @]]

\* All of C, of kind k, into the list of p.
add_childs(t, p, k, C) ==
    [parent |-> [x \in Node |-> IF x \in C THEN p ELSE t.parent[x]],
     hops   |-> t.hops,
     list   |-> [t.list EXCEPT ![<<p, k>>] = @ \cup C],
     n      |-> [t.n EXCEPT ![<<p, k>>] = @ + Cardinality(C)],
     f      |-> [t.f EXCEPT ![<<p, k>>] = @ + Cardinality(C)]]

-----------------------------------------------------------------------------
\* tree.c: building the tree.

set_hops(t, r, h) == [t EXCEPT !.hops = [t.hops EXCEPT ![r] = h]]

\* A router as calloc returns it: no hops, empty lists, counters at zero.
blank(t, r) ==
    [parent |-> t.parent,
     hops   |-> [t.hops EXCEPT ![r] = 0],
     list   |-> [s \in Slot |-> IF s[1] = r THEN {} ELSE t.list[s]],
     n      |-> [s \in Slot |-> IF s[1] = r THEN 0 ELSE t.n[s]],
     f      |-> [s \in Slot |-> IF s[1] = r THEN 0 ELSE t.f[s]]]

create_leaf(t, l, p)   == add_child(t, p, l)
create_router(t, r, p) == add_child(blank(t, r), p, r)

adopt_without_removal(t, p, c) == add_child(t, p, c)

\* Moves c, with everything below it, from its parent to p.
adopt(t, p, c) ==
    IF t.parent[c] = Null THEN t
    ELSE add_child(rm_child(t, t.parent[c], c), p, c)

\* A new router r between c and the parent of c.
insert(t, r, c) == adopt(create_router(t, r, t.parent[c]), r, c)

-----------------------------------------------------------------------------
\* tree.c: taking the tree apart.

\* Unlinks r from its parent and frees it.
free_router(t, r) == blank(rm_child(t, t.parent[r], r), r)

cut_router_without_leafs(t, r) ==
    add_childs(free_router(t, r), t.parent[r], "child", child(t, r))

\* The parent of r takes over the lists r had when it was freed.
cut_router(t, r) ==
    LET p == t.parent[r]
    IN  add_childs(add_childs(free_router(t, r), p, "child", child(t, r)),
                   p, "leaf", leaf(t, r))

reset_router_keeping_leafs(t, s, r) == rm_child(blank(t, r), t.parent[r], r)

\* rec_reset_tree at a router r whose children are gone: the leafs of r go
\* back to the root s, r is cleared and unlinked but stays allocated.
reset_router(t, s, r) ==
    rm_child(blank(add_childs(t, s, "leaf", leaf(t, r)), r), t.parent[r], r)

reset_root_without_counter(t) == t

\* rec_reset_tree at the root itself, last.
reset_root(t) ==
    [t EXCEPT !.f = [t.f EXCEPT ![<<Root, "leaf">>] = nleaf(t, Root)]]

-----------------------------------------------------------------------------
\* What is meant by a tree.

\* Parent pointers never lead back: every set of nodes that leaves out the
\* root has a way out of it.
Acyclic(t) ==
    \A S \in SUBSET (Leaf \cup Router) :
        S # {} => \E x \in S : t.parent[x] \notin S

\* The lists are the inverse of the parent pointers.
Linked(t) ==
    /\ t.parent[Root] = Null
    /\ \A p \in Hub : /\ child(t, p) = {c \in Router : t.parent[c] = p}
                      /\ leaf(t, p)  = {l \in Leaf : t.parent[l] = p}

\* The counters nchild and nleaf are the lengths of the lists.
Counted(t) == \A s \in Slot : t.n[s] = Cardinality(t.list[s])

\* The nodes a walk down the lists from the root meets.
Reach(t) ==
    {x \in Node :
        \A S \in SUBSET Node :
            (/\ Root \in S
             /\ \A p \in S \cap Hub : child(t, p) \cup leaf(t, p) \subseteq S)
            => x \in S}

\* The routers above x, the root left out.
Ancestors(t, x) ==
    {r \in Router :
        \A S \in SUBSET Node :
            (/\ t.parent[x] \in S \cup {Null}
             /\ \A y \in S : t.parent[y] \in S \cup {Null})
            => r \in S}
=============================================================================
