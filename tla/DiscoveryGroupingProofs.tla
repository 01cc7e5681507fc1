----------------------- MODULE DiscoveryGroupingProofs -----------------------
(***************************************************************************)
(* Discovery and greedy_grouping together: the tree that reduce_tree leaves *)
(* is one that Grouping is about, in any order of its lists, so what holds  *)
(* of the walk over any tree holds of the walks the thread takes; and what  *)
(* such a walk leaves behind is what Discovery says of it in one step.      *)
(***************************************************************************)
EXTENDS DiscoveryGrouping, DiscoveryProofs, GroupingProofs

-----------------------------------------------------------------------------
\* The tree with its lists in an order.

\* An order of a list names all of its members, each once.
LEMMA OrderOf ==
    ASSUME NEW S, IsFiniteSet(S), NEW o \in OrdersOf(S)
    PROVE  /\ Cardinality(S) \in Nat
           /\ o \in Seq(S) /\ Len(o) = Cardinality(S)
           /\ \A i, j \in 1 .. Len(o) : o[i] = o[j] => i = j
           /\ \A x \in S : \E i \in 1 .. Len(o) : o[i] = x
<1> DEFINE n == Cardinality(S)
<1>1. n \in Nat
  BY FS_CardinalityType
<1>2. /\ o \in [1 .. n -> S]
      /\ \A i, j \in 1 .. n : o[i] = o[j] => i = j
      /\ \A x \in S : \E i \in 1 .. n : o[i] = x
  BY DEF OrdersOf, Bijection, Injection, Surjection, IsInjective
<1> HIDE DEF n
<1>3. o \in Seq(S) /\ Len(o) = n
  BY <1>1, <1>2
<1>4. QED  BY <1>1, <1>2, <1>3 DEF n

\* One order for each list of the tree.
LEMMA OrderedLists ==
    ASSUME Structure, NEW k \in Kind,
           NEW o \in Orders([q \in Hub |-> tree.list[<<q, k>>]]), NEW q \in Hub
    PROVE  /\ tree.n[<<q, k>>] \in Nat
           /\ o[q] \in Seq(tree.list[<<q, k>>]) /\ Len(o[q]) = tree.n[<<q, k>>]
           /\ \A i, j \in 1 .. Len(o[q]) : o[q][i] = o[q][j] => i = j
           /\ \A x \in tree.list[<<q, k>>] : \E i \in 1 .. Len(o[q]) : o[q][i] = x
<1> DEFINE S == tree.list[<<q, k>>]
<1>1. tree \in Tree /\ <<q, k>> \in Slot
  BY DEF Structure, TypeOK, Slot
<1>2. IsFiniteSet(S) /\ tree.n[<<q, k>>] = Cardinality(S)
  BY <1>1, FiniteLists DEF Structure, Counted
<1>3. o[q] \in OrdersOf(S)
  <2> DEFINE F(y) == tree.list[<<y, k>>]
             f == [y \in Hub |-> F(y)]
  <2>1. o[q] \in OrdersOf(f[q])
    BY Zenon DEF Orders
  <2>2. f[q] = S
    <3> HIDE DEF F
    <3>1. \A y \in Hub : f[y] = F(y)
      BY Zenon
    <3>2. f[q] = F(q)
      BY <3>1
    <3>3. QED  BY <3>2, Zenon DEF F, S
  <2>3. QED  BY <2>1, <2>2, Zenon
<1> HIDE DEF S
<1>4. /\ o[q] \in Seq(S) /\ Len(o[q]) = Cardinality(S) /\ Cardinality(S) \in Nat
      /\ \A i, j \in 1 .. Len(o[q]) : o[q][i] = o[q][j] => i = j
      /\ \A x \in S : \E i \in 1 .. Len(o[q]) : o[q][i] = x
  <2> DEFINE d == o[q]
  <2>1. d \in OrdersOf(S)
    BY <1>3
  <2> HIDE DEF d
  <2>2. /\ Cardinality(S) \in Nat
        /\ d \in Seq(S) /\ Len(d) = Cardinality(S)
        /\ \A i, j \in 1 .. Len(d) : d[i] = d[j] => i = j
        /\ \A x \in S : \E i \in 1 .. Len(d) : d[i] = x
    BY <1>2, <2>1, OrderOf
  <2>3. QED  BY <2>2 DEF d
<1>5. QED  BY <1>2, <1>4, Zenon DEF S

\* The tree that Grouping is given for the lists of children in the order c.
LEMMA TreeOfLists ==
    ASSUME Structure, NEW c \in Orders([q \in Hub |-> child(tree, q)])
    PROVE  /\ c \in [Hub -> Seq(Router)]
           /\ \A q \in Hub : /\ tree.n[<<q, "child">>] \in Nat
                             /\ Len(c[q]) = tree.n[<<q, "child">>]
                             /\ \A i \in 1 .. Len(c[q]) : /\ c[q][i] \in Router
                                                          /\ tree.parent[c[q][i]] = q
                             /\ \A i, j \in 1 .. Len(c[q]) : c[q][i] = c[q][j] => i = j
           /\ \A x \in Router : \A q \in Hub : tree.parent[x] = q =>
                  \E i \in 1 .. Len(c[q]) : c[q][i] = x
<1>1. c \in Orders([q \in Hub |-> tree.list[<<q, "child">>]])
  BY DEF child
<1>2. \A q \in Hub : tree.list[<<q, "child">>] = {x \in Router : tree.parent[x] = q}
  BY DEF Structure, Linked, child
<1>3. "child" \in Kind
  BY DEF Kind
<1>4. ASSUME NEW q \in Hub
      PROVE  /\ tree.n[<<q, "child">>] \in Nat
             /\ c[q] \in Seq(Router)
             /\ Len(c[q]) = tree.n[<<q, "child">>]
             /\ \A i \in 1 .. Len(c[q]) : c[q][i] \in Router /\ tree.parent[c[q][i]] = q
             /\ \A i, j \in 1 .. Len(c[q]) : c[q][i] = c[q][j] => i = j
             /\ \A x \in Router : tree.parent[x] = q => \E i \in 1 .. Len(c[q]) : c[q][i] = x
  <2> DEFINE S == {x \in Router : tree.parent[x] = q}
             d == c[q]
  <2>1. /\ tree.n[<<q, "child">>] \in Nat
        /\ d \in Seq(S) /\ Len(d) = tree.n[<<q, "child">>]
        /\ \A i, j \in 1 .. Len(d) : d[i] = d[j] => i = j
        /\ \A x \in S : \E i \in 1 .. Len(d) : d[i] = x
    <3> DEFINE L == tree.list[<<q, "child">>]
    <3>1. /\ tree.n[<<q, "child">>] \in Nat
          /\ d \in Seq(L) /\ Len(d) = tree.n[<<q, "child">>]
          /\ \A i, j \in 1 .. Len(d) : d[i] = d[j] => i = j
          /\ \A x \in L : \E i \in 1 .. Len(d) : d[i] = x
      BY <1>1, <1>3, OrderedLists
    <3>2. L = S
      BY <1>2
    <3>3. QED  BY <3>1, <3>2, Zenon
  <2>2. S \subseteq Router /\ \A x \in S : tree.parent[x] = q
    OBVIOUS
  <2>3. \A x \in Router : tree.parent[x] = q => x \in S
    OBVIOUS
  <2> HIDE DEF S, d
  <2>4. d \in Seq(Router) /\ \A i \in 1 .. Len(d) : d[i] \in S
    BY <2>1, <2>2
  <2>5. QED  BY <2>1, <2>2, <2>3, <2>4 DEF d
<1>5. DOMAIN c = Hub /\ c = [q \in Hub |-> c[q]]
  BY DEF Orders
<1>6. c \in [Hub -> Seq(Router)]
  BY <1>4, <1>5
<1>7. QED  BY <1>4, <1>6

\* Where a router is in the tree that Grouping is given.
LEMMA PlaceInTree ==
    ASSUME Structure, NEW c, NEW q \in Router
    PROVE  /\ TreeWith(c).parent[q] \in Hub
           /\ tree.parent[q] # Null => TreeWith(c).parent[q] = tree.parent[q]
           /\ tree.parent[q] = Null => TreeWith(c).parent[q] = Root
           /\ tree.parent[q] # Null => TreeWith(c).hops[q] = tree.hops[q]
           /\ tree.parent[q] = Null => TreeWith(c).hops[q] = 1
           /\ q # Root /\ q # Null
<1>1. q # Root /\ q # Null /\ q \in Hub /\ q \in Node /\ Root \in Hub
  BY RouterAssumption DEF Hub, Node
<1>2. tree.parent[q] \in Hub \cup {Null}
  BY <1>1 DEF Structure, TypeOK, Tree
<1>3. /\ TreeWith(c).parent[q] = IF Outside(q) THEN Root ELSE tree.parent[q]
      /\ TreeWith(c).hops[q] = IF Outside(q) THEN 1 ELSE tree.hops[q]
  BY <1>1 DEF TreeWith
<1>4. Outside(q) <=> tree.parent[q] = Null
  BY <1>1 DEF Outside
<1>5. QED  BY <1>1, <1>2, <1>3, <1>4

\* After reduce_tree the routers of the tree are those with something below them.
LEMMA AttachedUsed ==
    ASSUME NEW hop \in [Router -> Nat], Structure, Reduced, Ordered(hop), pc = "group",
           NEW c \in Orders([q \in Hub |-> child(tree, q)]), NEW q \in Router
    PROVE  Used(TreeWith(c), q) <=> tree.parent[q] # Null
<1> DEFINE nl == tree.n[<<q, "leaf">>]
           nc == tree.n[<<q, "child">>]
<1>1. /\ tree \in Tree /\ Linked(tree) /\ Counted(tree) /\ Acyclic(tree) /\ q \in Hub
      /\ <<q, "leaf">> \in Slot /\ <<q, "child">> \in Slot
  BY DEF Structure, TypeOK, Ordered, Hub, Slot, Kind
<1>2. nl \in Nat /\ nc \in Nat
  BY <1>1 DEF Tree
<1>3. TreeWith(c).nleaf[q] = nl /\ TreeWith(c).child = c
  BY <1>1 DEF TreeWith, nleaf
<1>4. c[q] # << >> <=> nc > 0
  <2>1. c[q] \in Seq(Router) /\ Len(c[q]) = nc
    BY <1>1, TreeOfLists
  <2> DEFINE d == c[q]
  <2> HIDE DEF d, nc
  <2>2. d \in Seq(Router) /\ Len(d) = nc
    BY <2>1 DEF d
  <2>3. d # << >> <=> nc > 0
    BY <2>2
  <2>4. QED  BY <2>3 DEF d
<1>5. \A x \in Router : tree.parent[x] = Null => child(tree, x) = {} /\ leaf(tree, x) = {}
  BY <1>1 DEF Structure, Table, DetachedEmpty, Linked, Hub
<1>6. ASSUME tree.parent[q] = Null PROVE nl = 0 /\ nc = 0
  BY <1>1, <1>5, <1>6, FS_EmptySet DEF Counted, child, leaf
<1>7. ASSUME tree.parent[q] # Null PROVE nl > 0 \/ nc > 0
  <2>1. q \in Reach(tree)
    BY <1>1, <1>5, <1>7, AllReached
  <2>2. ~ (nc < MinRouters /\ nl < MinLeafs)
    BY <2>1 DEF Reduced, TooSmall, nchild, nleaf
  <2> HIDE DEF nc, nl
  <2>3. QED  BY <2>2, <1>2, ParameterAssumption
<1> HIDE DEF nl, nc
<1>8. QED  BY <1>2, <1>3, <1>4, <1>6, <1>7 DEF Used

\* The tree that reduce_tree leaves is one that greedy_grouping can walk over.
LEMMA TreeToGroup ==
    ASSUME NEW hop \in [Router -> Nat], Structure, Reduced, Ordered(hop), pc = "group",
           NEW c \in Orders([q \in Hub |-> child(tree, q)])
    PROVE  GroupTree(TreeWith(c))
<1> DEFINE t == TreeWith(c)
<1>1. /\ tree \in Tree /\ Acyclic(tree) /\ tree.hops[Root] = 0 /\ Root \notin Router
      /\ Null \notin Hub
  BY RouterAssumption DEF Structure, TypeOK, Ordered
<1>2. \A q \in Router : /\ t.parent[q] \in Hub
                        /\ tree.parent[q] # Null => t.parent[q] = tree.parent[q]
                        /\ tree.parent[q] = Null => t.parent[q] = Root
                        /\ tree.parent[q] # Null => t.hops[q] = tree.hops[q]
                        /\ tree.parent[q] = Null => t.hops[q] = 1
  BY PlaceInTree
<1>3. /\ t.hops[Root] = 0 /\ DOMAIN t.parent = Router /\ DOMAIN t.hops = Hub
      /\ t.parent = [q \in Router |-> t.parent[q]] /\ t.hops = [q \in Hub |-> t.hops[q]]
  BY <1>1 DEF TreeWith, Outside, Hub
<1>4. /\ t.child = c
      /\ t.nleaf = [q \in Hub |-> tree.n[<<q, "leaf">>]]
  BY DEF TreeWith, nleaf
<1>5. \A q \in Router : Used(t, q) <=> tree.parent[q] # Null
  BY AttachedUsed
<1>6. /\ c \in [Hub -> Seq(Router)]
      /\ \A q \in Hub : \A i \in 1 .. Len(c[q]) :
             c[q][i] \in Router /\ tree.parent[c[q][i]] = q
      /\ \A q \in Hub : \A i, j \in 1 .. Len(c[q]) : c[q][i] = c[q][j] => i = j
      /\ \A x \in Router : \A q \in Hub : tree.parent[x] = q =>
             \E i \in 1 .. Len(c[q]) : c[q][i] = x
  BY TreeOfLists
<1> HIDE DEF t
<1>7. t.parent \in [Router -> Hub]
  BY <1>2, <1>3
<1>8. t.hops \in [Hub -> Nat]
  <2>1. \A q \in Hub : tree.hops[q] \in Nat
    BY <1>1 DEF Tree
  <2>2. \A q \in Hub : t.hops[q] \in Nat
    BY <1>2, <1>3, <2>1 DEF Hub
  <2>3. QED  BY <1>3, <2>2
<1>9. t.child \in [Hub -> Seq(Router)]
  BY <1>4, <1>6
<1>10. t.nleaf \in [Hub -> Nat]
  <2>1. \A q \in Hub : <<q, "leaf">> \in Slot
    BY DEF Slot, Kind
  <2>2. QED  BY <1>1, <1>4, <2>1 DEF Tree
<1>11. ASSUME NEW q \in Router, Used(t, q)
       PROVE  \E i \in 1 .. Len(t.child[t.parent[q]]) : t.child[t.parent[q]][i] = q
  <2>1. tree.parent[q] # Null /\ tree.parent[q] = t.parent[q] /\ t.parent[q] \in Hub
    BY <1>2, <1>5, <1>11
  <2>2. \E i \in 1 .. Len(c[t.parent[q]]) : c[t.parent[q]][i] = q
    BY <2>1, <1>6
  <2>3. QED  BY <2>2, <1>4
<1>12. ASSUME NEW q \in Hub, NEW i \in 1 .. Len(t.child[q]), NEW j \in 1 .. Len(t.child[q])
       PROVE  /\ t.parent[t.child[q][i]] = q
              /\ t.child[q][i] = t.child[q][j] => i = j
              /\ Used(t, t.child[q][i])
  <2> DEFINE x == c[q][i]
  <2>1. i \in 1 .. Len(c[q]) /\ j \in 1 .. Len(c[q])
    BY <1>4
  <2>2. x \in Router /\ tree.parent[x] = q /\ (c[q][i] = c[q][j] => i = j)
    BY <2>1, <1>6
  <2> HIDE DEF x
  <2>3. q # Null
    BY <1>1
  <2>4. t.parent[x] = q /\ Used(t, x)
    BY <1>2, <1>5, <2>2, <2>3
  <2>5. QED  BY <1>4, <2>2, <2>4, Zenon DEF x
<1>13. ASSUME NEW q \in Router PROVE t.hops[t.parent[q]] <= t.hops[q]
  <2>1. CASE t.parent[q] = Root
    BY <2>1, <1>3, <1>8 DEF Hub
  <2>2. CASE t.parent[q] # Root
    <3> DEFINE p2 == tree.parent[q]
    <3>1. tree.parent[q] # Null /\ t.parent[q] = p2 /\ p2 \in Router
      BY <1>2, <2>2 DEF Hub
    <3>2. tree.parent[p2] # Null
      BY <3>1 DEF Structure, Table, DetachedEmpty
    <3>3. t.hops[q] = hop[q] /\ t.hops[p2] = hop[p2] /\ hop[p2] <= hop[q]
      BY <1>2, <3>1, <3>2 DEF Ordered
    <3>4. QED  BY <3>1, <3>3
  <2>3. QED  BY <2>1, <2>2
<1>14. ASSUME NEW U \in SUBSET Router, U # {} PROVE \E q \in U : t.parent[q] \notin U
  <2>1. PICK q \in U : tree.parent[q] \notin U
    BY <1>1, <1>14 DEF Acyclic
  <2>2. t.parent[q] = tree.parent[q] \/ t.parent[q] = Root
    BY <1>2
  <2>3. QED  BY <1>1, <2>1, <2>2
<1>15. \A q \in Hub : \A i, j \in 1 .. Len(t.child[q]) :
           /\ t.parent[t.child[q][i]] = q
           /\ t.child[q][i] = t.child[q][j] => i = j
           /\ Used(t, t.child[q][i])
  BY <1>12, Zenon
<1>16. GroupTree(t)
  BY <1>7, <1>8, <1>9, <1>10, <1>11, <1>13, <1>14, <1>15, Zenon DEF GroupTree
<1>17. QED  BY <1>16 DEF t

\* The receivers below a router, in an order.
LEMMA LeafsInOrder ==
    ASSUME Structure, order \in Orders([q \in Hub |-> leaf(tree, q)]), NEW q \in Hub
    PROVE  /\ nleaf(tree, q) \in Nat
           /\ \A k \in 1 .. nleaf(tree, q) : /\ order[q][k] \in Leaf
                                             /\ tree.parent[order[q][k]] = q
           /\ \A l \in Leaf : tree.parent[l] = q =>
                  \E k \in 1 .. nleaf(tree, q) : order[q][k] = l
<1> DEFINE L == tree.list[<<q, "leaf">>]
           d == order[q]
           n == tree.n[<<q, "leaf">>]
<1>1. order \in Orders([x \in Hub |-> tree.list[<<x, "leaf">>]]) /\ "leaf" \in Kind
  BY DEF leaf, Kind
<1>2. L = {l \in Leaf : tree.parent[l] = q}
  BY DEF Structure, Linked, leaf
<1>3. n \in Nat /\ d \in Seq(L) /\ Len(d) = n /\ \A x \in L : \E i \in 1 .. Len(d) : d[i] = x
  BY <1>1, OrderedLists
<1>4. \A l \in L : l \in Leaf /\ tree.parent[l] = q
  BY <1>2
<1>5. \A l \in Leaf : tree.parent[l] = q => l \in L
  BY <1>2
<1> HIDE DEF L, d, n
<1>6. \A k \in 1 .. n : d[k] \in L
  BY <1>3
<1>7. nleaf(tree, q) = n
  BY Zenon DEF nleaf, n
<1>8. QED  BY <1>3, <1>4, <1>5, <1>6, <1>7, Zenon DEF d

-----------------------------------------------------------------------------
\* What holds while the thread is in greedy_grouping, and while it is not.

\* The walk is over the tree of Discovery, in some order of its lists.
Built ==
    /\ order \in Orders([q \in Hub |-> leaf(tree, q)])
    /\ \E c \in Orders([q \in Hub |-> child(tree, q)]) : T = TreeWith(c)

Link ==
    /\ args \in Args
    /\ \/ Idle
       \/ pc = "group" /\ Built /\ Walk /\ Ended

LEMMA ListsLater ==
    ASSUME tree' = tree
    PROVE  /\ [q \in Hub |-> leaf(tree, q)]' = [q \in Hub |-> leaf(tree, q)]
           /\ [q \in Hub |-> child(tree, q)]' = [q \in Hub |-> child(tree, q)]
           /\ \A c : TreeWith(c)' = TreeWith(c)
  BY DEF leaf, child, TreeWith, Outside, nleaf

LEMMA BuiltLater ==
    ASSUME Built, UNCHANGED <<tree, order, T>>
    PROVE  Built'
<1>1. tree' = tree /\ order' = order /\ T' = T
  OBVIOUS
<1>2. QED  BY <1>1, ListsLater, Zenon DEF Built

\* A walk is never idle, and a new one is sound from its first step on.
LEMMA WalkBusy == Walk => gpc \in {"get_start", "descend", "start", "fill", "next", "done"}
  BY DEF Walk, Bounded, Typed, GTypeOK

LEMMA BegunWalk == (Begun => Walk)'
  BY InitWalk, PTL

LEMMA BeginLink ==
    ASSUME NEW hop \in [Router -> Nat], Structure, Free, Reduced, Ordered(hop), Link,
           BeginGrouping
    PROVE  Link'
<1>1. /\ pc = "group" /\ gpc = "idle" /\ gpc' = "get_start"
      /\ order' \in Orders([q \in Hub |-> leaf(tree, q)])
      /\ fleaf' = [q \in Hub |-> tree.f[<<q, "leaf">>]]
      /\ fchild' = [q \in Hub |-> tree.f[<<q, "child">>]]
      /\ tree' = tree /\ pc' = pc /\ args' = args /\ r' = r /\ s' = s /\ p' = p
      /\ merge' = merge /\ addrs' = addrs /\ bm' = bm /\ mdc' = mdc /\ uni' = uni
  BY DEF BeginGrouping, vars
<1>2. PICK c \in Orders([q \in Hub |-> child(tree, q)]) : T' = TreeWith(c)
  BY DEF BeginGrouping
<1>3. Idle /\ args \in Args
  BY <1>1, WalkBusy DEF Link
<1>4. GroupTree(T)'
  <2>1. GroupTree(TreeWith(c))
    BY <1>1, TreeToGroup
  <2>2. QED  BY <1>2, <2>1, Zenon
<1>5. tree.f = tree.n
  BY <1>1 DEF Free
<1>6. fleaf' = T.nleaf'
  BY <1>1, <1>2, <1>5 DEF TreeWith, nleaf
<1>7. fchild' = [q \in Hub |-> Len(T.child[q])]'
  <2>1. T.child' = c
    BY <1>2 DEF TreeWith
  <2>2. ASSUME NEW q \in Hub PROVE Len(c[q]) = tree.n[<<q, "child">>]
    BY TreeOfLists
  <2>3. QED  BY <1>1, <1>5, <2>1, <2>2
<1>8. Begun'
  BY <1>1, <1>3, <1>4, <1>6, <1>7 DEF Begun, Idle, reset_merging_stats
<1>9. Walk' /\ Ended'
  BY <1>1, <1>8, BegunWalk DEF Ended
<1>10. Built'
  BY <1>1, <1>2, ListsLater, Zenon DEF Built
<1>11. QED  BY <1>1, <1>3, <1>9, <1>10 DEF Link

\* A step of the walk changes the walk alone.
LEMMA WalkLink ==
    ASSUME Link, GroupingStep
    PROVE  Link'
<1>1. pc' = "group" /\ UNCHANGED <<tree, order>> /\ Step
  BY DEF GroupingStep, vars
<1>2. gpc # "idle" /\ T' = T /\ args' = args
  BY <1>1 DEF Step, get_start, Descend, Found, Retry, Remaining, Enter, Split, NoRoom, Complete,
              Fill, Down, Up, finish_txg
<1>3. Built /\ Walk /\ args \in Args
  BY <1>2 DEF Link, Idle
<1>4. Walk'
  BY <1>1, <1>3, StepWalk DEF GNext
<1>5. Ended'
  <2>1. CASE gpc' = "done"
    BY <1>1, <1>3, <2>1, StepEnded
  <2>2. CASE gpc' # "done"
    BY <2>2 DEF Ended
  <2>3. QED  BY <2>1, <2>2
<1>6. Built'
  BY <1>1, <1>2, <1>3, BuiltLater
<1>7. QED  BY <1>1, <1>2, <1>3, <1>4, <1>5, <1>6 DEF Link

\* What else happens leaves the walk and its tree alone.
LEMMA QuietLink ==
    ASSUME Link, UNCHANGED <<gvars, order>>, pc = "group" => pc' = pc /\ tree' = tree
    PROVE  Link'
<1>1. /\ T' = T /\ args' = args /\ fleaf' = fleaf /\ fchild' = fchild /\ gpc' = gpc /\ r' = r
      /\ s' = s /\ p' = p /\ merge' = merge /\ addrs' = addrs /\ bm' = bm /\ mdc' = mdc
      /\ uni' = uni /\ order' = order
  BY DEF gvars
<1>2. CASE Idle
  BY <1>1, <1>2 DEF Link, Idle, reset_merging_stats
<1>3. CASE pc = "group" /\ Built /\ Walk /\ Ended
  <2>1. Built'
    BY <1>1, <1>3, BuiltLater
  <2>2. Walk'
    BY <1>3, StepWalk
  <2>3. Ended'
    BY <1>1, <1>3 DEF Ended, LeafsOf
  <2>4. QED  BY <1>1, <1>3, <2>1, <2>2, <2>3 DEF Link
<1>4. QED  BY <1>2, <1>3 DEF Link

-----------------------------------------------------------------------------
\* What a walk leaves behind.

\* The number of receivers below a router is the same for both.
LEMMA LeafNumbers ==
    ASSUME Structure, Built, Walk
    PROVE  /\ order \in Orders([q \in Hub |-> leaf(tree, q)])
           /\ \A q \in Hub : /\ T.nleaf[q] = nleaf(tree, q) /\ nleaf(tree, q) \in Nat
                             /\ fleaf[q] \in Nat
<1>1. order \in Orders([q \in Hub |-> leaf(tree, q)])
  BY DEF Built
<1>2. T.nleaf = [q \in Hub |-> nleaf(tree, q)]
  BY DEF Built, TreeWith
<1>3. \A q \in Hub : nleaf(tree, q) \in Nat
  <2> TAKE q \in Hub
  <2>1. QED  BY <1>1, LeafsInOrder
<1>4. \A q \in Hub : fleaf[q] \in Nat
  BY DEF Walk, Bounded, Typed, GTypeOK
<1>5. QED  BY <1>1, <1>2, <1>3, <1>4

\* The headers are sequences of addresses.
LEMMA MdcType ==
    ASSUME Walk
    PROVE  /\ mdc \in Seq(Headers) /\ DOMAIN mdc = 1 .. Len(mdc)
           /\ \A n \in 1 .. Len(mdc) : /\ mdc[n].addrs \in Seq(Addresses)
                                       /\ DOMAIN mdc[n].addrs = 1 .. Len(mdc[n].addrs)
<1>1. mdc \in Seq(Headers)
  BY DEF Walk, SectionsNow, Sections
<1>2. ASSUME NEW n \in 1 .. Len(mdc) PROVE mdc[n].addrs \in Seq(Addresses)
  <2>1. mdc[n] \in Headers
    BY <1>1
  <2>2. QED  BY <2>1 DEF Headers
<1>3. QED  BY <1>1, <1>2

\* An address in a header is that of a router, or of a receiver below one.
LEMMA AddressedNode ==
    ASSUME Structure, Built, Walk,
           NEW n \in 1 .. Len(mdc), NEW i \in 1 .. Len(mdc[n].addrs)
    PROVE  LET x == mdc[n].addrs[i]
           IN  \/ x[2] = 0 /\ NodeAt(x) = x[1] /\ NodeAt(x) \notin Leaf
               \/ x[2] > 0 /\ x[1] \in Router /\ NodeAt(x) \in Leaf
                  /\ tree.parent[NodeAt(x)] = x[1]
<1> DEFINE x == mdc[n].addrs[i]
<1>1. x \in Addresses
  BY MdcType
<1>2. x[2] > 0 => x[1] \in Router /\ x[2] <= T.nleaf[x[1]] - fleaf[x[1]]
  BY DEF Walk, Ledger, Given
<1> HIDE DEF x
<1>3. x[1] \in Hub /\ x[2] \in Nat
  BY <1>1 DEF Addresses
<1>4. CASE x[2] = 0
  <2>1. NodeAt(x) = x[1]
    BY <1>4 DEF NodeAt
  <2>2. NodeAt(x) \notin Leaf
    BY <1>3, <2>1, LeafAssumption
  <2>3. QED  BY <1>4, <2>1, <2>2, Zenon DEF x
<1>5. CASE x[2] > 0
  <2>1. T.nleaf[x[1]] = nleaf(tree, x[1]) /\ fleaf[x[1]] \in Nat /\ nleaf(tree, x[1]) \in Nat
    BY <1>3, LeafNumbers
  <2>2. x[2] \in 1 .. nleaf(tree, x[1])
    BY <1>2, <1>3, <1>5, <2>1
  <2>3. order[x[1]][x[2]] \in Leaf /\ tree.parent[order[x[1]][x[2]]] = x[1]
    BY <1>3, <2>2, LeafNumbers, LeafsInOrder
  <2>4. NodeAt(x) = order[x[1]][x[2]]
    BY <1>5 DEF NodeAt
  <2>5. QED  BY <1>2, <1>5, <2>3, <2>4, Zenon DEF x
<1>6. QED  BY <1>3, <1>4, <1>5

\* In the end every receiver below a router is in a header.
LEMMA ReceiverAddressed ==
    ASSUME Structure, Built, Walk, Ended, gpc = "done",
           NEW l \in Leaf, tree.parent[l] \in Router
    PROVE  \E n \in 1 .. Len(mdc) : \E i \in 1 .. Len(mdc[n].addrs) :
               NodeAt(mdc[n].addrs[i]) = l
<1> DEFINE q == tree.parent[l]
<1>1. q \in Hub /\ q \in Router
  BY DEF Hub
<1>2. PICK k \in 1 .. nleaf(tree, q) : order[q][k] = l
  BY <1>1, LeafNumbers, LeafsInOrder
<1> HIDE DEF q
<1>3. nleaf(tree, q) \in Nat /\ T.nleaf[q] = nleaf(tree, q) /\ fleaf[q] = 0
  BY <1>1, LeafNumbers DEF Ended
<1>4. k \in 1 .. T.nleaf[q] - fleaf[q] /\ k # 0
  BY <1>3
<1>5. Len(addrs) = 0
  BY DEF Ended
<1>6. PICK n \in 1 .. Len(mdc) : \E i \in 1 .. Len(mdc[n].addrs) : mdc[n].addrs[i] = <<q, k>>
  <2>1. Kept
    BY DEF Walk, Ledger
  <2>2. \/ \E i \in 1 .. Len(addrs) : addrs[i] = <<q, k>>
        \/ \E n \in 1 .. Len(mdc) : \E i \in 1 .. Len(mdc[n].addrs) : mdc[n].addrs[i] = <<q, k>>
    BY <1>1, <1>4, <2>1, Zenon DEF Kept
  <2>3. ~ \E i \in 1 .. Len(addrs) : addrs[i] = <<q, k>>
    BY <1>5
  <2>4. QED  BY <2>2, <2>3, Zenon
<1>7. NodeAt(<<q, k>>) = l
  BY <1>2, <1>4 DEF NodeAt
<1>8. QED  BY <1>6, <1>7

\* greedy_grouping uses up every list; those outside of the tree are empty.
LEMMA CountersEnd ==
    ASSUME NEW hop \in [Router -> Nat], Structure, Free, Ordered(hop), pc = "group",
           Ended, gpc = "done"
    PROVE  [z \in Slot |-> IF z[2] = "leaf" THEN fleaf[z[1]] ELSE fchild[z[1]]]
           = [z \in Slot |-> IF z[1] \in Reach(tree) THEN 0 ELSE tree.f[z]]
<1>1. tree \in Tree /\ Linked(tree) /\ Acyclic(tree) /\ Counted(tree) /\ tree.f = tree.n
  BY DEF Structure, TypeOK, Ordered, Free
<1>2. \A x \in Router : tree.parent[x] = Null => child(tree, x) = {} /\ leaf(tree, x) = {}
  BY <1>1 DEF Structure, Table, DetachedEmpty, Linked, Hub
<1>3. Root \in Reach(tree)
  BY DEF Reach, Node
<1>4. ASSUME NEW z \in Slot
      PROVE  /\ (IF z[2] = "leaf" THEN fleaf[z[1]] ELSE fchild[z[1]]) = 0
             /\ z[1] \notin Reach(tree) => tree.f[z] = 0
  <2>1. PICK q \in Hub, k \in Kind : z = <<q, k>>
    BY DEF Slot
  <2>2. z[1] = q
    BY <2>1
  <2>3. fleaf[q] = 0 /\ fchild[q] = 0
    BY DEF Ended
  <2>4. ASSUME q \notin Reach(tree) PROVE tree.f[z] = 0
    <3>1. q \in Router
      BY <1>3, <2>4 DEF Hub
    <3>2. tree.parent[q] = Null
      BY <1>1, <1>2, <2>4, <3>1, AllReached
    <3>3. tree.list[z] = {}
      BY <1>2, <2>1, <3>1, <3>2 DEF child, leaf, Kind
    <3>4. tree.n[z] = 0
      BY <1>1, <3>3, FS_EmptySet DEF Counted
    <3>5. QED  BY <1>1, <3>4
  <2>5. QED  BY <2>2, <2>3, <2>4
<1>5. QED  BY <1>4

\* The end of the walk is the step of Discovery: the receivers in the headers are those
\* below routers, and the others those below the root.
LEMMA EndGroups ==
    ASSUME NEW hop \in [Router -> Nat], Structure, Free, Ordered(hop), Link, EndGrouping
    PROVE  greedy_grouping
<1> DEFINE in == Reach(tree)
           M == UNION {Receivers(mdc[i]) : i \in DOMAIN mdc}
           D == {NodeAt(x) : x \in uni}
           F == [z \in Slot |-> IF z[2] = "leaf" THEN fleaf[z[1]] ELSE fchild[z[1]]]
           G == [z \in Slot |-> IF z[1] \in in THEN 0 ELSE tree.f[z]]
<1>1. /\ pc = "group" /\ gpc = "done" /\ pc' = "reset"
      /\ txg' = [mdc |-> M, uni |-> D]
      /\ tree' = [tree EXCEPT !.f = F]
      /\ UNCHANGED <<ht, rx, visited, armed, net, route>>
  BY DEF EndGrouping
<1>2. Built /\ Walk /\ Ended
  BY <1>1 DEF Link, Idle
<1>3. F = G
  BY <1>1, <1>2, CountersEnd
<1>4. /\ tree \in Tree /\ Linked(tree) /\ Acyclic(tree) /\ Root \in Hub /\ Leaf \cap Hub = {}
      /\ leaf(tree, Root) = {l \in Leaf : tree.parent[l] = Root}
  BY LeafAssumption DEF Structure, TypeOK, Ordered, Linked, Hub
<1>5. \A x \in Router : tree.parent[x] = Null => child(tree, x) = {} /\ leaf(tree, x) = {}
  BY <1>4 DEF Structure, Table, DetachedEmpty, Linked, Hub
<1>6. \A l \in Leaf : tree.parent[l] \in Hub /\ l \in in
  <2> TAKE l \in Leaf
  <2>1. tree.parent[l] # Null
    BY <1>1 DEF Structure, Table, Running
  <2>2. tree.parent[l] \in Hub
    BY <1>4, <2>1 DEF Tree, Node
  <2>3. QED  BY <1>4, <1>5, <2>1, <2>2, AllReached
<1>7. M \subseteq (in \cap Leaf) \ leaf(tree, Root)
  <2> SUFFICES ASSUME NEW n \in DOMAIN mdc, NEW l \in Receivers(mdc[n])
               PROVE  l \in (in \cap Leaf) \ leaf(tree, Root)
    OBVIOUS
  <2>1. n \in 1 .. Len(mdc) /\ DOMAIN mdc[n].addrs = 1 .. Len(mdc[n].addrs)
    BY <1>2, MdcType
  <2>2. PICK i \in 1 .. Len(mdc[n].addrs) : l = NodeAt(mdc[n].addrs[i])
    BY <2>1 DEF Receivers
  <2>3. l \in Leaf
    BY DEF Receivers
  <2>4. tree.parent[l] \in Router
    BY <1>2, <2>1, <2>2, <2>3, AddressedNode
  <2>5. QED  BY <1>4, <1>6, <2>3, <2>4, RouterAssumption
<1>8. (in \cap Leaf) \ leaf(tree, Root) \subseteq M
  <2> SUFFICES ASSUME NEW l \in Leaf, l \notin leaf(tree, Root) PROVE l \in M
    OBVIOUS
  <2>1. tree.parent[l] \in Router
    BY <1>4, <1>6 DEF Hub
  <2>2. PICK n \in 1 .. Len(mdc) :
            \E i \in 1 .. Len(mdc[n].addrs) : NodeAt(mdc[n].addrs[i]) = l
    BY <1>1, <1>2, <2>1, ReceiverAddressed
  <2>3. n \in DOMAIN mdc /\ DOMAIN mdc[n].addrs = 1 .. Len(mdc[n].addrs)
    BY <1>2, MdcType
  <2>4. l \in Receivers(mdc[n])
    BY <2>2, <2>3 DEF Receivers
  <2>5. QED  BY <2>3, <2>4
<1>9. D = leaf(tree, Root)
  <2>1. /\ T.nleaf[Root] = nleaf(tree, Root) /\ nleaf(tree, Root) \in Nat
        /\ order \in Orders([q \in Hub |-> leaf(tree, q)])
    BY <1>2, <1>4, LeafNumbers
  <2>2. uni = {<<Root, k>> : k \in 1 .. nleaf(tree, Root)}
    BY <1>1, <1>2, <2>1 DEF Ended, LeafsOf
  <2>3. \A k \in 1 .. nleaf(tree, Root) : NodeAt(<<Root, k>>) = order[Root][k]
    BY <2>1 DEF NodeAt
  <2>4. D = {order[Root][k] : k \in 1 .. nleaf(tree, Root)}
    BY <2>2, <2>3
  <2>5. /\ \A k \in 1 .. nleaf(tree, Root) : /\ order[Root][k] \in Leaf
                                             /\ tree.parent[order[Root][k]] = Root
        /\ \A l \in Leaf : tree.parent[l] = Root =>
               \E k \in 1 .. nleaf(tree, Root) : order[Root][k] = l
    BY <1>4, <2>1, LeafsInOrder
  <2> HIDE DEF D
  <2>6. QED  BY <1>4, <2>4, <2>5
<1> HIDE DEF M, D, F
<1>10. txg' = [mdc |-> (in \cap Leaf) \ leaf(tree, Root), uni |-> leaf(tree, Root)]
  BY <1>1, <1>7, <1>8, <1>9
<1>11. tree' = [tree EXCEPT !.f = [z \in Slot |-> IF z[1] \in in THEN 0 ELSE @[z]]]
  BY <1>1, <1>3
<1>12. QED  BY <1>1, <1>10, <1>11 DEF greedy_grouping

-----------------------------------------------------------------------------
\* The steps together.

\* While the thread is in greedy_grouping nothing but the walk touches its tree.
LEMMA QuietSteps ==
    ASSUME DiscoveryEvent \/ tint \/ tout \/ DiscoveryWork \/ UNCHANGED allvars
    PROVE  /\ [Next]_vars /\ UNCHANGED <<gvars, order>>
           /\ pc = "group" => pc' = pc /\ tree' = tree
<1>1. CASE DiscoveryEvent
  BY <1>1 DEF DiscoveryEvent, Next, Join, JoinTwice, Exited, Start, rx_dcvr, rx_rejected, Reroute,
              vars
<1>2. CASE tint \/ tout
  BY <1>2 DEF tint, tout, Next, tint_handler, tout_handler
<1>3. CASE DiscoveryWork
  BY <1>3 DEF DiscoveryWork, Next, Work, get_path_pos, update_topo, reduce_tree, rec_reset_tree,
              ReduceDone, ResetDone
<1>4. CASE UNCHANGED allvars
  BY <1>4 DEF allvars, vars
<1>5. QED  BY <1>1, <1>2, <1>3, <1>4

\* A step of the two together is a step of Discovery, or none.
LEMMA StepOfDiscovery ==
    ASSUME NEW hop \in [Router -> Nat], Structure, Free, Ordered(hop), Link, [DGNext]_allvars
    PROVE  [Next]_vars
<1>1. CASE BeginGrouping \/ GroupingStep
  BY <1>1 DEF BeginGrouping, GroupingStep
<1>2. CASE EndGrouping
  BY <1>2, EndGroups DEF Next, Work
<1>3. CASE DiscoveryEvent \/ tint \/ tout \/ DiscoveryWork \/ UNCHANGED allvars
  BY <1>3, QuietSteps
<1>4. QED  BY <1>1, <1>2, <1>3 DEF DGNext, PhaseWork

LEMMA NextLink ==
    ASSUME NEW hop \in [Router -> Nat], Structure, Free, Reduced, Ordered(hop), Link,
           [DGNext]_allvars
    PROVE  Link'
<1>1. CASE BeginGrouping
  BY <1>1, BeginLink
<1>2. CASE GroupingStep
  BY <1>2, WalkLink
<1>3. CASE EndGrouping
  <2>1. args' = args /\ Forget
    BY <1>3 DEF EndGrouping
  <2>2. Idle'
    BY <2>1 DEF Forget, Idle, reset_merging_stats
  <2>3. QED  BY <2>1, <2>2 DEF Link
<1>4. CASE DiscoveryEvent \/ tint \/ tout \/ DiscoveryWork \/ UNCHANGED allvars
  BY <1>4, QuietSteps, QuietLink
<1>5. QED  BY <1>1, <1>2, <1>3, <1>4 DEF DGNext, PhaseWork

\* All that is known of the two together.
Both(hop) == Structure /\ Free /\ Reducing /\ Reduced /\ Ordered(hop) /\ Link

LEMMA InitBoth ==
    ASSUME NEW hop \in [Router -> Nat], DGInit
    PROVE  Both(hop)
<1>1. Init /\ args \in Args /\ Idle
  BY DEF DGInit
<1>2. Structure /\ Ordered(hop)
  BY <1>1, InitStructure, InitOrdered
<1>3. Free /\ Reducing /\ Reduced
  BY <1>1 DEF Init, init_group, Free, Reducing, Reduced
<1>4. Link
  BY <1>1 DEF Link
<1>5. QED  BY <1>2, <1>3, <1>4 DEF Both

LEMMA NextBoth ==
    ASSUME NEW hop \in [Router -> Nat], ReportsHops(hop)
    PROVE  Both(hop) /\ [DGNext]_allvars => [Next]_vars /\ Both(hop)'
<1> SUFFICES ASSUME Both(hop), [DGNext]_allvars PROVE [Next]_vars /\ Both(hop)'
  OBVIOUS
<1>1. Structure /\ Free /\ Reducing /\ Reduced /\ Ordered(hop) /\ Link
  BY DEF Both
<1>2. [Next]_vars
  BY <1>1, StepOfDiscovery
<1>3. Structure' /\ Free' /\ (Reducing /\ Reduced)' /\ Ordered(hop)'
  BY <1>1, <1>2, NextStructure, NextFree, NextReduced, NextOrdered
<1>4. Link'
  BY <1>1, NextLink
<1>5. QED  BY <1>2, <1>3, <1>4 DEF Both

\* If the distance of a router never changes, the steps of greedy_grouping, on whatever
\* tree the answers have built, come to what Discovery says of it in one step: the
\* receivers below routers are in headers, those of the root in the unicast list, and
\* every free counter is used up.  So what Discovery promises holds of the thread with
\* the walk in it.
THEOREM WalkRefinesDiscovery == ASSUME HopStable PROVE DGSpec => ImplementsDiscovery
<1>1. PICK hop \in [Router -> Nat] : ReportsHops(hop)
  BY DEF HopStable
<1>2. DGInit => Init /\ Both(hop)
  BY InitBoth DEF DGInit
<1>3. Both(hop) /\ [DGNext]_allvars => [Next]_vars /\ Both(hop)'
  BY <1>1, NextBoth
<1>4. QED  BY <1>2, <1>3, PTL DEF DGSpec, ImplementsDiscovery

\* Under the same assumption reduce_tree leaves a tree that get_start ends on and that
\* greedy_grouping is about: what GroupTree says, which every theorem on the walk needs.
THEOREM GroupsATree == ASSUME HopStable PROVE DGSpec => []GroupingInput
<1>1. PICK hop \in [Router -> Nat] : ReportsHops(hop)
  BY DEF HopStable
<1>2. DGInit => Both(hop)
  BY InitBoth
<1>3. Both(hop) /\ [DGNext]_allvars => Both(hop)'
  BY <1>1, NextBoth
<1>4. Both(hop) => GroupingInput
  BY DEF Both, Link, Idle, Walk, Bounded, Typed, GroupingInput
<1>5. QED  BY <1>2, <1>3, <1>4, PTL DEF DGSpec

-----------------------------------------------------------------------------
\* Who a section is for, in terms of the tree of Discovery.

\* The routers above q in the tree of the walk are above the leafs of q in that of
\* Discovery.
LEMMA AboveAncestors ==
    ASSUME Structure, Built, GroupTree(T),
           NEW l \in Leaf, NEW q \in Router, tree.parent[l] = q, NEW a \in Above[q]
    PROVE  a \in Ancestors(tree, l)
<1>1. PICK c \in Orders([x \in Hub |-> child(tree, x)]) : T = TreeWith(c)
  BY DEF Built
<1>2. \A y \in Router : T.parent[y] # Root => T.parent[y] = tree.parent[y] /\ T.parent[y] \in Router
  <2> TAKE y \in Router
  <2>1. /\ T.parent[y] \in Hub
        /\ tree.parent[y] # Null => T.parent[y] = tree.parent[y]
        /\ tree.parent[y] = Null => T.parent[y] = Root
    BY <1>1, PlaceInTree
  <2>2. QED  BY <2>1 DEF Hub
<1>3. a \in Router /\ \A U \in SUBSET Router : Closed(U) /\ q \in U => a \in U
  BY AboveIsWay DEF Way
<1>4. ASSUME NEW S \in SUBSET Node, tree.parent[l] \in S \cup {Null},
             \A y \in S : tree.parent[y] \in S \cup {Null}
      PROVE  a \in S
  <2> DEFINE U == S \cap Router
  <2>1. Null \notin Hub
    BY RouterAssumption
  <2>2. q \in U
    BY <1>4, <2>1 DEF Hub
  <2>3. ASSUME NEW y \in U, T.parent[y] # Root PROVE T.parent[y] \in U
    <3>1. T.parent[y] = tree.parent[y] /\ T.parent[y] \in Router
      BY <1>2, <2>3
    <3>2. tree.parent[y] \in S \cup {Null}
      BY <1>4
    <3>3. QED  BY <2>1, <3>1, <3>2 DEF Hub
  <2>4. Closed(U)
    BY <2>3 DEF Closed
  <2>5. QED  BY <1>3, <2>2, <2>4
<1>5. QED  BY <1>3, <1>4 DEF Ancestors

\* The router a receiver is listed under is the one that Covered speaks of.
LEMMA SectionOf ==
    ASSUME Walk, NEW n \in 1 .. Len(mdc), NEW i \in 1 .. Len(mdc[n].addrs),
           mdc[n].addrs[i][2] > 0, Growing
    PROVE  SectionRouter(mdc[n], i - 1) \in Above[mdc[n].addrs[i][1]]
<1> DEFINE h == mdc[n]
           ad == h.addrs
           P(e) == e < i - 1 /\ \A c \in h.bm : c < i - 1 => c <= e
<1>1. /\ h.bm \subseteq 0 .. Len(ad) - 1
      /\ \A k \in 1 .. Len(ad) : IF k - 1 \in h.bm THEN ad[k][2] = 0
                                 ELSE \E b \in h.bm : /\ Leads(h, b, k)
                                                      /\ ad[b + 1][1] \in Above[ad[k][1]]
  BY DEF Walk, SectionsNow, Sections, SoundHeader, Covered
<1>2. i \in 1 .. Len(ad) /\ Len(ad) \in Nat /\ ad[i][2] > 0 /\ ~ (0 > 0)
  BY MdcType
<1> HIDE DEF h, ad
<1>3. PICK b \in h.bm : Leads(h, b, i) /\ ad[b + 1][1] \in Above[ad[i][1]]
  BY <1>1, <1>2
<1>4. b \in Int /\ i \in Int /\ \A c \in h.bm : c \in Int
  BY <1>1, <1>2
<1>5. b < i - 1 /\ \A c \in h.bm : c <= b \/ c > i - 1
  BY <1>3 DEF Leads
<1>6. P(b) /\ \A e \in h.bm : P(e) => e = b
  BY <1>4, <1>5
<1>7. (CHOOSE e \in h.bm : P(e)) = b
  <2> HIDE DEF P
  <2>1. QED  BY <1>6
<1>8. b + 1 \in 1 .. Len(ad) /\ (b + 1) - 1 = b /\ 1 + b = b + 1
  BY <1>1, <1>2, <1>4
<1>9. ad[b + 1][2] = 0
  BY <1>1, <1>8
<1>10. SectionRouter(h, i - 1) = NodeAt(ad[1 + b])
  BY <1>7, Zenon DEF SectionRouter, ad, P
<1>11. NodeAt(ad[1 + b]) = ad[b + 1][1]
  BY <1>8, <1>9 DEF NodeAt
<1>12. SectionRouter(h, i - 1) \in Above[ad[i][1]]
  BY <1>3, <1>10, <1>11
<1>13. QED  BY <1>12 DEF h, ad

\* argp.c, merge, "merge leafs with distinct parent routers under an common ancestor":
\* on every tree that answers may build, if no router changes its distance, and in any
\* order of its lists, each receiver in a header follows a router that is on the way to
\* it, unless the routing has put routers of one distance below each other.
THEOREM MergedUnderAncestor == ASSUME HopStable PROVE DGSpec => []CommonAncestor
<1>1. PICK hop \in [Router -> Nat] : ReportsHops(hop)
  BY DEF HopStable
<1>2. DGInit => Both(hop)
  BY InitBoth
<1>3. Both(hop) /\ [DGNext]_allvars => Both(hop)'
  BY <1>1, NextBoth
<1>4. Both(hop) => CommonAncestor
  <2> SUFFICES ASSUME Both(hop), gpc = "done", Growing,
                      NEW n \in DOMAIN mdc, NEW i \in DOMAIN mdc[n].addrs,
                      NodeAt(mdc[n].addrs[i]) \in Leaf
               PROVE  SectionRouter(mdc[n], i - 1)
                          \in Ancestors(tree, NodeAt(mdc[n].addrs[i]))
    BY DEF CommonAncestor
  <2>1. Structure /\ Built /\ Walk /\ GroupTree(T)
    BY DEF Both, Link, Idle, Walk, Bounded, Typed
  <2>2. n \in 1 .. Len(mdc) /\ i \in 1 .. Len(mdc[n].addrs)
    BY <2>1, MdcType
  <2> DEFINE x == mdc[n].addrs[i]
  <2>3. x[2] > 0 /\ x[1] \in Router /\ tree.parent[NodeAt(x)] = x[1]
    BY <2>1, <2>2, AddressedNode
  <2>4. SectionRouter(mdc[n], i - 1) \in Above[x[1]]
    BY <2>1, <2>2, <2>3, SectionOf
  <2> HIDE DEF x
  <2>5. NodeAt(x) \in Leaf
    BY DEF x
  <2>6. SectionRouter(mdc[n], i - 1) \in Ancestors(tree, NodeAt(x))
    BY <2>1, <2>3, <2>4, <2>5, AboveAncestors
  <2>7. QED  BY <2>6 DEF x
<1>5. QED  BY <1>2, <1>3, <1>4, PTL DEF DGSpec

\* README.md, "transmit any data ... to all group members via MEADcast or IP Unicast":
\* what the walk puts into headers and into the unicast list is every receiver, and
\* none of them into both.
THEOREM WalksServeAll == ASSUME HopStable PROVE DGSpec => []EveryReceiverServed
<1>1. PICK hop \in [Router -> Nat] : ReportsHops(hop)
  BY DEF HopStable
<1>2. DGInit => Both(hop) /\ EveryReceiverServed
  BY InitBoth DEF DGInit, Init, EveryReceiverServed, Running
<1>3. Both(hop) /\ [DGNext]_allvars => [Next]_vars /\ Both(hop)'
  BY <1>1, NextBoth
<1>4. Both(hop) /\ EveryReceiverServed /\ [Next]_vars => EveryReceiverServed'
  BY OrderedReaches, NextServed DEF Both
<1>5. QED  BY <1>2, <1>3, <1>4, PTL DEF DGSpec
=============================================================================
