---------------------------- MODULE DiscoveryProofs ----------------------------
(***************************************************************************)
(* Theorems about the discovery thread, for any number of receivers and     *)
(* routers, any set of routings and any thresholds.                         *)
(*                                                                          *)
(* Structure is inductive without any assumption on the network.  It gives  *)
(* type correctness, memory safety and agreement of lists and parents.      *)
(* Ordered needs routers whose distance does not change; together with      *)
(* Structure it gives that the tree has no cycle, so that no receiver is    *)
(* ever cut off from the root.                                              *)
(***************************************************************************)
EXTENDS DiscoveryHistory, FiniteSetTheorems, TLAPS

-----------------------------------------------------------------------------
\* The topology tree: what its operations keep.

\* What the nodes are.
LEMMA NodeFacts ==
    /\ IsFiniteSet(Leaf)
    /\ IsFiniteSet(Router)
    /\ Leaf \cap Router = {}
    /\ Root \notin Leaf \cup Router
    /\ Null \notin Node
  BY LeafAssumption, RouterAssumption DEF Node, Hub

\* The lists of a router are finite, so their lengths can be counted.
LEMMA FiniteLists ==
    ASSUME NEW t \in Tree, NEW s \in Slot
    PROVE  IsFiniteSet(t.list[s])
<1>1. IsFiniteSet(Leaf \cup Router)
  BY NodeFacts, FS_Union
<1>2. QED  BY <1>1, FS_Subset DEF Tree

\* add_router and add_leaf: a node without a parent ends up in the list of p, and
\* lists, counters and parent pointers go on to agree.
LEMMA AddChild ==
    ASSUME NEW t \in Tree, NEW p \in Hub, NEW c \in Leaf \cup Router
    PROVE  LET u == add_child(t, p, c) IN
           /\ u \in Tree
           /\ u.parent = [t.parent EXCEPT ![c] = p]
           /\ u.hops = t.hops
           /\ t.f = t.n => u.f = u.n
           /\ Linked(t) /\ t.parent[c] = Null => Linked(u)
           /\ Linked(t) /\ t.parent[c] = Null /\ Counted(t) => Counted(u)
<1>1. slot(p, c) \in Slot
  BY DEF slot, Slot, Kind
<1> DEFINE u == add_child(t, p, c)
<1>2. u \in Tree
  BY <1>1 DEF add_child, Tree, Node, Hub
<1>3. /\ u.parent = [t.parent EXCEPT ![c] = p]
      /\ u.hops = t.hops
      /\ t.f = t.n => u.f = u.n
  BY DEF add_child
<1>4. ASSUME Linked(t), t.parent[c] = Null PROVE Linked(u)
  BY <1>4, NodeFacts DEF Linked, child, leaf, add_child, slot, Slot, Kind, Tree, Node, Hub
<1>5. ASSUME Linked(t), t.parent[c] = Null, Counted(t) PROVE Counted(u)
  <2> SUFFICES ASSUME NEW s \in Slot PROVE u.n[s] = Cardinality(u.list[s])
    BY DEF Counted
  <2>1. CASE s # slot(p, c)
    BY <1>1, <1>5, <2>1 DEF add_child, Counted, Tree
  <2>2. CASE s = slot(p, c)
    <3>1. c \notin t.list[s]
      <4>0. p # Null
        BY NodeFacts DEF Hub, Node
      <4>1. CASE c \in Router
        <5>1. t.list[s] = {x \in Router : t.parent[x] = p}
          BY <1>5, <2>2, <4>1 DEF Linked, child, slot
        <5>2. QED  BY <1>5, <4>0, <5>1
      <4>2. CASE c \notin Router
        <5>1. t.list[s] = {x \in Leaf : t.parent[x] = p}
          BY <1>5, <2>2, <4>2 DEF Linked, leaf, slot
        <5>2. QED  BY <1>5, <4>0, <5>1
      <4>3. QED  BY <4>1, <4>2
    <3>2. u.list[s] = t.list[s] \cup {c} /\ u.n[s] = t.n[s] + 1
      <4>1. /\ u.list = [t.list EXCEPT ![s] = t.list[s] \cup {c}]
            /\ u.n = [t.n EXCEPT ![s] = t.n[s] + 1]
        BY <2>2 DEF add_child
      <4>2. QED  BY <4>1 DEF Tree
    <3>3. QED  BY <1>5, <3>1, <3>2, FiniteLists, FS_AddElement DEF Counted
  <2>3. QED  BY <2>1, <2>2
<1>6. QED  BY <1>2, <1>3, <1>4, <1>5

\* rm_router and rm_leaf at the parent of c undo that, and find c in the list.
LEMMA RmChild ==
    ASSUME NEW t \in Tree, NEW p \in Hub, NEW c \in Leaf \cup Router,
           Linked(t), t.parent[c] = p
    PROVE  LET u == rm_child(t, p, c) IN
           /\ u \in Tree
           /\ u.parent = [t.parent EXCEPT ![c] = Null]
           /\ u.hops = t.hops
           /\ t.f = t.n => u.f = u.n
           /\ Linked(u)
           /\ Counted(t) => Counted(u)
<1>1. slot(p, c) \in Slot
  BY DEF slot, Slot, Kind
<1> DEFINE u == rm_child(t, p, c)
<1>2. u \in Tree
  BY <1>1 DEF rm_child, Tree, Node, Hub, Decrement
<1>3. /\ u.parent = [t.parent EXCEPT ![c] = Null]
      /\ u.hops = t.hops
      /\ t.f = t.n => u.f = u.n
  BY DEF rm_child
<1>4. Linked(u)
  BY NodeFacts DEF Linked, child, leaf, rm_child, slot, Slot, Kind, Tree, Node, Hub
<1>5. ASSUME Counted(t) PROVE Counted(u)
  <2> SUFFICES ASSUME NEW s \in Slot PROVE u.n[s] = Cardinality(u.list[s])
    BY DEF Counted
  <2>1. CASE s # slot(p, c)
    BY <1>1, <1>5, <2>1 DEF rm_child, Counted, Tree
  <2>2. CASE s = slot(p, c)
    <3>1. c \in t.list[s]
      BY <2>2, NodeFacts DEF Linked, child, leaf, slot, Hub, Node
    <3>2. u.list[s] = t.list[s] \ {c} /\ u.n[s] = Decrement(t.n[s])
      BY <2>2, <3>1 DEF rm_child, Tree
    <3>3. /\ Cardinality(u.list[s]) = Cardinality(t.list[s]) - 1
          /\ Cardinality(u.list[s]) \in Nat /\ Cardinality(t.list[s]) \in Nat
      BY <3>1, <3>2, FiniteLists, FS_RemoveElement, FS_CardinalityType
    <3>4. QED  BY <1>5, <3>2, <3>3 DEF Counted, Decrement
  <2>3. QED  BY <2>1, <2>2
<1>6. QED  BY <1>2, <1>3, <1>4, <1>5

\* add_childs: what is in the lists and where the parent pointers lead after it.
LEMMA AddChilds ==
    ASSUME NEW t \in Tree, NEW p \in Hub, NEW k \in Kind,
           NEW C \in SUBSET (Leaf \cup Router),
           C \subseteq Router \/ C \subseteq Leaf
    PROVE  LET u == add_childs(t, p, k, C) IN
           /\ u \in Tree
           /\ u.parent = [x \in Node |-> IF x \in C THEN p ELSE t.parent[x]]
           /\ u.hops = t.hops
           /\ t.f = t.n => u.f = u.n
           /\ \A h \in Hub, j \in Kind :
                 u.list[<<h, j>>] = IF h = p /\ j = k THEN t.list[<<h, j>>] \cup C
                                    ELSE t.list[<<h, j>>]
<1>1. Cardinality(C) \in Nat
  BY FS_Subset, FS_CardinalityType, NodeFacts
<1> DEFINE u == add_childs(t, p, k, C)
<1>2. <<p, k>> \in Slot
  BY DEF Slot
<1>3. u \in Tree
  BY <1>1, <1>2 DEF add_childs, Tree, Node, Hub, Kind
<1>4. ASSUME NEW h \in Hub, NEW j \in Kind
      PROVE  u.list[<<h, j>>] = IF h = p /\ j = k THEN t.list[<<h, j>>] \cup C
                                ELSE t.list[<<h, j>>]
  <2>1. <<h, j>> \in Slot
    BY DEF Slot
  <2>2. u.list = [t.list EXCEPT ![<<p, k>>] = @ \cup C]
    BY DEF add_childs
  <2>3. QED  BY <1>2, <2>1, <2>2 DEF Tree
<1>5. QED  BY <1>3, <1>4 DEF add_childs

\* add_childs counts right if no node it adds was in the list before.
LEMMA AddChildsCounted ==
    ASSUME NEW t \in Tree, NEW p \in Hub, NEW k \in Kind,
           NEW C \in SUBSET (Leaf \cup Router),
           Counted(t), C \cap t.list[<<p, k>>] = {}
    PROVE  Counted(add_childs(t, p, k, C))
<1> DEFINE u == add_childs(t, p, k, C)
<1> SUFFICES ASSUME NEW s \in Slot PROVE u.n[s] = Cardinality(u.list[s])
  BY DEF Counted
<1>1. CASE s # <<p, k>>
  BY <1>1 DEF add_childs, Counted, Tree
<1>2. CASE s = <<p, k>>
  <2>1. u.list[s] = t.list[s] \cup C /\ u.n[s] = t.n[s] + Cardinality(C)
    BY <1>2 DEF add_childs, Tree
  <2>2. IsFiniteSet(C) /\ IsFiniteSet(t.list[s])
    <3>1. IsFiniteSet(Leaf \cup Router)
      BY NodeFacts, FS_Union
    <3>2. QED  BY <3>1, FiniteLists, FS_Subset
  <2>3. Cardinality(t.list[s] \cap C) = 0
    <3>1. t.list[s] \cap C = {}
      BY <1>2
    <3>2. QED  BY <3>1, FS_EmptySet
  <2>4. /\ Cardinality(t.list[s] \cup C)
             = Cardinality(t.list[s]) + Cardinality(C) - Cardinality(t.list[s] \cap C)
        /\ Cardinality(t.list[s]) \in Nat /\ Cardinality(C) \in Nat
    BY <2>2, FS_Union, FS_CardinalityType
  <2>5. QED  BY <2>1, <2>3, <2>4 DEF Counted
<1>3. QED  BY <1>1, <1>2

\* A router as calloc returns it, or as rec_reset_tree leaves it, is empty.
LEMMA Blank ==
    ASSUME NEW t \in Tree, NEW r \in Router
    PROVE  LET u == blank(t, r) IN
           /\ u \in Tree
           /\ u.parent = t.parent
           /\ u.hops = [t.hops EXCEPT ![r] = 0]
           /\ t.f = t.n => u.f = u.n
           /\ \A h \in Hub, j \in Kind :
                 u.list[<<h, j>>] = IF h = r THEN {} ELSE t.list[<<h, j>>]
           /\ Counted(t) => Counted(u)
           /\ (Linked(t) /\ child(t, r) = {} /\ leaf(t, r) = {}) => Linked(u)
<1> DEFINE u == blank(t, r)
<1>1. u \in Tree
  BY DEF blank, Tree, Hub, Slot
<1>2. /\ u.parent = t.parent
      /\ u.hops = [t.hops EXCEPT ![r] = 0]
      /\ t.f = t.n => u.f = u.n
  BY DEF blank
<1>3. ASSUME Linked(t), child(t, r) = {}, leaf(t, r) = {} PROVE Linked(u)
  BY <1>3 DEF Linked, child, leaf, blank, Tree, Slot, Kind, Hub, Node
<1>4. ASSUME NEW h \in Hub, NEW j \in Kind
      PROVE  u.list[<<h, j>>] = IF h = r THEN {} ELSE t.list[<<h, j>>]
  BY DEF blank, Slot
<1>5. ASSUME Counted(t) PROVE Counted(u)
  BY <1>5, FS_EmptySet DEF Counted, blank
<1>6. QED  BY <1>1, <1>2, <1>3, <1>4, <1>5

\* Setting r->hops, as update_topo does, changes nothing else.
LEMMA SetHops ==
    ASSUME NEW t \in Tree, NEW r \in Hub, NEW h \in Nat
    PROVE  LET u == set_hops(t, r, h) IN
           /\ u \in Tree
           /\ u.hops = [t.hops EXCEPT ![r] = h]
           /\ u.parent = t.parent /\ u.list = t.list /\ u.n = t.n /\ u.f = t.f
           /\ Linked(t) => Linked(u)
           /\ Counted(t) => Counted(u)
<1>1. /\ set_hops(t, r, h) \in Tree
      /\ set_hops(t, r, h).hops = [t.hops EXCEPT ![r] = h]
      /\ set_hops(t, r, h).parent = t.parent
      /\ set_hops(t, r, h).list = t.list
      /\ set_hops(t, r, h).n = t.n
      /\ set_hops(t, r, h).f = t.f
  BY DEF set_hops, Tree
<1>2. QED  BY <1>1 DEF Linked, Counted, child, leaf

\* adopt moves a node of the tree from one list to another and loses none.
LEMMA Adopt ==
    ASSUME NEW t \in Tree, NEW p \in Hub, NEW c \in Leaf \cup Router,
           Linked(t), t.parent[c] # Null
    PROVE  LET u == adopt(t, p, c) IN
           /\ u \in Tree
           /\ u.parent = [t.parent EXCEPT ![c] = p]
           /\ u.hops = t.hops
           /\ t.f = t.n => u.f = u.n
           /\ Linked(u)
           /\ Counted(t) => Counted(u)
<1>1. t.parent[c] \in Hub
  BY DEF Tree, Node
<1> DEFINE v == rm_child(t, t.parent[c], c)
           u == add_child(v, p, c)
<1>2. /\ v \in Tree
      /\ v.parent = [t.parent EXCEPT ![c] = Null]
      /\ v.hops = t.hops
      /\ t.f = t.n => v.f = v.n
      /\ Linked(v)
      /\ Counted(t) => Counted(v)
  BY <1>1, RmChild
<1>3. v.parent[c] = Null
  BY <1>2 DEF Tree, Node
<1>4. /\ u \in Tree
      /\ u.parent = [v.parent EXCEPT ![c] = p]
      /\ u.hops = v.hops
      /\ v.f = v.n => u.f = u.n
      /\ Linked(u)
      /\ Counted(v) => Counted(u)
  BY <1>2, <1>3, AddChild
<1>5. u.parent = [t.parent EXCEPT ![c] = p]
  BY <1>2, <1>4 DEF Tree
<1>6. adopt(t, p, c) = u
  BY DEF adopt
<1>7. QED  BY <1>2, <1>4, <1>5, <1>6

\* insert puts a new router between a node and its parent.
LEMMA Insert ==
    ASSUME NEW t \in Tree, NEW r \in Router, NEW c \in Leaf \cup Router,
           Linked(t), t.parent[c] # Null, c # r,
           t.parent[r] = Null, child(t, r) = {}, leaf(t, r) = {}
    PROVE  LET u == insert(t, r, c) IN
           /\ u \in Tree
           /\ u.parent = [t.parent EXCEPT ![r] = t.parent[c], ![c] = r]
           /\ u.hops = [t.hops EXCEPT ![r] = 0]
           /\ t.f = t.n => u.f = u.n
           /\ Linked(u)
           /\ Counted(t) => Counted(u)
<1>1. t.parent[c] \in Hub /\ r \in Hub
  BY DEF Tree, Node, Hub
<1> DEFINE q == t.parent[c]
           b == blank(t, r)
           v == add_child(b, q, r)
<1>2. /\ b \in Tree
      /\ b.parent = t.parent
      /\ b.hops = [t.hops EXCEPT ![r] = 0]
      /\ t.f = t.n => b.f = b.n
      /\ Linked(b)
      /\ Counted(t) => Counted(b)
  BY Blank
<1>3. /\ v \in Tree
      /\ v.parent = [t.parent EXCEPT ![r] = t.parent[c]]
      /\ v.hops = [t.hops EXCEPT ![r] = 0]
      /\ t.f = t.n => v.f = v.n
      /\ Linked(v)
      /\ Counted(t) => Counted(v)
  <2>1. q \in Hub /\ b \in Tree /\ Linked(b) /\ b.parent[r] = Null
    BY <1>1, <1>2
  <2> HIDE DEF b, q
  <2>2. /\ v \in Tree
        /\ v.parent = [b.parent EXCEPT ![r] = q]
        /\ v.hops = b.hops
        /\ b.f = b.n => v.f = v.n
        /\ Linked(v)
        /\ Counted(b) => Counted(v)
    BY <2>1, AddChild
  <2>3. QED  BY <1>2, <2>2 DEF q
<1>4. v.parent[c] # Null
  BY <1>3 DEF Tree, Node
<1>5. /\ adopt(v, r, c) \in Tree
      /\ adopt(v, r, c).parent = [v.parent EXCEPT ![c] = r]
      /\ adopt(v, r, c).hops = v.hops
      /\ v.f = v.n => adopt(v, r, c).f = adopt(v, r, c).n
      /\ Linked(adopt(v, r, c))
      /\ Counted(v) => Counted(adopt(v, r, c))
  BY <1>1, <1>3, <1>4, Adopt
<1>6. insert(t, r, c) = adopt(v, r, c)
  BY DEF insert, create_router
<1>7. QED  BY <1>3, <1>5, <1>6

\* cut_router leaves the nodes of the router it frees in the lists of its parent.
LEMMA Cut ==
    ASSUME NEW t \in Tree, NEW r \in Router, Linked(t), t.parent[r] # Null, t.parent[r] # r
    PROVE  LET u == cut_router(t, r) IN
           /\ u \in Tree
           /\ u.parent = [x \in Node |-> IF x = r THEN Null
                                         ELSE IF t.parent[x] = r THEN t.parent[r]
                                         ELSE t.parent[x]]
           /\ u.hops = [t.hops EXCEPT ![r] = 0]
           /\ t.f = t.n => u.f = u.n
           /\ child(u, r) = {} /\ leaf(u, r) = {}
           /\ Linked(u)
           /\ Counted(t) => Counted(u)
<1> DEFINE p == t.parent[r]
           a == rm_child(t, p, r)
           b == blank(a, r)
           C == child(t, r)
           L == leaf(t, r)
           c == add_childs(b, p, "child", C)
           u == add_childs(c, p, "leaf", L)
<1>1. p \in Hub /\ C \in SUBSET Router /\ L \in SUBSET Leaf
  BY DEF Tree, Node, Linked, child, leaf, Hub
<1>2. /\ a \in Tree
      /\ a.parent = [t.parent EXCEPT ![r] = Null]
      /\ a.hops = t.hops
      /\ t.f = t.n => a.f = a.n
      /\ Linked(a)
      /\ Counted(t) => Counted(a)
  BY <1>1, RmChild
<1>3. /\ b \in Tree
      /\ b.parent = a.parent
      /\ b.hops = [a.hops EXCEPT ![r] = 0]
      /\ a.f = a.n => b.f = b.n
      /\ \A h \in Hub, j \in Kind :
            b.list[<<h, j>>] = IF h = r THEN {} ELSE a.list[<<h, j>>]
      /\ Counted(a) => Counted(b)
  BY <1>2, Blank
<1>4. /\ c \in Tree
      /\ c.parent = [x \in Node |-> IF x \in C THEN p ELSE b.parent[x]]
      /\ c.hops = b.hops
      /\ b.f = b.n => c.f = c.n
      /\ \A h \in Hub, j \in Kind :
            c.list[<<h, j>>] = IF h = p /\ j = "child" THEN b.list[<<h, j>>] \cup C
                               ELSE b.list[<<h, j>>]
  <2> HIDE DEF b, C, p
  <2>1. /\ C \in SUBSET (Leaf \cup Router)
        /\ "child" \in Kind
        /\ (C \subseteq Router \/ C \subseteq Leaf)
        /\ b \in Tree /\ p \in Hub
    BY <1>1, <1>3 DEF Kind
  <2>2. QED  BY <2>1, AddChilds, SMTT(30)
<1>5. /\ u \in Tree
      /\ u.parent = [x \in Node |-> IF x \in L THEN p ELSE c.parent[x]]
      /\ u.hops = c.hops
      /\ c.f = c.n => u.f = u.n
      /\ \A h \in Hub, j \in Kind :
            u.list[<<h, j>>] = IF h = p /\ j = "leaf" THEN c.list[<<h, j>>] \cup L
                               ELSE c.list[<<h, j>>]
  <2> HIDE DEF c, L, p
  <2>1. /\ L \in SUBSET (Leaf \cup Router)
        /\ "leaf" \in Kind
        /\ (L \subseteq Router \/ L \subseteq Leaf)
        /\ c \in Tree /\ p \in Hub
    BY <1>1, <1>4 DEF Kind
  <2>2. QED  BY <2>1, AddChilds, SMTT(30)
<1>6. u.parent = [x \in Node |-> IF x = r THEN Null
                                  ELSE IF t.parent[x] = r THEN p
                                  ELSE t.parent[x]]
  <2>1. ASSUME NEW x \in Node
        PROVE  (x \in C \cup L) <=> (t.parent[x] = r)
    <3>1. C = {y \in Router : t.parent[y] = r} /\ L = {y \in Leaf : t.parent[y] = r}
      BY DEF Linked, Hub
    <3>2. t.parent[Root] = Null /\ r # Null
      BY NodeFacts DEF Linked, Node
    <3> HIDE DEF C, L
    <3>3. QED  BY <3>1, <3>2 DEF Node
  <2>2. r \notin C \cup L
    BY <2>1 DEF Node
  <2>3. t.parent \in [Node -> Hub \cup {Null}]
    BY DEF Tree
  <2> HIDE DEF a, b, c, u, C, L, p
  <2>4. QED  BY <1>2, <1>3, <1>4, <1>5, <2>1, <2>2, <2>3
<1>7. ASSUME NEW h \in Hub
      PROVE  /\ child(u, h) = IF h = r THEN {}
                              ELSE IF h = p THEN child(a, h) \cup C ELSE child(a, h)
             /\ leaf(u, h) = IF h = r THEN {}
                             ELSE IF h = p THEN leaf(a, h) \cup L ELSE leaf(a, h)
  <2> HIDE DEF a, b, c, u, C, L, p
  <2>1. "child" \in Kind /\ "leaf" \in Kind /\ "child" # "leaf"
    BY DEF Kind
  <2>2. child(u, h) = child(c, h)
    BY <1>5, <2>1 DEF child
  <2>3. leaf(c, h) = leaf(b, h)
    BY <1>4, <2>1 DEF leaf
  <2>4. child(c, h) = IF h = p THEN child(b, h) \cup C ELSE child(b, h)
    BY <1>4, <2>1 DEF child
  <2>5. leaf(u, h) = IF h = p THEN leaf(c, h) \cup L ELSE leaf(c, h)
    BY <1>5, <2>1 DEF leaf
  <2>6. /\ child(b, h) = IF h = r THEN {} ELSE child(a, h)
        /\ leaf(b, h) = IF h = r THEN {} ELSE leaf(a, h)
    BY <1>3, <2>1 DEF child, leaf
  <2>7. p # r
    BY DEF p
  <2>8. QED  BY <2>2, <2>3, <2>4, <2>5, <2>6, <2>7
<1>8. Linked(u)
  <2>1. u.parent[Root] = Null
    BY <1>6, NodeFacts DEF Linked, Node, Hub
  <2>2. ASSUME NEW h \in Hub
        PROVE  /\ child(u, h) = {x \in Router : u.parent[x] = h}
               /\ leaf(u, h) = {x \in Leaf : u.parent[x] = h}
    <3>1. /\ child(a, h) = {x \in Router : a.parent[x] = h}
          /\ leaf(a, h) = {x \in Leaf : a.parent[x] = h}
          /\ C = {x \in Router : t.parent[x] = r}
          /\ L = {x \in Leaf : t.parent[x] = r}
      BY <1>2 DEF Linked, Hub
    <3>2. ASSUME NEW x \in Leaf \cup Router
          PROVE  /\ a.parent[x] = IF x = r THEN Null ELSE t.parent[x]
                 /\ u.parent[x] = IF x = r THEN Null
                                  ELSE IF t.parent[x] = r THEN p ELSE t.parent[x]
      BY <1>2, <1>6 DEF Tree, Node
    <3>3. Null # h
      BY NodeFacts DEF Hub, Node
    <3> HIDE DEF a, u, C, L, p
    <3>8. p # r
      BY DEF p
    <3>4. CASE h = r
      BY <1>7, <3>2, <3>3, <3>4, <3>8
    <3>5. CASE h = p
      BY <1>7, <3>1, <3>2, <3>3, <3>5, <3>8
    <3>6. CASE h # r /\ h # p
      BY <1>7, <3>1, <3>2, <3>3, <3>6
    <3>7. QED  BY <3>4, <3>5, <3>6
  <2>3. QED  BY <2>1, <2>2 DEF Linked
<1>9. u = cut_router(t, r)
  BY DEF cut_router, free_router
<1>10. child(u, r) = {} /\ leaf(u, r) = {}
  BY <1>7 DEF Hub
<1>11. ASSUME Counted(t) PROVE Counted(u)
  <2>1. "child" \in Kind /\ "leaf" \in Kind /\ "child" # "leaf"
    BY DEF Kind
  <2>2. /\ child(a, p) = {x \in Router : a.parent[x] = p}
        /\ leaf(a, p) = {x \in Leaf : a.parent[x] = p}
        /\ C = {x \in Router : t.parent[x] = r}
        /\ L = {x \in Leaf : t.parent[x] = r}
    BY <1>1, <1>2 DEF Linked, Hub
  <2>3. \A x \in Leaf \cup Router : a.parent[x] = IF x = r THEN Null ELSE t.parent[x]
    BY <1>2 DEF Tree, Node
  <2>4. p # r /\ p # Null
    OBVIOUS
  <2>5. C \cap child(a, p) = {} /\ L \cap leaf(a, p) = {}
    BY <2>2, <2>3, <2>4
  <2> HIDE DEF a, b, c, C, L, p
  <2>6. C \cap b.list[<<p, "child">>] = {} /\ L \cap c.list[<<p, "leaf">>] = {}
    <3>1. /\ b.list[<<p, "child">>] = child(a, p)
          /\ b.list[<<p, "leaf">>] = leaf(a, p)
      BY <1>1, <1>3, <2>1, <2>4, Zenon DEF child, leaf
    <3>2. c.list[<<p, "leaf">>] = b.list[<<p, "leaf">>]
      BY <1>1, <1>4, <2>1, Zenon
    <3>3. QED  BY <2>5, <3>1, <3>2
  <2>7. Counted(b)
    BY <1>2, <1>3, <1>11
  <2>8. Counted(c)
    <3>1. C \in SUBSET (Leaf \cup Router) /\ p \in Hub /\ b \in Tree
      BY <1>1, <1>3
    <3>2. QED  BY <2>1, <2>6, <2>7, <3>1, AddChildsCounted DEF c
  <2>9. QED
    <3>1. L \in SUBSET (Leaf \cup Router) /\ p \in Hub /\ c \in Tree
      BY <1>1, <1>4
    <3>2. QED  BY <2>1, <2>6, <2>8, <3>1, AddChildsCounted
<1>12. QED  BY <1>2, <1>3, <1>4, <1>5, <1>6, <1>8, <1>9, <1>10, <1>11

\* rec_reset_tree at a router without children gives its leafs to the root.
LEMMA ResetRouter ==
    ASSUME NEW t \in Tree, NEW r \in Router, Linked(t),
           t.parent[r] # Null, child(t, r) = {}
    PROVE  LET u == reset_router(t, Root, r) IN
           /\ u \in Tree
           /\ u.parent = [x \in Node |-> IF x = r THEN Null
                                         ELSE IF t.parent[x] = r THEN Root
                                         ELSE t.parent[x]]
           /\ u.hops = [t.hops EXCEPT ![r] = 0]
           /\ Linked(u)
           /\ Counted(t) => Counted(u)
<1> DEFINE p == t.parent[r]
           L == leaf(t, r)
           v == add_childs(t, Root, "leaf", L)
           b == blank(v, r)
           u == rm_child(b, p, r)
<1>1. /\ p \in Hub /\ r \in Hub /\ Root \in Hub /\ p # r /\ r # Root
      /\ "leaf" \in Kind /\ "child" \in Kind
      /\ L \in SUBSET (Leaf \cup Router) /\ (L \subseteq Router \/ L \subseteq Leaf)
  BY NodeFacts DEF Tree, Node, Linked, child, leaf, Hub, Kind
<1>2. /\ v \in Tree
      /\ v.parent = [x \in Node |-> IF x \in L THEN Root ELSE t.parent[x]]
      /\ v.hops = t.hops
      /\ \A h \in Hub, j \in Kind :
            v.list[<<h, j>>] = IF h = Root /\ j = "leaf" THEN t.list[<<h, j>>] \cup L
                               ELSE t.list[<<h, j>>]
  <2> HIDE DEF L
  <2>1. QED  BY <1>1, AddChilds, SMTT(30)
<1>3. /\ b \in Tree
      /\ b.parent = v.parent
      /\ b.hops = [v.hops EXCEPT ![r] = 0]
      /\ \A h \in Hub, j \in Kind :
            b.list[<<h, j>>] = IF h = r THEN {} ELSE v.list[<<h, j>>]
      /\ Counted(v) => Counted(b)
  <2> HIDE DEF v
  <2>1. QED  BY <1>2, Blank
<1>4. ASSUME NEW x \in Node
      PROVE  (x \in L) <=> (t.parent[x] = r)
  BY NodeFacts DEF Linked, child, leaf, Node, Hub
<1>5. b.parent = [x \in Node |-> IF t.parent[x] = r THEN Root ELSE t.parent[x]]
  BY <1>2, <1>3, <1>4
<1>6. Linked(b)
  <2>1. b.parent[Root] = Null
    BY <1>5, NodeFacts DEF Linked, Node, Hub
  <2>2. ASSUME NEW h \in Hub
        PROVE  /\ child(b, h) = {x \in Router : b.parent[x] = h}
               /\ leaf(b, h) = {x \in Leaf : b.parent[x] = h}
    <3>1. /\ child(t, h) = {x \in Router : t.parent[x] = h}
          /\ leaf(t, h) = {x \in Leaf : t.parent[x] = h}
          /\ {} = {x \in Router : t.parent[x] = r}
          /\ L = {x \in Leaf : t.parent[x] = r}
      BY <1>1 DEF Linked
    <3>2. ASSUME NEW x \in Leaf \cup Router
          PROVE  b.parent[x] = IF t.parent[x] = r THEN Root ELSE t.parent[x]
      BY <1>5 DEF Node
    <3> HIDE DEF v, b, L
    <3>3. /\ child(b, h) = IF h = r THEN {} ELSE child(t, h)
          /\ leaf(b, h) = IF h = r THEN {}
                          ELSE IF h = Root THEN leaf(t, h) \cup L ELSE leaf(t, h)
      <4>1. "child" \in Kind /\ "leaf" \in Kind /\ "child" # "leaf"
        BY DEF Kind
      <4>2. /\ child(b, h) = IF h = r THEN {} ELSE child(v, h)
            /\ leaf(b, h) = IF h = r THEN {} ELSE leaf(v, h)
        BY <1>3, <4>1 DEF child, leaf
      <4>3. child(v, h) = child(t, h)
        BY <1>2, <4>1 DEF child
      <4>4. leaf(v, h) = IF h = Root THEN leaf(t, h) \cup L ELSE leaf(t, h)
        BY <1>2, <4>1 DEF leaf
      <4>5. QED  BY <4>2, <4>3, <4>4
    <3>4. CASE h = r
      BY <1>1, <3>1, <3>2, <3>3, <3>4
    <3>5. CASE h = Root
      BY <1>1, <3>1, <3>2, <3>3, <3>5
    <3>6. CASE h # r /\ h # Root
      BY <3>1, <3>2, <3>3, <3>6
    <3>7. QED  BY <3>4, <3>5, <3>6
  <2>3. QED  BY <2>1, <2>2 DEF Linked
<1>7. b.parent[r] = p
  BY <1>1, <1>5 DEF Node
<1>8. /\ u \in Tree
      /\ u.parent = [b.parent EXCEPT ![r] = Null]
      /\ u.hops = b.hops
      /\ Linked(u)
      /\ Counted(b) => Counted(u)
  <2> HIDE DEF b, p
  <2>1. p \in Hub /\ b \in Tree
    BY <1>1, <1>3
  <2>2. QED  BY <1>6, <1>7, <2>1, RmChild
<1>9. u.parent = [x \in Node |-> IF x = r THEN Null
                                  ELSE IF t.parent[x] = r THEN Root
                                  ELSE t.parent[x]]
  BY <1>5, <1>8
<1>10. u = reset_router(t, Root, r)
  BY DEF reset_router
<1>11. ASSUME Counted(t) PROVE Counted(v)
  <2>1. L \cap t.list[<<Root, "leaf">>] = {}
    BY <1>1 DEF Linked, leaf
  <2> HIDE DEF L
  <2>2. QED  BY <1>1, <1>11, <2>1, AddChildsCounted
<1>12. QED  BY <1>2, <1>3, <1>8, <1>9, <1>10, <1>11

-----------------------------------------------------------------------------

\* Linking a router that has nothing below it closes no cycle: add_router in
\* update_topo and create_router.
LEMMA LinkAcyclic ==
    ASSUME NEW t \in Tree, NEW u \in Tree, NEW r \in Router, NEW p \in Hub,
           Acyclic(t), p # r,
           \A x \in Leaf \cup Router : t.parent[x] # r,
           u.parent = [t.parent EXCEPT ![r] = p]
    PROVE  Acyclic(u)
<1> SUFFICES ASSUME NEW S \in SUBSET (Leaf \cup Router), S # {},
                    \A x \in S : u.parent[x] \in S
             PROVE  FALSE
  BY DEF Acyclic
<1> DEFINE T == S \ {r}
<1>1. T \in SUBSET (Leaf \cup Router)
  OBVIOUS
<1>2. T # {}
  BY DEF Tree, Node
<1>3. \A x \in T : t.parent[x] \in T
  BY DEF Tree, Node
<1>4. QED  BY <1>1, <1>2, <1>3 DEF Acyclic

\* adopt closes no cycle if the adopted router is further away than the adopting
\* one and distances never shrink on the way down.
LEMMA AdoptAcyclic ==
    ASSUME NEW t \in Tree, NEW u \in Tree, NEW hop \in [Router -> Nat],
           NEW r \in Router, NEW c \in Leaf \cup Router,
           Acyclic(t), c \in Router => hop[c] > hop[r],
           \A x \in Router : t.parent[x] \in Router => hop[t.parent[x]] <= hop[x],
           u.parent = [t.parent EXCEPT ![c] = r]
    PROVE  Acyclic(u)
<1> SUFFICES ASSUME NEW S \in SUBSET (Leaf \cup Router), S # {},
                    \A x \in S : u.parent[x] \in S
             PROVE  FALSE
  BY DEF Acyclic
<1>0. \A x \in S : x # c => t.parent[x] \in S
  BY DEF Tree, Node
<1>1. CASE c \notin S
  BY <1>0, <1>1 DEF Acyclic
<1>2. CASE c \in S
  <2> DEFINE T == {x \in S \cap Router : hop[x] <= hop[r]}
  <2>1. r \in T
    BY <1>2 DEF Tree, Node
  <2>2. ASSUME NEW x \in T PROVE t.parent[x] \in T
    <3>1. x # c
      <4>1. x \in Router /\ hop[x] <= hop[r] /\ hop[x] \in Nat /\ hop[r] \in Nat
        OBVIOUS
      <4>2. QED  BY <4>1
    <3>2. t.parent[x] \in S
      BY <1>0, <3>1
    <3>3. t.parent[x] \in Router
      BY <3>2, NodeFacts DEF Tree, Node, Hub
    <3>4. hop[t.parent[x]] <= hop[x] /\ hop[x] <= hop[r]
      BY <3>3
    <3>5. hop[t.parent[x]] \in Nat /\ hop[x] \in Nat /\ hop[r] \in Nat
      BY <3>3
    <3>6. QED  BY <3>2, <3>3, <3>4, <3>5
  <2>3. T \in SUBSET (Leaf \cup Router)
    OBVIOUS
  <2>4. QED  BY <2>1, <2>2, <2>3 DEF Acyclic
<1>3. QED  BY <1>1, <1>2

\* cut_router closes no cycle.
LEMMA CutAcyclic ==
    ASSUME NEW t \in Tree, NEW u \in Tree, NEW r \in Router, Acyclic(t),
           u.parent = [x \in Node |-> IF x = r THEN Null
                                     ELSE IF t.parent[x] = r THEN t.parent[r]
                                     ELSE t.parent[x]]
    PROVE  Acyclic(u)
<1> SUFFICES ASSUME NEW S \in SUBSET (Leaf \cup Router), S # {},
                    \A x \in S : u.parent[x] \in S
             PROVE  FALSE
  BY DEF Acyclic
<1>1. r \notin S
  BY NodeFacts DEF Node
<1>2. CASE \E x \in S : t.parent[x] = r
  <2> DEFINE T == S \cup {r}
  <2>1. T \in SUBSET (Leaf \cup Router) /\ T # {}
    OBVIOUS
  <2>2. t.parent[r] \in S
    BY <1>1, <1>2 DEF Node
  <2>3. \A x \in T : t.parent[x] \in T
    BY <1>1, <2>2 DEF Node
  <2>4. QED  BY <2>1, <2>3 DEF Acyclic
<1>3. CASE ~ \E x \in S : t.parent[x] = r
  <2>1. \A x \in S : t.parent[x] \in S
    BY <1>1, <1>3 DEF Node
  <2>2. QED  BY <2>1 DEF Acyclic
<1>4. QED  BY <1>2, <1>3

\* rec_reset_tree closes no cycle.
LEMMA ResetAcyclic ==
    ASSUME NEW t \in Tree, NEW u \in Tree, NEW r \in Router, Acyclic(t),
           u.parent = [x \in Node |-> IF x = r THEN Null
                                     ELSE IF t.parent[x] = r THEN Root
                                     ELSE t.parent[x]]
    PROVE  Acyclic(u)
<1> SUFFICES ASSUME NEW S \in SUBSET (Leaf \cup Router), S # {},
                    \A x \in S : u.parent[x] \in S
             PROVE  FALSE
  BY DEF Acyclic
<1>1. \A x \in S : t.parent[x] \in S
  BY NodeFacts DEF Node
<1>2. QED  BY <1>1 DEF Acyclic

\* In a tree without cycles every attached node is met on a walk from the root.
LEMMA AllReached ==
    ASSUME NEW t \in Tree, Linked(t), Acyclic(t),
           \A r \in Router : t.parent[r] = Null => child(t, r) = {} /\ leaf(t, r) = {}
    PROVE  \A x \in Leaf \cup Router : t.parent[x] # Null => x \in Reach(t)
<1> SUFFICES ASSUME NEW x \in Leaf \cup Router, t.parent[x] # Null,
                    NEW S \in SUBSET Node, Root \in S, x \notin S,
                    \A p \in S \cap Hub : child(t, p) \cup leaf(t, p) \subseteq S
             PROVE  FALSE
  BY DEF Reach, Node
<1> DEFINE T == {y \in Leaf \cup Router : y \notin S /\ t.parent[y] # Null}
<1>1. ASSUME NEW y \in T PROVE t.parent[y] \in T
  <2>1. t.parent[y] \in Hub
    BY DEF Tree, Node
  <2>2. y \in child(t, t.parent[y]) \cup leaf(t, t.parent[y])
    BY <2>1 DEF Linked
  <2>3. t.parent[y] \notin S
    BY <2>1, <2>2
  <2>4. t.parent[y] \in Router
    BY <2>1, <2>3 DEF Hub
  <2>5. t.parent[t.parent[y]] # Null
    BY <2>2, <2>4
  <2>6. QED  BY <2>3, <2>4, <2>5
<1>2. x \in T /\ T \in SUBSET (Leaf \cup Router)
  OBVIOUS
<1>3. QED  BY <1>1, <1>2 DEF Acyclic

\* A router reduce_tree or rec_reset_tree comes to has a parent, not itself.
LEMMA ReachedAttached ==
    ASSUME NEW t \in Tree, Linked(t), NEW r \in Router, r \in Reach(t)
    PROVE  t.parent[r] # Null /\ t.parent[r] # r
<1> SUFFICES ASSUME t.parent[r] = Null \/ t.parent[r] = r PROVE FALSE
  OBVIOUS
<1> DEFINE S == Node \ {r}
<1>1. S \in SUBSET Node /\ Root \in S
  BY NodeFacts DEF Node
<1>2. \A p \in S \cap Hub : child(t, p) \cup leaf(t, p) \subseteq S
  BY NodeFacts DEF Linked, Node, Hub
<1>3. QED  BY <1>1, <1>2 DEF Reach

\* rec_reset_tree changes the counters of r and of its parent alike, and leaves a
\* used up counter at zero.
LEMMA ResetCounters ==
    ASSUME NEW t \in Tree, NEW r \in Router, Linked(t), t.parent[r] # Null,
           child(t, r) = {},
           NEW h \in Hub, NEW k \in Kind, <<h, k>> # <<Root, "leaf">>
    PROVE  LET u == reset_router(t, Root, r) IN
           /\ t.f[<<h, k>>] = t.n[<<h, k>>] \/ h = r => u.f[<<h, k>>] = u.n[<<h, k>>]
           /\ t.f[<<h, k>>] = 0 => u.f[<<h, k>>] = 0
<1> DEFINE p == t.parent[r]
           s == <<h, k>>
           q == <<p, "child">>
           v == add_childs(t, Root, "leaf", leaf(t, r))
           b == blank(v, r)
           u == rm_child(b, p, r)
<1>1. p \in Hub /\ p # r
  <2>1. r \in Node /\ r \in Hub
    BY DEF Node, Hub
  <2>2. QED  BY <2>1 DEF Tree, Linked
<1>2. s \in Slot /\ s[1] = h /\ q \in Slot /\ slot(p, r) = q /\ q[1] = p
  BY <1>1 DEF Slot, Kind, slot
<1>3. v.f[s] = t.f[s] /\ v.n[s] = t.n[s]
  BY <1>2 DEF add_childs, Tree
<1>4. /\ b.f[s] = IF h = r THEN 0 ELSE t.f[s]
      /\ b.n[s] = IF h = r THEN 0 ELSE t.n[s]
      /\ b.f = [x \in Slot |-> b.f[x]] /\ b.n = [x \in Slot |-> b.n[x]]
  <2> HIDE DEF v
  <2>1. QED  BY <1>2, <1>3 DEF blank
<1>5. CASE s # q
  <2> HIDE DEF b
  <2>1. u.f[s] = b.f[s] /\ u.n[s] = b.n[s]
    BY <1>2, <1>4, <1>5 DEF rm_child
  <2>2. QED  BY <1>4, <2>1 DEF reset_router, b
<1>6. CASE s = q
  <2>1. h # r
    BY <1>1, <1>6
  <2> DEFINE found == r \in b.list[q]
  <2> HIDE DEF b
  <2>2. /\ u.f[s] = IF found THEN Decrement(b.f[s]) ELSE b.f[s]
        /\ u.n[s] = IF found THEN Decrement(b.n[s]) ELSE b.n[s]
    BY <1>2, <1>4, <1>6 DEF rm_child
  <2>3. QED  BY <1>4, <2>1, <2>2 DEF reset_router, b, Decrement
<1>7. QED  BY <1>5, <1>6

\* rec_reset_tree at a router without children cuts off nobody else.
LEMMA ResetReach ==
    ASSUME NEW t \in Tree, NEW u \in Tree, Linked(t), Linked(u), NEW r \in Router,
           t.parent[r] # Null, child(t, r) = {},
           u.parent = [x \in Node |-> IF x = r THEN Null
                                      ELSE IF t.parent[x] = r THEN Root
                                      ELSE t.parent[x]],
           NEW y \in Reach(t), y # r
    PROVE  y \in Reach(u)
<1> SUFFICES ASSUME NEW S \in SUBSET Node, Root \in S,
                    \A p \in S \cap Hub : child(u, p) \cup leaf(u, p) \subseteq S
             PROVE  y \in S
  BY DEF Reach
<1> DEFINE T == S \cup {r}
<1>1. T \in SUBSET Node /\ Root \in T
  BY DEF Node
<1>2. ASSUME NEW p \in T \cap Hub, NEW x \in child(t, p) \cup leaf(t, p)
      PROVE  x \in T
  <2>1. x \in Leaf \cup Router /\ t.parent[x] = p
    BY <1>2 DEF Linked
  <2>2. u.parent[x] = IF x = r THEN Null ELSE IF p = r THEN Root ELSE p
    BY <2>1 DEF Node
  <2>3. CASE x = r
    BY <2>3
  <2>4. CASE x # r
    <3>1. PICK q \in S \cap Hub : u.parent[x] = q
      BY <1>2, <2>2, <2>4 DEF Hub
    <3>2. x \in child(u, q) \cup leaf(u, q)
      BY <2>1, <3>1 DEF Linked
    <3>3. QED  BY <3>1, <3>2
  <2>5. QED  BY <2>3, <2>4
<1>3. y \in T
  BY <1>1, <1>2 DEF Reach
<1>4. QED  BY <1>3

\* Without routers below it, the root is the only router a walk meets.
LEMMA RootAlone ==
    ASSUME NEW t \in Tree, Linked(t), child(t, Root) = {}
    PROVE  Reach(t) \cap Hub = {Root}
<1> DEFINE S == {Root} \cup Leaf
<1>1. S \in SUBSET Node /\ Root \in S
  BY DEF Node
<1>2. S \cap Hub = {Root}
  BY NodeFacts DEF Hub
<1>3. leaf(t, Root) \subseteq Leaf
  BY DEF Linked, Hub
<1>4. \A p \in S \cap Hub : child(t, p) \cup leaf(t, p) \subseteq S
  BY <1>2, <1>3
<1>5. Reach(t) \subseteq S
  BY <1>1, <1>4 DEF Reach
<1>6. Root \in Reach(t)
  BY DEF Reach, Node
<1>7. QED  BY <1>2, <1>5, <1>6

-----------------------------------------------------------------------------
\* The discovery thread.

\* get_path_pos: n is in the tree and beyond the distance of the answer, while
\* the router that answered, if known, is at that distance.
Climbing ==
    /\ rx # NoRx
    /\ tree.parent[rx.n] # Null
    /\ rx.n \in Router => tree.hops[rx.n] > rx.h
    /\ rx.r \in ht => tree.hops[rx.r] = rx.h

\* A router outside the tree has nothing below it.
DetachedEmpty(t) ==
    \A r \in Router : t.parent[r] = Null => \A x \in Leaf \cup Router : t.parent[x] # r

\* The hash table against the tree.
Table ==
    /\ Root \in ht
    /\ \A r \in Router \ ht : tree.parent[r] = Null
    /\ DetachedEmpty(tree)
    /\ \A l \in Leaf : l \in ht <=> tree.parent[l] # Null
    /\ Running => Leaf \subseteq ht

Structure ==
    /\ TypeOK
    /\ Linked(tree)
    /\ Counted(tree)
    /\ tree.hops[Root] = 0
    /\ Table
    /\ pc = "climb" => Climbing

RxType == [r : Router, l : Leaf, h : 1 .. HopMod - 1, n : Leaf \cup Router]

-----------------------------------------------------------------------------
\* The empty answer buffer is no answer: rx is an answer exactly in update_topo.
LEMMA NoRxType == NoRx \notin RxType
BY NodeFacts DEF NoRx, RxType, Node

\* The answers dcv_rsp sends for a request fit the fields of the header.
LEMMA AnswersType ==
    ASSUME NEW rt \in Routes, NEW l \in Leaf
    PROVE  Answers(rt, l) \subseteq Answer
<1> SUFFICES ASSUME NEW i \in 1 .. Len(rt[l])
             PROVE  [r |-> rt[l][i], l |-> l, h |-> i % HopMod] \in Answer
  BY DEF Answers, HopCount
<1>1. rt[l] \in Seq(Router \cup Leaf)
  BY RoutesAssumption
<1>2. rt[l][i] \in Router \cup Leaf /\ i \in Nat
  BY <1>1
<1>3. i % HopMod \in 0 .. HopMod - 1
  BY <1>2, ParameterAssumption
<1>4. QED  BY <1>2, <1>3 DEF Answer

\* init_group leaves the root alone in tree and table.
LEMMA InitStructure == Init => Structure
<1> SUFFICES ASSUME Init PROVE Structure
  OBVIOUS
<1>1. tree \in Tree
  BY DEF Init, init_group, Tree, Hub, Node
<1>2. TypeOK
  BY <1>1, NodeFacts DEF Init, TypeOK, Node
<1>3. Linked(tree)
  BY NodeFacts DEF Init, init_group, Linked, child, leaf, Slot, Kind, Node, Hub
<1>4. tree.hops[Root] = 0
  BY DEF Init, init_group, Hub
<1>5. Table
  BY NodeFacts DEF Init, init_group, Table, DetachedEmpty, Running, Node, Hub
<1>6. Counted(tree)
  BY FS_EmptySet DEF Init, init_group, Counted
<1>7. QED  BY <1>2, <1>3, <1>4, <1>5, <1>6 DEF Structure, Init

\* join, start, tint_handler, a dropped answer and a route change keep Structure.
LEMMA StartUpStructure ==
    ASSUME Structure,
           \/ \E l \in Leaf : Join(l) \/ JoinTwice(l)
           \/ Exited \/ Start \/ Reroute \/ tint_handler
           \/ \E m \in net : rx_rejected(m)
    PROVE  Structure'
<1>1. ASSUME NEW l \in Leaf, Join(l) PROVE Structure'
  <2> DEFINE u == add_child(tree, Root, l)
  <2>1. /\ tree \in Tree /\ Root \in Hub /\ Linked(tree) /\ Counted(tree)
        /\ tree.parent[l] = Null
    BY <1>1 DEF Structure, TypeOK, Table, Join, Hub
  <2>2. /\ u \in Tree
        /\ u.parent = [tree.parent EXCEPT ![l] = Root]
        /\ u.hops = tree.hops
        /\ Linked(u) /\ Counted(u)
    BY <2>1, AddChild
  <2>3. tree' = u
    BY <1>1 DEF Join, create_leaf
  <2> HIDE DEF u
  <2>4. TypeOK'
    BY <1>1, <2>2, <2>3 DEF Structure, TypeOK, Join, Node
  <2>5. Table'
    <3>1. \A r \in Router : u.parent[r] = tree.parent[r]
      BY <2>1, <2>2, NodeFacts DEF Tree, Node
    <3>2. DetachedEmpty(u)
      BY <2>1, <2>2, <3>1, NodeFacts DEF Structure, Table, DetachedEmpty, Tree, Node
    <3>3. ASSUME NEW k \in Leaf PROVE k \in ht' <=> u.parent[k] # Null
      BY <1>1, <2>1, <2>2, NodeFacts DEF Structure, Table, Join, Tree, Node
    <3>4. QED  BY <1>1, <2>3, <3>1, <3>2, <3>3 DEF Structure, Table, Join, Running
  <2>6. QED  BY <1>1, <2>2, <2>3, <2>4, <2>5 DEF Structure, Join
<1>2. ASSUME NEW l \in Leaf, JoinTwice(l) PROVE Structure'
  BY <1>2 DEF Structure, TypeOK, Table, Running, JoinTwice
<1>3. CASE Exited \/ \E m \in net : rx_rejected(m)
  BY <1>3 DEF Structure, TypeOK, Table, Running, Climbing, Exited, rx_rejected, vars
<1>4. CASE Start
  BY <1>4 DEF Structure, TypeOK, Table, Running, Start, init_txg
<1>5. CASE Reroute
  BY <1>5 DEF Structure, TypeOK, Table, Running, Climbing, Reroute
<1>6. CASE tint_handler
  <2>1. net' \subseteq Answer
    BY <1>6, AnswersType DEF Structure, TypeOK, tint_handler, send_dcvr
  <2>2. QED
    BY <1>6, <2>1 DEF Structure, TypeOK, Table, Running, tint_handler, flip_timers
<1>7. QED  BY <1>1, <1>2, <1>3, <1>4, <1>5, <1>6

\* rx_dcvr starts the walk at the leaf, which is in the tree.
LEMMA RxStructure ==
    ASSUME Structure, NEW m \in net, rx_dcvr(m)
    PROVE  Structure'
<1>1. m \in Answer /\ m.l \in Leaf /\ m.h \in 1 .. HopMod - 1 /\ m.h \in Nat
  BY ParameterAssumption DEF Structure, TypeOK, Answer, rx_dcvr, Accepts
<1>2. m.r \in Router
  BY <1>1, NodeFacts DEF Structure, Table, Running, Answer, rx_dcvr, Accepts
<1>3. /\ tree' \in Tree
      /\ tree'.hops = IF m.r \in ht THEN [tree.hops EXCEPT ![m.r] = m.h] ELSE tree.hops
      /\ tree'.parent = tree.parent
      /\ Linked(tree') /\ Counted(tree')
  <2>1. CASE m.r \in ht
    BY <1>1, <1>2, <2>1, SetHops DEF Structure, TypeOK, rx_dcvr, Hub
  <2>2. CASE m.r \notin ht
    BY <2>2 DEF Structure, TypeOK, rx_dcvr
  <2>3. QED  BY <2>1, <2>2
<1>4. rx' \in RxType
  BY <1>1, <1>2 DEF rx_dcvr, RxType
<1>5. TypeOK'
  BY <1>3, <1>4 DEF Structure, TypeOK, rx_dcvr, RxType
<1>6. Table'
  BY <1>3 DEF Structure, Table, DetachedEmpty, Running, rx_dcvr
<1>7. tree'.hops[Root] = 0
  BY <1>2, <1>3, NodeFacts DEF Structure, TypeOK, Tree, Hub
<1>8. Climbing'
  <2>1. rx' # NoRx
    BY <1>4, NoRxType
  <2>2. rx'.n = m.l /\ rx'.r = m.r /\ rx'.h = m.h
    BY DEF rx_dcvr
  <2>3. tree'.parent[rx'.n] # Null
    BY <1>1, <1>3, <2>2 DEF Structure, Table, Running, rx_dcvr
  <2>4. rx'.n \notin Router
    BY <1>1, <2>2, NodeFacts
  <2>5. rx'.r \in ht' => tree'.hops[rx'.r] = rx'.h
    BY <1>2, <1>3, <2>2 DEF rx_dcvr, Structure, TypeOK, Tree, Hub
  <2>6. QED  BY <2>1, <2>3, <2>4, <2>5 DEF Climbing
<1>9. QED  BY <1>3, <1>5, <1>6, <1>7, <1>8 DEF Structure

\* While get_path_pos walks, the node it stands at is not the router that
\* answered, and has a parent to go on to.
LEMMA RxFields ==
    ASSUME Structure, pc = "climb"
    PROVE  /\ rx \in RxType
           /\ rx.r \in Router /\ rx.l \in Leaf /\ rx.n \in Leaf \cup Router
           /\ rx.h \in Nat /\ rx.h >= 1
           /\ rx.n # rx.r
           /\ tree.parent[rx.n] \in Hub
<1>1. rx \in RxType
  BY DEF Structure, TypeOK, Climbing, RxType
<1>2. /\ rx.r \in Router /\ rx.l \in Leaf /\ rx.n \in Leaf \cup Router
      /\ rx.h \in Nat /\ rx.h >= 1
  BY <1>1, ParameterAssumption DEF RxType
<1>3. rx.n # rx.r
  <2>1. CASE rx.r \in ht
    <3>1. tree.hops[rx.r] = rx.h /\ (rx.n \in Router => tree.hops[rx.n] > rx.h)
      BY <2>1 DEF Structure, Climbing
    <3>2. QED  BY <1>2, <3>1
  <2>2. CASE rx.r \notin ht
    BY <1>2, <2>2 DEF Structure, Climbing, Table
  <2>3. QED  BY <2>1, <2>2
<1>4. tree.parent[rx.n] \in Hub
  BY <1>2 DEF Structure, TypeOK, Tree, Climbing, Node
<1>5. QED  BY <1>1, <1>2, <1>3, <1>4

\* A turn of the loop of get_path_pos stays below the root, whose distance is 0.
LEMMA ClimbStructure ==
    ASSUME Structure, get_path_pos
    PROVE  Structure'
<1> DEFINE p == tree.parent[rx.n]
<1>0. pc = "climb"
  BY DEF get_path_pos
<1>1. p \in Router
  <2>1. p \in Hub /\ rx.h \in Nat
    BY <1>0, RxFields
  <2>2. tree.hops[p] > rx.h /\ tree.hops[Root] = 0
    BY DEF get_path_pos, Structure
  <2>3. QED  BY <2>1, <2>2 DEF Hub
<1>2. tree.parent[p] # Null
  <2>1. rx.n \in Leaf \cup Router
    BY <1>0, RxFields
  <2>2. QED  BY <1>1, <2>1 DEF Structure, Table, DetachedEmpty
<1>3. rx' \in RxType
  BY <1>0, <1>1, RxFields DEF get_path_pos, RxType
<1>4. rx'.n = p /\ rx'.r = rx.r /\ rx'.h = rx.h
  BY <1>0, RxFields DEF get_path_pos, RxType
<1>5. Climbing'
  BY <1>0, <1>2, <1>3, <1>4, NoRxType DEF get_path_pos, Structure, Climbing
<1>6. TypeOK'
  BY <1>3 DEF Structure, TypeOK, get_path_pos, RxType
<1>7. QED  BY <1>5, <1>6 DEF Structure, Table, Running, get_path_pos

\* What update_topo does to the tree: the router that answered takes over the
\* node n, in the place of n if it was outside the tree.
LEMMA UpdateTree ==
    ASSUME Structure, update_topo
    PROVE  /\ tree' \in Tree /\ Linked(tree') /\ Counted(tree')
           /\ tree.f = tree.n => tree'.f = tree'.n
           /\ tree'.hops = [tree.hops EXCEPT ![rx.r] = rx.h]
           /\ tree'.parent = [x \in Node |->
                 IF x = rx.n THEN rx.r
                 ELSE IF x = rx.r /\ tree.parent[rx.r] = Null THEN tree.parent[rx.n]
                 ELSE tree.parent[x]]
<1> DEFINE r == rx.r
           c == rx.n
           p == tree.parent[c]
<1>0. pc = "climb"
  BY DEF update_topo
<1>1. /\ r \in Router /\ r \in Hub /\ r # c /\ r \in Node /\ c \in Node
      /\ c \in Leaf \cup Router /\ p \in Hub /\ p # Null /\ rx.h \in Nat
  BY <1>0, RxFields, NodeFacts DEF Hub, Node
<1>2. tree \in Tree /\ Linked(tree) /\ Counted(tree)
  BY DEF Structure, TypeOK
<1>3. tree.parent[r] = Null =>
          /\ child(tree, r) = {} /\ leaf(tree, r) = {}
          /\ nchild(tree, r) = 0 /\ nleaf(tree, r) = 0
  <2>1. ASSUME tree.parent[r] = Null
        PROVE  child(tree, r) = {} /\ leaf(tree, r) = {}
    BY <1>1, <1>2, <2>1 DEF Structure, Table, DetachedEmpty, Linked
  <2>2. <<r, "child">> \in Slot /\ <<r, "leaf">> \in Slot
    BY <1>1 DEF Slot, Kind
  <2>3. /\ nchild(tree, r) = Cardinality(child(tree, r))
        /\ nleaf(tree, r) = Cardinality(leaf(tree, r))
    BY <1>2, <2>2 DEF Counted, nchild, nleaf, child, leaf
  <2>4. QED  BY <2>1, <2>3, FS_EmptySet
<1> HIDE DEF r, c, p
<1>4. CASE r \notin ht
  <2> DEFINE u == insert(tree, r, c)
             w == set_hops(u, r, rx.h)
  <2>1. tree.parent[r] = Null
    BY <1>1, <1>4 DEF Structure, Table
  <2>2. /\ u \in Tree
        /\ u.parent = [tree.parent EXCEPT ![r] = tree.parent[c], ![c] = r]
        /\ u.hops = [tree.hops EXCEPT ![r] = 0]
        /\ tree.f = tree.n => u.f = u.n
        /\ Linked(u) /\ Counted(u)
    BY <1>1, <1>2, <1>3, <2>1, Insert DEF p
  <2> HIDE DEF u
  <2>3. /\ w \in Tree /\ w.hops = [u.hops EXCEPT ![r] = rx.h]
        /\ w.parent = u.parent /\ Linked(w) /\ Counted(w)
        /\ w.n = u.n /\ w.f = u.f
    BY <1>1, <2>2, SetHops
  <2> HIDE DEF w
  <2>4. tree' = w
    BY <1>4 DEF update_topo, InsertRouter, r, c, u, w
  <2>5. w.hops = [tree.hops EXCEPT ![r] = rx.h]
    BY <1>1, <1>2, <2>2, <2>3 DEF Tree
  <2>6. w.parent = [x \in Node |->
                 IF x = c THEN r ELSE IF x = r THEN p ELSE tree.parent[x]]
    BY <1>1, <1>2, <2>2, <2>3 DEF Tree, p
  <2>7. QED  BY <2>1, <2>2, <2>3, <2>4, <2>5, <2>6 DEF r, c, p
<1>5. CASE r \in ht
  <2>0. tree.hops[r] = rx.h
    BY <1>0, <1>5 DEF Structure, Climbing, r
  <2>1. tree.hops = [tree.hops EXCEPT ![r] = rx.h]
    BY <1>2, <2>0 DEF Tree
  <2> DEFINE v == IF tree.parent[r] = Null THEN add_child(tree, p, r) ELSE tree
             u == adopt(v, r, c)
  <2>2. /\ v \in Tree /\ Linked(v) /\ Counted(v) /\ v.hops = tree.hops
        /\ tree.f = tree.n => v.f = v.n
        /\ v.parent = [x \in Node |-> IF x = r /\ tree.parent[r] = Null THEN p
                                      ELSE tree.parent[x]]
    <3>1. CASE tree.parent[r] = Null
      BY <1>1, <1>2, <3>1, AddChild DEF Tree
    <3>2. CASE tree.parent[r] # Null
      BY <1>1, <1>2, <3>2 DEF Tree
    <3>3. QED  BY <3>1, <3>2
  <2>3. tree' = u
    BY <1>3, <1>5 DEF update_topo, UpdateRouter, r, c, p
  <2> HIDE DEF v
  <2>4. v.parent[c] # Null
    BY <1>1, <2>2 DEF p
  <2>5. /\ u \in Tree
        /\ u.parent = [v.parent EXCEPT ![c] = r]
        /\ u.hops = v.hops
        /\ v.f = v.n => u.f = u.n
        /\ Linked(u) /\ Counted(u)
    BY <1>1, <2>2, <2>4, Adopt
  <2> HIDE DEF u
  <2>6. u.parent = [x \in Node |->
                 IF x = c THEN r ELSE IF x = r /\ tree.parent[r] = Null THEN p
                 ELSE tree.parent[x]]
    BY <1>1, <2>2, <2>5
  <2>7. QED  BY <2>1, <2>2, <2>3, <2>5, <2>6 DEF r, c, p
<1>6. QED  BY <1>4, <1>5

\* update_topo keeps Structure: the parent that n had is never left dangling.
LEMMA UpdateStructure ==
    ASSUME Structure, update_topo
    PROVE  Structure'
<1>0. pc = "climb" /\ pc' = "loop"
  BY DEF update_topo
<1>1. /\ rx.r \in Router /\ rx.n \in Leaf \cup Router /\ rx.n # rx.r
      /\ tree.parent[rx.n] \in Hub /\ tree.parent[rx.n] # Null /\ rx.r # Null
      /\ rx.r # Root
  BY <1>0, RxFields, NodeFacts DEF Hub, Node
<1>2. /\ tree' \in Tree /\ Linked(tree') /\ Counted(tree')
      /\ tree'.hops[Root] = 0
  BY <1>1, UpdateTree DEF Structure, TypeOK, Tree, Hub
<1>3. \A x \in Node : tree'.parent[x] =
                 IF x = rx.n THEN rx.r
                 ELSE IF x = rx.r /\ tree.parent[rx.r] = Null THEN tree.parent[rx.n]
                 ELSE tree.parent[x]
  BY UpdateTree
<1>4. TypeOK'
  BY <1>1, <1>2 DEF Structure, TypeOK, update_topo, Node
<1>5. Table'
  <2>1. \A q \in Router \ ht' : tree'.parent[q] = Null
    BY <1>1, <1>3 DEF Structure, Table, update_topo, Node
  <2>2. DetachedEmpty(tree')
    <3> SUFFICES ASSUME NEW q \in Router, tree'.parent[q] = Null,
                        NEW x \in Leaf \cup Router, tree'.parent[x] = q
                 PROVE  FALSE
      BY DEF DetachedEmpty
    <3>1. q # rx.n /\ q # rx.r
      BY <1>1, <1>3 DEF Node
    <3>2. tree.parent[q] = Null
      BY <1>1, <1>3, <3>1 DEF Node
    <3>3. \A y \in Leaf \cup Router : tree.parent[y] # q
      BY <3>2 DEF Structure, Table, DetachedEmpty
    <3>4. QED  BY <1>1, <1>3, <3>1, <3>3 DEF Node
  <2>3. \A l \in Leaf : l \in ht' <=> tree'.parent[l] # Null
    BY <1>0, <1>1, <1>3, NodeFacts DEF Structure, Table, Running, update_topo, Node
  <2>4. QED  BY <1>0, <2>1, <2>2, <2>3 DEF Structure, Table, Running, update_topo
<1>6. QED  BY <1>0, <1>2, <1>4, <1>5 DEF Structure

\* cut_router hands the lists of the router over to its parent, so the table
\* entry free_router deletes is the only trace the router leaves.
LEMMA ReduceStructure ==
    ASSUME Structure, NEW r \in Router, reduce_tree(r)
    PROVE  Structure'
<1>1. CASE ~TooSmall(tree, r)
  BY <1>1 DEF Structure, TypeOK, Table, Running, reduce_tree
<1>2. CASE TooSmall(tree, r)
  <2> DEFINE u == cut_router(tree, r)
             p == tree.parent[r]
  <2>1. tree \in Tree /\ Linked(tree) /\ Counted(tree) /\ p # Null /\ p # r
    BY ReachedAttached DEF Structure, TypeOK, reduce_tree
  <2>2. /\ u \in Tree
        /\ u.parent = [x \in Node |-> IF x = r THEN Null
                                      ELSE IF tree.parent[x] = r THEN p
                                      ELSE tree.parent[x]]
        /\ u.hops = [tree.hops EXCEPT ![r] = 0]
        /\ Linked(u) /\ Counted(u)
    BY <2>1, Cut
  <2>3. tree' = u /\ ht' = ht \ {r} /\ pc' = pc /\ pc = "reduce"
    BY <1>2 DEF reduce_tree
  <2> HIDE DEF u
  <2>4. \A x \in Node : u.parent[x] = IF x = r THEN Null
                                      ELSE IF tree.parent[x] = r THEN p
                                      ELSE tree.parent[x]
    BY <2>2
  <2>5. TypeOK'
    BY <2>2, <2>3 DEF Structure, TypeOK, reduce_tree
  <2>6. u.hops[Root] = 0
    BY <2>1, <2>2, NodeFacts DEF Structure, Tree, Hub
  <2>7. Table'
    <3>1. \A q \in Router \ ht' : u.parent[q] = Null
      <4>1. ASSUME NEW q \in Router \ ht', q # r PROVE tree.parent[q] = Null
        BY <2>3, <4>1 DEF Structure, Table
      <4>2. r # Null
        BY NodeFacts DEF Node
      <4>3. QED  BY <2>4, <4>1, <4>2 DEF Node
    <3>2. DetachedEmpty(u)
      <4> SUFFICES ASSUME NEW q \in Router, u.parent[q] = Null,
                          NEW x \in Leaf \cup Router, u.parent[x] = q
                   PROVE  FALSE
        BY DEF DetachedEmpty
      <4>1. CASE q = r
        BY <2>1, <2>4, <4>1, NodeFacts DEF Node
      <4>2. CASE q # r
        <5>1. tree.parent[q] = Null
          BY <2>1, <2>4, <4>2 DEF Node
        <5>2. \A y \in Leaf \cup Router : tree.parent[y] # q
          BY <5>1 DEF Structure, Table, DetachedEmpty
        <5>3. q # Null
          BY NodeFacts DEF Node
        <5>4. QED  BY <2>4, <4>2, <5>2, <5>3 DEF Node
      <4>3. QED  BY <4>1, <4>2
    <3>3. ASSUME NEW l \in Leaf PROVE l \in ht' <=> u.parent[l] # Null
      <4>1. l # r /\ r # Null
        BY NodeFacts DEF Node
      <4>2. u.parent[l] = IF tree.parent[l] = r THEN p ELSE tree.parent[l]
        BY <2>4, <4>1 DEF Node
      <4>3. l \in ht <=> tree.parent[l] # Null
        BY DEF Structure, Table
      <4>4. QED  BY <2>1, <2>3, <4>1, <4>2, <4>3
    <3>4. QED
      BY <2>3, <3>1, <3>2, <3>3, NodeFacts DEF Structure, Table, Running, Node
  <2>8. QED  BY <2>2, <2>3, <2>5, <2>6, <2>7 DEF Structure
<1>3. QED  BY <1>1, <1>2

\* tout_handler, the end of reduce_tree and greedy_grouping leave the links of
\* the tree alone.
LEMMA GroupStructure ==
    ASSUME Structure, tout_handler \/ ReduceDone \/ greedy_grouping
    PROVE  Structure'
<1>1. CASE tout_handler \/ ReduceDone
  BY <1>1 DEF Structure, TypeOK, Table, Running, tout_handler, ReduceDone
<1>2. CASE greedy_grouping
  <2>1. /\ tree'.parent = tree.parent /\ tree'.hops = tree.hops
        /\ tree'.list = tree.list /\ tree'.n = tree.n
        /\ tree'.f \in [Slot -> Nat]
        /\ tree' \in Tree
    <3> DEFINE g == [s \in Slot |-> IF s[1] \in Reach(tree) THEN 0 ELSE tree.f[s]]
    <3>1. tree' = [tree EXCEPT !.f = g]
      BY <1>2 DEF greedy_grouping
    <3>2. g \in [Slot -> Nat]
      BY DEF Structure, TypeOK, Tree
    <3> HIDE DEF g
    <3>3. QED  BY <3>1, <3>2 DEF Structure, TypeOK, Tree
  <2>2. Linked(tree') /\ Counted(tree')
    BY <2>1 DEF Structure, Linked, Counted, child, leaf
  <2>3. txg' \in [mdc : SUBSET Leaf, uni : SUBSET Leaf]
    <3>1. leaf(tree, Root) \subseteq Leaf
      BY DEF Structure, Linked, Hub
    <3>2. QED  BY <1>2, <3>1 DEF greedy_grouping
  <2>4. TypeOK'
    BY <1>2, <2>1, <2>3 DEF Structure, TypeOK, greedy_grouping
  <2>5. Table'
    BY <1>2, <2>1 DEF Structure, Table, DetachedEmpty, Running, greedy_grouping
  <2>6. QED  BY <1>2, <2>1, <2>2, <2>4, <2>5 DEF Structure, greedy_grouping
<1>3. QED  BY <1>1, <1>2

\* rec_reset_tree gives the leafs of a router back to the root before the router
\* leaves the tree.
LEMMA ResetStructure ==
    ASSUME Structure, NEW r \in Router, rec_reset_tree(r)
    PROVE  Structure'
<1> DEFINE u == reset_router(tree, Root, r)
<1>1. /\ tree \in Tree /\ Linked(tree) /\ Counted(tree)
      /\ tree.parent[r] # Null /\ child(tree, r) = {}
  BY ReachedAttached DEF Structure, TypeOK, rec_reset_tree
<1>2. /\ u \in Tree
      /\ u.parent = [x \in Node |-> IF x = r THEN Null
                                    ELSE IF tree.parent[x] = r THEN Root
                                    ELSE tree.parent[x]]
      /\ u.hops = [tree.hops EXCEPT ![r] = 0]
      /\ Linked(u) /\ Counted(u)
  BY <1>1, ResetRouter
<1>3. tree' = u /\ ht' = ht /\ pc' = pc /\ pc = "reset"
  BY DEF rec_reset_tree
<1> HIDE DEF u
<1>4. \A x \in Node : u.parent[x] = IF x = r THEN Null
                                    ELSE IF tree.parent[x] = r THEN Root
                                    ELSE tree.parent[x]
  BY <1>2
<1>5. r # Null /\ r # Root /\ Root # Null
  BY NodeFacts DEF Node
<1>6. TypeOK'
  BY <1>2, <1>3 DEF Structure, TypeOK, rec_reset_tree
<1>7. u.hops[Root] = 0
  BY <1>1, <1>2, <1>5 DEF Structure, Tree, Hub
<1>8. Table'
  <2>1. \A q \in Router \ ht' : u.parent[q] = Null
    BY <1>3, <1>4, <1>5 DEF Structure, Table, Node
  <2>2. DetachedEmpty(u)
    <3> SUFFICES ASSUME NEW q \in Router, u.parent[q] = Null,
                        NEW x \in Leaf \cup Router, u.parent[x] = q
                 PROVE  FALSE
      BY DEF DetachedEmpty
    <3>0. q # Root /\ q # Null
      BY NodeFacts DEF Node
    <3>1. CASE q = r
      BY <1>4, <1>5, <3>0, <3>1 DEF Node
    <3>2. CASE q # r
      <4>1. tree.parent[q] = Null
        BY <1>4, <1>5, <3>2 DEF Node
      <4>2. \A y \in Leaf \cup Router : tree.parent[y] # q
        BY <4>1 DEF Structure, Table, DetachedEmpty
      <4>3. QED  BY <1>4, <3>0, <4>2 DEF Node
    <3>3. QED  BY <3>1, <3>2
  <2>3. ASSUME NEW l \in Leaf PROVE l \in ht' <=> u.parent[l] # Null
    <3>1. l # r
      BY NodeFacts
    <3>2. QED  BY <1>3, <1>4, <1>5, <3>1 DEF Structure, Table, Node
  <2>4. QED  BY <1>3, <2>1, <2>2, <2>3 DEF Structure, Table, Running
<1>9. QED  BY <1>2, <1>3, <1>6, <1>7, <1>8 DEF Structure

\* The call of rec_reset_tree for the root only restores a free counter.
LEMMA ResetDoneStructure ==
    ASSUME Structure, ResetDone
    PROVE  Structure'
<1>1. /\ tree'.parent = tree.parent /\ tree'.hops = tree.hops
      /\ tree'.list = tree.list /\ tree'.n = tree.n
      /\ tree' \in Tree
  <2> DEFINE g == [tree.f EXCEPT ![<<Root, "leaf">>] = nleaf(tree, Root)]
  <2>1. tree' = [tree EXCEPT !.f = g]
    BY DEF ResetDone, reset_root
  <2>2. g \in [Slot -> Nat]
    BY DEF Structure, TypeOK, Tree, nleaf, Slot, Kind, Hub
  <2> HIDE DEF g
  <2>3. QED  BY <2>1, <2>2 DEF Structure, TypeOK, Tree
<1>2. Linked(tree') /\ Counted(tree')
  BY <1>1 DEF Structure, Linked, Counted, child, leaf
<1>3. TypeOK'
  BY <1>1 DEF Structure, TypeOK, ResetDone, flip_timers
<1>4. Table'
  BY <1>1 DEF Structure, Table, DetachedEmpty, Running, ResetDone
<1>5. QED  BY <1>1, <1>2, <1>3, <1>4 DEF Structure, ResetDone

\* Structure is inductive.
LEMMA NextStructure == Structure /\ [Next]_vars => Structure'
<1> SUFFICES ASSUME Structure, [Next]_vars PROVE Structure'
  OBVIOUS
<1>1. CASE UNCHANGED vars
  BY <1>1 DEF Structure, TypeOK, Table, Running, Climbing, vars
<1>2. CASE \/ \E l \in Leaf : Join(l) \/ JoinTwice(l)
           \/ Exited \/ Start \/ Reroute \/ tint_handler
           \/ \E m \in net : rx_rejected(m)
  BY <1>2, StartUpStructure
<1>3. ASSUME NEW m \in net, rx_dcvr(m) PROVE Structure'
  BY <1>3, RxStructure
<1>4. CASE get_path_pos
  BY <1>4, ClimbStructure
<1>5. CASE update_topo
  BY <1>5, UpdateStructure
<1>6. ASSUME NEW r \in Router, reduce_tree(r) PROVE Structure'
  BY <1>6, ReduceStructure
<1>7. CASE tout_handler \/ ReduceDone \/ greedy_grouping
  BY <1>7, GroupStructure
<1>8. ASSUME NEW r \in Router, rec_reset_tree(r) PROVE Structure'
  BY <1>8, ResetStructure
<1>9. CASE ResetDone
  BY <1>9, ResetDoneStructure
<1>10. QED
  BY <1>1, <1>2, <1>3, <1>4, <1>5, <1>6, <1>7, <1>8, <1>9 DEF Next, Work

-----------------------------------------------------------------------------
\* Structure holds in every state of the program.
THEOREM SpecStructure == Spec => []Structure
BY InitStructure, NextStructure, PTL DEF Spec

\* Every variable of the discovery thread keeps its type; in particular no
\* counter of struct router ever goes below zero.
THEOREM TypeCorrect == Spec => []TypeOK
<1>1. Structure => TypeOK
  BY DEF Structure
<1>2. QED  BY <1>1, SpecStructure, PTL

\* adopt, insert, cut_router and rec_reset_tree keep the lists, their lengths
\* and the parent pointers of the tree together, in whatever order answers come
\* and however the network routes.
THEOREM TreeConsistent == Spec => []ListsMatchParents
<1>1. Structure => ListsMatchParents
  BY DEF Structure, ListsMatchParents
<1>2. QED  BY <1>1, SpecStructure, PTL

\* No pointer of the tree leads to a router that free_router has freed.
THEOREM MemorySafe == Spec => []NoDangling
<1>1. ASSUME Structure PROVE NoDangling
  <2>1. ASSUME NEW x \in Node, tree.parent[x] # Null PROVE tree.parent[x] \in ht
    <3>1. tree.parent[x] \in Hub
      BY <1>1, <2>1 DEF Structure, TypeOK, Tree
    <3>2. x \in Leaf \cup Router
      BY <1>1, <2>1 DEF Structure, Linked, Node
    <3>3. QED  BY <1>1, <3>1, <3>2 DEF Structure, Table, DetachedEmpty, Hub
  <2>2. ASSUME NEW p \in Hub PROVE child(tree, p) \cup leaf(tree, p) \subseteq ht
    <3>1. p # Null
      BY NodeFacts DEF Hub, Node
    <3>2. QED  BY <1>1, <3>1 DEF Structure, Linked, Table
  <2>3. ASSUME pc = "climb" PROVE {rx.n, rx.l} \subseteq ht
    <3>1. rx.n \in Leaf \cup Router /\ rx.l \in Leaf /\ tree.parent[rx.n] # Null
      BY <1>1, <2>3, RxFields, NodeFacts DEF Hub, Node
    <3>2. QED  BY <1>1, <2>3, <3>1 DEF Structure, Table, Running
  <2>4. QED  BY <2>1, <2>2, <2>3 DEF NoDangling
<1>2. QED  BY <1>1, SpecStructure, PTL

\* get_path_pos never walks past the root, and get_child finds the node it
\* returns in a list of its parent.
THEOREM WalkSafe == Spec => []ClimbStaysInTree
<1>1. ASSUME Structure, pc = "climb"
      PROVE  /\ tree.parent[rx.n] # Null
             /\ rx.n \in tree.list[slot(tree.parent[rx.n], rx.n)]
  <2>1. /\ rx.n \in Leaf \cup Router
        /\ tree.parent[rx.n] \in Hub /\ tree.parent[rx.n] # Null
    BY <1>1, RxFields, NodeFacts DEF Hub, Node
  <2>2. CASE rx.n \in Router
    BY <1>1, <2>1, <2>2 DEF Structure, Linked, child, slot
  <2>3. CASE rx.n \notin Router
    BY <1>1, <2>1, <2>3 DEF Structure, Linked, leaf, slot
  <2>4. QED  BY <2>1, <2>2, <2>3
<1>2. Structure => ClimbStaysInTree
  BY <1>1 DEF ClimbStaysInTree
<1>3. QED  BY <1>2, SpecStructure, PTL

-----------------------------------------------------------------------------
\* The free counters are the list lengths, but while rec_reset_tree is on its way:
\* then those that grouping used up and that are not made good yet belong to
\* routers the walk still comes to.
Free ==
    /\ pc # "reset" => tree.f = tree.n
    /\ pc = "reset" =>
          \A h \in Hub, k \in Kind : <<h, k>> # <<Root, "leaf">> =>
              \/ tree.f[<<h, k>>] = tree.n[<<h, k>>]
              \/ tree.f[<<h, k>>] = 0 /\ h \in Reach(tree)

\* What joins, answers and reduce_tree do to the lists they do to both counters.
LEMMA BuildFree ==
    ASSUME Structure, Free, pc # "reset",
           \/ \E l \in Leaf : Join(l)
           \/ \E m \in net : rx_dcvr(m)
           \/ update_topo
           \/ \E r \in Router : reduce_tree(r)
    PROVE  Free'
<1>0. tree.f = tree.n /\ tree \in Tree /\ Linked(tree)
  BY DEF Free, Structure, TypeOK
<1>1. ASSUME NEW l \in Leaf, Join(l) PROVE tree'.f = tree'.n /\ pc' # "reset"
  <2>1. Root \in Hub
    BY DEF Hub
  <2>2. QED  BY <1>0, <1>1, <2>1, AddChild DEF Join, create_leaf
<1>2. ASSUME NEW m \in net, rx_dcvr(m) PROVE tree'.f = tree'.n /\ pc' # "reset"
  <2>1. m.h \in Nat /\ (m.r \in ht => m.r \in Hub)
    BY <1>2, ParameterAssumption DEF Structure, TypeOK, Answer, rx_dcvr, Accepts, Hub
  <2>2. CASE m.r \in ht
    BY <1>0, <1>2, <2>1, <2>2, SetHops DEF rx_dcvr
  <2>3. CASE m.r \notin ht
    BY <1>0, <1>2, <2>3 DEF rx_dcvr
  <2>4. QED  BY <2>2, <2>3
<1>3. ASSUME update_topo PROVE tree'.f = tree'.n /\ pc' # "reset"
  BY <1>0, <1>3, UpdateTree DEF update_topo
<1>4. ASSUME NEW r \in Router, reduce_tree(r) PROVE tree'.f = tree'.n /\ pc' # "reset"
  <2>1. tree.parent[r] # Null /\ tree.parent[r] # r
    BY <1>0, <1>4, ReachedAttached DEF reduce_tree
  <2>2. tree' = tree \/ tree' = cut_router(tree, r)
    BY <1>4 DEF reduce_tree
  <2>3. cut_router(tree, r).f = cut_router(tree, r).n
    BY <1>0, <2>1, Cut
  <2>4. QED  BY <1>0, <1>4, <2>2, <2>3 DEF reduce_tree
<1>5. QED  BY <1>1, <1>2, <1>3, <1>4 DEF Free

\* greedy_grouping uses up what the walk comes to, rec_reset_tree makes it good.
LEMMA RoundFree ==
    ASSUME Structure, Free,
           greedy_grouping \/ (\E r \in Router : rec_reset_tree(r)) \/ ResetDone
    PROVE  Free'
<1>0. tree \in Tree /\ Linked(tree) /\ Counted(tree)
  BY DEF Structure, TypeOK
<1>1. CASE greedy_grouping
  <2> DEFINE g == [s \in Slot |-> IF s[1] \in Reach(tree) THEN 0 ELSE tree.f[s]]
  <2>1. tree' = [tree EXCEPT !.f = g] /\ pc = "group" /\ pc' = "reset"
    BY <1>1 DEF greedy_grouping
  <2>2. \A h \in Hub, k \in Kind :
           g[<<h, k>>] = IF h \in Reach(tree) THEN 0 ELSE tree.f[<<h, k>>]
    BY DEF Slot
  <2> HIDE DEF g
  <2>3. tree'.f = g /\ tree'.n = tree.n /\ tree'.list = tree.list
    BY <1>0, <2>1 DEF Tree
  <2>4. Reach(tree') = Reach(tree)
    BY <2>3 DEF Reach, child, leaf
  <2>5. tree.f = tree.n
    BY <2>1 DEF Free
  <2>6. QED  BY <2>1, <2>2, <2>3, <2>4, <2>5 DEF Free
<1>2. ASSUME NEW r \in Router, rec_reset_tree(r) PROVE Free'
  <2>1. /\ pc = "reset" /\ pc' = "reset"
        /\ tree' = reset_router(tree, Root, r)
        /\ child(tree, r) = {} /\ tree.parent[r] # Null
    BY <1>0, <1>2, ReachedAttached DEF rec_reset_tree
  <2>2. /\ tree' \in Tree /\ Linked(tree')
        /\ tree'.parent = [x \in Node |-> IF x = r THEN Null
                                          ELSE IF tree.parent[x] = r THEN Root
                                          ELSE tree.parent[x]]
    BY <1>0, <2>1, ResetRouter
  <2>3. \A h \in Reach(tree) : h # r => h \in Reach(tree')
    BY <1>0, <2>1, <2>2, ResetReach
  <2>4. ASSUME NEW h \in Hub, NEW k \in Kind, <<h, k>> # <<Root, "leaf">>
        PROVE  \/ tree'.f[<<h, k>>] = tree'.n[<<h, k>>]
               \/ tree'.f[<<h, k>>] = 0 /\ h \in Reach(tree')
    <3>1. /\ tree.f[<<h, k>>] = tree.n[<<h, k>>] \/ h = r
                => tree'.f[<<h, k>>] = tree'.n[<<h, k>>]
          /\ tree.f[<<h, k>>] = 0 => tree'.f[<<h, k>>] = 0
      BY <1>0, <2>1, <2>4, ResetCounters
    <3>2. \/ tree.f[<<h, k>>] = tree.n[<<h, k>>]
          \/ tree.f[<<h, k>>] = 0 /\ h \in Reach(tree)
      BY <2>1, <2>4 DEF Free
    <3>3. QED  BY <2>3, <3>1, <3>2
  <2>5. QED  BY <2>1, <2>4 DEF Free
<1>3. CASE ResetDone
  <2> DEFINE g == [tree.f EXCEPT ![<<Root, "leaf">>] = nleaf(tree, Root)]
  <2>1. /\ tree' = [tree EXCEPT !.f = g] /\ pc = "reset" /\ pc' = "loop"
        /\ child(tree, Root) = {}
    BY <1>3 DEF ResetDone, reset_root
  <2>2. Reach(tree) \cap Hub = {Root}
    BY <1>0, <2>1, RootAlone
  <2>3. <<Root, "leaf">> \in Slot /\ <<Root, "child">> \in Slot
    BY DEF Slot, Hub, Kind
  <2>4. tree.n[<<Root, "child">>] = 0
    BY <1>0, <2>1, <2>3, FS_EmptySet DEF Counted, child
  <2>5. ASSUME NEW h \in Hub, NEW k \in Kind
        PROVE  g[<<h, k>>] = tree.n[<<h, k>>]
    <3>1. <<h, k>> \in Slot
      BY DEF Slot
    <3>2. CASE <<h, k>> = <<Root, "leaf">>
      BY <1>0, <2>3, <3>2 DEF Tree, nleaf
    <3>3. CASE <<h, k>> # <<Root, "leaf">>
      <4>1. g[<<h, k>>] = tree.f[<<h, k>>]
        BY <1>0, <3>1, <3>3 DEF Tree
      <4>2. \/ tree.f[<<h, k>>] = tree.n[<<h, k>>]
            \/ tree.f[<<h, k>>] = 0 /\ h = Root
        BY <2>1, <2>2, <3>3 DEF Free
      <4>3. h = Root => k = "child"
        BY <3>3 DEF Kind
      <4>4. QED  BY <2>4, <4>1, <4>2, <4>3
    <3>4. QED  BY <3>2, <3>3
  <2>6. g \in [Slot -> Nat]
    BY <1>0, <2>3 DEF Tree, nleaf
  <2>7. \A s \in Slot : g[s] = tree.n[s]
    BY <2>5 DEF Slot
  <2> HIDE DEF g
  <2>8. g = tree.n
    BY <1>0, <2>6, <2>7 DEF Tree
  <2>9. tree'.f = g /\ tree'.n = tree.n
    BY <1>0, <2>1 DEF Tree
  <2>10. QED  BY <2>1, <2>8, <2>9 DEF Free
<1>4. QED  BY <1>1, <1>2, <1>3

\* Free is inductive, next to Structure.
LEMMA NextFree == Structure /\ Free /\ [Next]_vars => Free'
<1> SUFFICES ASSUME Structure, Free, [Next]_vars PROVE Free'
  OBVIOUS
<1>1. CASE \/ \E l \in Leaf : Join(l)
           \/ \E m \in net : rx_dcvr(m)
           \/ update_topo
           \/ \E r \in Router : reduce_tree(r)
  BY <1>1, BuildFree DEF Join, rx_dcvr, update_topo, reduce_tree
<1>2. CASE greedy_grouping \/ (\E r \in Router : rec_reset_tree(r)) \/ ResetDone
  BY <1>2, RoundFree
<1>3. CASE tree' = tree /\ (pc' = pc \/ (pc # "reset" /\ pc' # "reset"))
  BY <1>3 DEF Free
<1>4. QED
  BY <1>1, <1>2, <1>3
     DEF Next, Work, vars, JoinTwice, Exited, Start, tint_handler, rx_rejected,
         get_path_pos, tout_handler, ReduceDone, Reroute

\* Grouping starts with every leaf and router free in every round, even if a cycle
\* of routers has come loose from the root: no assumption on the network is needed.
THEOREM GroupingFindsAllFree == Spec => []FreeBeforeGrouping
<1>1. Init => Free
  BY DEF Init, init_group, Free
<1>2. Free => FreeBeforeGrouping
  BY DEF Free, FreeBeforeGrouping
<1>3. QED  BY <1>1, <1>2, NextFree, SpecStructure, PTL DEF Spec

-----------------------------------------------------------------------------
\* reduce_tree on its way: what is below a router it is done with it is done with
\* too, and such a router is large enough or out of the tree.
Reducing ==
    pc = "reduce" =>
        \A q \in visited : /\ child(tree, q) \subseteq visited
                           /\ tree.parent[q] # Null => ~TooSmall(tree, q)

\* The parent of r, which takes over what was below r, is still to come: the
\* routers reduce_tree is done with keep their lists and their counts.
LEMMA ReduceKeepsReducing ==
    ASSUME Structure, Reducing, NEW r \in Router, reduce_tree(r)
    PROVE  Reducing'
<1> DEFINE p == tree.parent[r]
<1>1. /\ tree \in Tree /\ Linked(tree) /\ Counted(tree)
      /\ visited \subseteq Router /\ Router \subseteq Hub
      /\ p # Null /\ p # r /\ r \notin visited /\ r # Null
  BY ReachedAttached, NodeFacts DEF Structure, TypeOK, reduce_tree, Hub, Node
<1>2. /\ pc = "reduce" /\ pc' = "reduce"
      /\ child(tree, r) \subseteq visited /\ visited' = visited \cup {r}
  BY DEF reduce_tree
<1>3. p \notin visited
  <2> SUFFICES ASSUME p \in visited PROVE FALSE
    OBVIOUS
  <2>1. r \in child(tree, p)
    BY <1>1 DEF Linked
  <2>2. child(tree, p) \subseteq visited
    BY <1>2 DEF Reducing
  <2>3. QED  BY <1>1, <2>1, <2>2
<1>4. CASE ~TooSmall(tree, r)
  BY <1>2, <1>4 DEF Reducing, reduce_tree
<1>5. CASE TooSmall(tree, r)
  <2> DEFINE u == cut_router(tree, r)
  <2>1. tree' = u
    BY <1>5 DEF reduce_tree
  <2>2. /\ u \in Tree /\ Linked(u) /\ Counted(u) /\ child(u, r) = {}
        /\ u.parent = [x \in Node |-> IF x = r THEN Null
                                      ELSE IF tree.parent[x] = r THEN p
                                      ELSE tree.parent[x]]
    BY <1>1, Cut
  <2> HIDE DEF u
  <2>3. \A x \in Node : u.parent[x] = IF x = r THEN Null
                                      ELSE IF tree.parent[x] = r THEN p
                                      ELSE tree.parent[x]
    BY <2>2
  <2>4. u.parent[r] = Null
    BY <2>3 DEF Node
  <2>5. ASSUME NEW q \in visited
        PROVE  /\ child(u, q) \subseteq visited
               /\ u.parent[q] # Null => ~TooSmall(u, q)
    <3>1. /\ q \in Router /\ q \in Hub /\ q # r /\ q # p /\ q # Null
          /\ <<q, "child">> \in Slot /\ <<q, "leaf">> \in Slot
      BY <1>1, <1>3, <2>5, NodeFacts DEF Slot, Kind, Node
    <3>2. \A x \in Leaf \cup Router : u.parent[x] = q <=> tree.parent[x] = q
      BY <1>1, <2>3, <3>1 DEF Node
    <3>3. child(u, q) = child(tree, q) /\ leaf(u, q) = leaf(tree, q)
      <4>1. /\ child(u, q) = {c \in Router : u.parent[c] = q}
            /\ leaf(u, q) = {l \in Leaf : u.parent[l] = q}
        BY <2>2, <3>1 DEF Linked
      <4>2. /\ child(tree, q) = {c \in Router : tree.parent[c] = q}
            /\ leaf(tree, q) = {l \in Leaf : tree.parent[l] = q}
        BY <1>1, <3>1 DEF Linked
      <4>3. QED  BY <3>2, <4>1, <4>2
    <3>4. nchild(u, q) = nchild(tree, q) /\ nleaf(u, q) = nleaf(tree, q)
      BY <1>1, <2>2, <3>1, <3>3 DEF Counted, nchild, nleaf, child, leaf
    <3>5. u.parent[q] # Null => tree.parent[q] # Null
      BY <1>1, <2>3, <3>1 DEF Node
    <3>6. QED  BY <1>2, <2>5, <3>3, <3>4, <3>5 DEF Reducing, TooSmall
  <2>6. QED  BY <1>2, <2>1, <2>2, <2>4, <2>5 DEF Reducing
<1>6. QED  BY <1>4, <1>5

\* When reduce_tree returns from the root it is done with all that a walk meets.
LEMMA ReduceDoneReduced ==
    ASSUME Structure, Reducing, ReduceDone
    PROVE  Reduced'
<1> DEFINE S == {Root} \cup visited \cup Leaf
<1>1. tree \in Tree /\ Linked(tree) /\ visited \subseteq Router /\ pc = "reduce"
  BY DEF Structure, TypeOK, ReduceDone
<1>2. S \in SUBSET Node /\ Root \in S
  BY <1>1 DEF Node
<1>3. ASSUME NEW p \in S \cap Hub PROVE child(tree, p) \cup leaf(tree, p) \subseteq S
  <2>1. p = Root \/ p \in visited
    BY NodeFacts DEF Hub
  <2>2. child(tree, p) \subseteq visited
    BY <1>1, <2>1 DEF Reducing, ReduceDone
  <2>3. leaf(tree, p) \subseteq Leaf
    BY <1>1 DEF Linked
  <2>4. QED  BY <2>2, <2>3
<1>4. Reach(tree) \subseteq S
  BY <1>2, <1>3 DEF Reach
<1>5. ASSUME NEW r \in Reach(tree) \cap Router PROVE ~TooSmall(tree, r)
  <2>1. r \in visited
    BY <1>4, NodeFacts
  <2>2. tree.parent[r] # Null
    BY <1>1, ReachedAttached
  <2>3. QED  BY <1>1, <2>1, <2>2 DEF Reducing
<1>6. QED  BY <1>5 DEF Reduced, ReduceDone

\* Reducing and Reduced are inductive together, next to Structure.
LEMMA NextReduced == Structure /\ Reducing /\ Reduced /\ [Next]_vars => (Reducing /\ Reduced)'
<1> SUFFICES ASSUME Structure, Reducing, Reduced, [Next]_vars PROVE (Reducing /\ Reduced)'
  OBVIOUS
<1>1. ASSUME NEW r \in Router, reduce_tree(r) PROVE (Reducing /\ Reduced)'
  BY <1>1, ReduceKeepsReducing DEF Reduced, reduce_tree
<1>2. CASE ReduceDone
  BY <1>2, ReduceDoneReduced DEF Reducing, ReduceDone
<1>3. CASE tout_handler
  BY <1>3 DEF Reducing, Reduced, tout_handler
<1>4. CASE pc' \notin {"reduce", "group"}
  BY <1>4 DEF Reducing, Reduced
<1>5. CASE UNCHANGED <<tree, visited, pc>>
  BY <1>5 DEF Reducing, Reduced, Reach, child, leaf, TooSmall, nchild, nleaf
<1>6. QED
  BY <1>1, <1>2, <1>3, <1>4, <1>5
     DEF Next, Work, vars, Join, JoinTwice, Exited, Start, tint_handler, rx_dcvr,
         rx_rejected, get_path_pos, update_topo, greedy_grouping, rec_reset_tree,
         ResetDone, Reroute

\* argp.c, "routers with less leafs than min_leafs and less routers than
\* min_routers get removed": grouping never meets a router that is too small,
\* although each removal changes the counts of the router above, and even if the
\* paths change between the answers the tree is built from.
THEOREM TreeReduced == Spec => []Reduced
<1>1. Init => Reducing /\ Reduced
  BY DEF Init, Reducing, Reduced
<1>2. QED  BY <1>1, NextReduced, SpecStructure, PTL DEF Spec

-----------------------------------------------------------------------------
\* Every router has one distance, hop: answers carry it, routers in the tree
\* have it, and no router is below one that is further away.
Ordered(hop) ==
    /\ \A m \in net : m.r \in Router => m.h = hop[m.r]
    /\ pc = "climb" => rx.h = hop[rx.r]
    /\ \A r \in Router : tree.parent[r] # Null => tree.hops[r] = hop[r]
    /\ \A r \in Router : tree.parent[r] \in Router => hop[tree.parent[r]] <= hop[r]
    /\ Acyclic(tree)

\* The tree of init_group is ordered.
LEMMA InitOrdered ==
    ASSUME NEW hop \in [Router -> Nat], Init
    PROVE  Ordered(hop)
<1>1. \A x \in Leaf \cup Router : tree.parent[x] = Null
  BY DEF Init, init_group, Node
<1>2. Acyclic(tree)
  BY <1>1, NodeFacts DEF Acyclic, Node
<1>3. QED  BY <1>1, <1>2, NodeFacts DEF Init, Ordered, Node

\* Steps that change no link and no distance of the tree keep it ordered: join
\* attaches a leaf, tint_handler brings new answers, the others leave it alone.
LEMMA QuietOrdered ==
    ASSUME NEW hop \in [Router -> Nat], ReportsHops(hop), Structure, Ordered(hop),
           \/ \E l \in Leaf : Join(l) \/ JoinTwice(l)
           \/ Exited \/ Start \/ Reroute \/ tint_handler \/ tout_handler
           \/ \E m \in net : rx_rejected(m)
           \/ ReduceDone \/ UNCHANGED vars
    PROVE  Ordered(hop)'
<1>1. ASSUME NEW l \in Leaf, Join(l) PROVE Ordered(hop)'
  <2>1. /\ tree \in Tree /\ Root \in Hub /\ l \in Leaf \cup Router
        /\ tree.parent[l] = Null /\ Linked(tree)
    BY <1>1 DEF Structure, TypeOK, Table, Join, Hub
  <2>2. /\ tree' \in Tree
        /\ tree'.parent = [tree.parent EXCEPT ![l] = Root]
        /\ tree'.hops = tree.hops
    <3>1. tree' = add_child(tree, Root, l)
      BY <1>1 DEF Join, create_leaf
    <3>2. QED  BY <2>1, <3>1, AddChild
  <2>3. \A x \in Router : tree'.parent[x] = tree.parent[x]
    BY <2>1, <2>2, NodeFacts DEF Tree, Node
  <2>4. Acyclic(tree')
    <3> SUFFICES ASSUME NEW S \in SUBSET (Leaf \cup Router), S # {},
                        \A x \in S : tree'.parent[x] \in S
                 PROVE  FALSE
      BY DEF Acyclic
    <3>1. \A x \in S : tree.parent[x] \in S
      BY <2>1, <2>2, NodeFacts DEF Tree, Node
    <3>2. QED  BY <3>1 DEF Ordered, Acyclic
  <2>5. QED  BY <1>1, <2>2, <2>3, <2>4 DEF Ordered, Join
<1>2. CASE tint_handler
  <2>1. \A m \in net' : m.r \in Router => m.h = hop[m.r]
    <3> SUFFICES ASSUME NEW m \in net', m.r \in Router PROVE m.h = hop[m.r]
      OBVIOUS
    <3>1. CASE m \in net
      BY <3>1 DEF Ordered
    <3>2. CASE m \notin net
      <4>1. PICK l \in Leaf : m \in Answers(route, l)
        BY <1>2, <3>2 DEF tint_handler, send_dcvr
      <4>2. PICK i \in 1 .. Len(route[l]) :
                m = [r |-> route[l][i], l |-> l, h |-> i % HopMod]
        BY <4>1 DEF Answers, HopCount
      <4>3. m.r = route[l][i] /\ m.h = i % HopMod
        BY <4>2
      <4>4. hop[route[l][i]] = i % HopMod
        BY <4>3 DEF ReportsHops, HopCount, Structure, TypeOK
      <4>5. QED  BY <4>3, <4>4
    <3>3. QED  BY <3>1, <3>2
  <2>2. QED  BY <1>2, <2>1 DEF Ordered, tint_handler
<1>3. CASE \/ \E l \in Leaf : JoinTwice(l)
           \/ Exited \/ Start \/ Reroute \/ tout_handler
           \/ \E m \in net : rx_rejected(m)
           \/ ReduceDone \/ UNCHANGED vars
  BY <1>3 DEF Ordered, JoinTwice, Exited, Start, Reroute, tout_handler, rx_rejected,
              ReduceDone, vars
<1>4. QED  BY <1>1, <1>2, <1>3

\* An answer sets the distance of its router to what it is already, and
\* get_path_pos changes nothing but its own position.
LEMMA RxOrdered ==
    ASSUME NEW hop \in [Router -> Nat], Structure, Ordered(hop),
           (\E m \in net : rx_dcvr(m)) \/ get_path_pos
    PROVE  Ordered(hop)'
<1>1. ASSUME NEW m \in net, rx_dcvr(m) PROVE Ordered(hop)'
  <2>1. m \in Answer /\ m.l \in Leaf /\ m.h \in Nat
    BY ParameterAssumption DEF Structure, TypeOK, Answer
  <2>2. m.r \in Router
    BY <1>1, <2>1, NodeFacts
       DEF Structure, Table, Running, Answer, rx_dcvr, Accepts
  <2>3. m.h = hop[m.r]
    BY <2>2 DEF Ordered
  <2>4. /\ tree'.parent = tree.parent
        /\ tree'.hops = IF m.r \in ht THEN [tree.hops EXCEPT ![m.r] = m.h] ELSE tree.hops
    <3>1. CASE m.r \in ht
      BY <1>1, <2>1, <2>2, <3>1, SetHops DEF Structure, TypeOK, rx_dcvr, Hub
    <3>2. CASE m.r \notin ht
      BY <1>1, <3>2 DEF rx_dcvr
    <3>3. QED  BY <3>1, <3>2
  <2>5. \A q \in Router : tree'.parent[q] # Null => tree'.hops[q] = hop[q]
    BY <2>2, <2>3, <2>4 DEF Ordered, Structure, TypeOK, Tree, Hub
  <2>6. Acyclic(tree')
    BY <2>4 DEF Ordered, Acyclic
  <2>7. rx'.h = m.h /\ rx'.r = m.r /\ net' = net
    BY <1>1 DEF rx_dcvr
  <2>8. QED  BY <2>3, <2>4, <2>5, <2>6, <2>7 DEF Ordered
<1>2. CASE get_path_pos
  <2>1. pc = "climb" /\ rx \in RxType
    BY <1>2, RxFields DEF get_path_pos
  <2>2. rx'.h = rx.h /\ rx'.r = rx.r
    BY <1>2, <2>1 DEF get_path_pos, RxType
  <2>3. QED  BY <1>2, <2>1, <2>2 DEF Ordered, get_path_pos
<1>3. QED  BY <1>1, <1>2

\* update_topo puts the router above nodes that are further away and below one
\* that is not, so it closes no cycle.
LEMMA UpdateOrdered ==
    ASSUME NEW hop \in [Router -> Nat], Structure, Ordered(hop), update_topo
    PROVE  Ordered(hop)'
<1> DEFINE r == rx.r
           c == rx.n
           p == tree.parent[c]
<1>0. pc = "climb" /\ pc' = "loop"
  BY DEF update_topo
<1>1. /\ r \in Router /\ r # c /\ r \in Node /\ c \in Node /\ r \in Hub
      /\ c \in Leaf \cup Router /\ p \in Hub /\ p # Null /\ r # Null
      /\ rx.h = hop[r] /\ hop[r] \in Nat
  BY <1>0, RxFields, NodeFacts DEF Hub, Node, Ordered
<1>2. tree \in Tree /\ Acyclic(tree) /\ DetachedEmpty(tree)
  BY DEF Structure, TypeOK, Ordered, Table
<1>3. /\ tree' \in Tree
      /\ tree'.hops = [tree.hops EXCEPT ![r] = rx.h]
      /\ tree'.parent = [x \in Node |->
            IF x = c THEN r ELSE IF x = r /\ tree.parent[r] = Null THEN p
            ELSE tree.parent[x]]
  BY UpdateTree
<1>4. c \in Router => hop[c] > hop[r]
  <2>1. c \in Router => tree.hops[c] = hop[c] /\ tree.hops[c] > rx.h
    BY <1>0, <1>1 DEF Structure, Climbing, Ordered
  <2>2. QED  BY <1>1, <2>1
<1>5. p \in Router => hop[p] <= hop[r]
  <2>1. p \in Router => tree.parent[p] # Null
    BY <1>1, <1>2 DEF DetachedEmpty
  <2>2. p \in Router => tree.hops[p] = hop[p]
    BY <2>1 DEF Ordered
  <2>3. QED  BY <1>1, <2>2 DEF update_topo
<1> DEFINE v == [parent |-> [tree.parent EXCEPT ![r] =
                               IF tree.parent[r] = Null THEN p ELSE tree.parent[r]],
                 hops |-> tree.hops, list |-> tree.list,
                 n |-> tree.n, f |-> tree.f]
<1>7. v \in Tree /\ Acyclic(v)
      /\ \A x \in Router : v.parent[x] \in Router => hop[v.parent[x]] <= hop[x]
  <2>1. v \in Tree
    BY <1>1, <1>2 DEF Tree
  <2>2. CASE tree.parent[r] # Null
    <3>1. v.parent = tree.parent
      BY <1>1, <1>2, <2>2 DEF Tree
    <3>2. QED  BY <1>2, <2>1, <3>1 DEF Acyclic, Ordered
  <2>3. CASE tree.parent[r] = Null
    <3>1. v.parent = [tree.parent EXCEPT ![r] = p]
      BY <2>3
    <3>2. \A x \in Leaf \cup Router : tree.parent[x] # r
      BY <1>1, <1>2, <2>3 DEF DetachedEmpty
    <3>3. p # r
      BY <1>1, <3>2
    <3> HIDE DEF v, p
    <3>4. Acyclic(v)
      BY <1>1, <1>2, <2>1, <3>1, <3>2, <3>3, LinkAcyclic
    <3>5. \A x \in Router : v.parent[x] = IF x = r THEN p ELSE tree.parent[x]
      BY <1>2, <3>1 DEF Tree, Node
    <3>6. QED  BY <1>5, <2>1, <3>4, <3>5 DEF Ordered
  <2>4. QED  BY <2>2, <2>3
<1>8. tree'.parent = [v.parent EXCEPT ![c] = r]
  BY <1>1, <1>2, <1>3 DEF Tree
<1> HIDE DEF v, r, c, p
<1>9. Acyclic(tree')
  BY <1>1, <1>3, <1>4, <1>7, <1>8, AdoptAcyclic
<1>10. \A x \in Router : tree'.parent[x] = IF x = c THEN r ELSE v.parent[x]
  BY <1>7, <1>8 DEF Tree, Node
<1>11. \A x \in Router : tree'.parent[x] \in Router => hop[tree'.parent[x]] <= hop[x]
  <2> SUFFICES ASSUME NEW x \in Router, tree'.parent[x] \in Router
               PROVE  hop[tree'.parent[x]] <= hop[x]
    OBVIOUS
  <2>1. CASE x = c
    BY <1>1, <1>4, <1>10, <2>1
  <2>2. CASE x # c
    BY <1>7, <1>10, <2>2
  <2>3. QED  BY <2>1, <2>2
<1>12. \A x \in Router : tree'.parent[x] # Null => tree'.hops[x] = hop[x]
  <2> SUFFICES ASSUME NEW x \in Router, tree'.parent[x] # Null
               PROVE  tree'.hops[x] = hop[x]
    OBVIOUS
  <2>1. CASE x = r
    BY <1>1, <1>2, <1>3, <2>1 DEF Tree
  <2>2. CASE x # r
    <3>1. tree'.hops[x] = tree.hops[x]
      BY <1>1, <1>2, <1>3, <2>2 DEF Tree, Hub
    <3>2. tree.parent[x] # Null
      BY <1>1, <1>3, <2>2 DEF Node, p
    <3>3. QED  BY <3>1, <3>2 DEF Ordered
  <2>3. QED  BY <2>1, <2>2
<1>13. QED  BY <1>0, <1>9, <1>11, <1>12 DEF Ordered, update_topo

\* cut_router and rec_reset_tree move nodes towards the root only.
LEMMA CutOrdered ==
    ASSUME NEW hop \in [Router -> Nat], Structure, Ordered(hop), NEW r \in Router,
           reduce_tree(r) \/ rec_reset_tree(r)
    PROVE  Ordered(hop)'
<1>1. tree \in Tree /\ Linked(tree) /\ Acyclic(tree)
  BY DEF Structure, TypeOK, Ordered
<1>2. tree.parent[r] # Null /\ tree.parent[r] # r /\ r # Null /\ Root # Null /\ Root \notin Router
  BY <1>1, ReachedAttached, NodeFacts DEF reduce_tree, rec_reset_tree, Node
<1> DEFINE Moved(q) ==
        /\ tree' \in Tree
        /\ tree'.parent = [x \in Node |-> IF x = r THEN Null
                                          ELSE IF tree.parent[x] = r THEN q
                                          ELSE tree.parent[x]]
        /\ tree'.hops = [tree.hops EXCEPT ![r] = 0]
        /\ Acyclic(tree')
<1>3. CASE tree' = tree /\ UNCHANGED <<net, rx, pc>>
  BY <1>3 DEF Ordered
<1>4. CASE (Moved(tree.parent[r]) \/ Moved(Root)) /\ UNCHANGED <<net, rx, pc>>
  <2>1. PICK q \in {tree.parent[r], Root} : Moved(q)
    BY <1>4
  <2>2. \A x \in Router : tree'.parent[x] = IF x = r THEN Null
                                          ELSE IF tree.parent[x] = r THEN q
                                          ELSE tree.parent[x]
    BY <2>1 DEF Node
  <2>3. ASSUME NEW x \in Router, tree'.parent[x] # Null
        PROVE  tree'.hops[x] = hop[x]
    <3>1. x # r
      BY <2>2, <2>3
    <3>2. tree.parent[x] # Null
      BY <1>2, <2>2, <2>3, <3>1
    <3>3. tree'.hops[x] = tree.hops[x]
      BY <1>1, <2>1, <3>1 DEF Tree, Hub
    <3>4. QED  BY <3>2, <3>3 DEF Ordered
  <2>4. ASSUME NEW x \in Router, tree'.parent[x] \in Router
        PROVE  hop[tree'.parent[x]] <= hop[x]
    <3>0. x # r
      <4>1. Null \notin Router
        BY NodeFacts DEF Node
      <4>2. QED  BY <2>2, <2>4, <4>1
    <3>1. CASE tree.parent[x] # r
      BY <2>2, <2>4, <3>0, <3>1 DEF Ordered
    <3>2. CASE tree.parent[x] = r
      <4>1. tree'.parent[x] = tree.parent[r]
        BY <1>2, <2>1, <2>2, <2>4, <3>0, <3>2
      <4>2. hop[tree.parent[r]] <= hop[r] /\ hop[r] <= hop[x]
        BY <2>4, <3>2, <4>1 DEF Ordered
      <4>3. hop[tree.parent[r]] \in Nat /\ hop[r] \in Nat /\ hop[x] \in Nat
        BY <2>4, <4>1
      <4>4. QED  BY <4>1, <4>2, <4>3
    <3>3. QED  BY <3>1, <3>2
  <2>5. Acyclic(tree')
    BY <2>1
  <2> HIDE DEF Moved
  <2>6. QED  BY <1>4, <2>3, <2>4, <2>5 DEF Ordered
<1>5. CASE reduce_tree(r)
  <2>1. CASE ~TooSmall(tree, r)
    BY <1>3, <1>5, <2>1 DEF reduce_tree
  <2>2. CASE TooSmall(tree, r)
    <3>1. tree' = cut_router(tree, r) /\ UNCHANGED <<net, rx, pc>>
      BY <1>5, <2>2 DEF reduce_tree
    <3>2. /\ tree' \in Tree
          /\ tree'.parent = [x \in Node |-> IF x = r THEN Null
                                            ELSE IF tree.parent[x] = r THEN tree.parent[r]
                                            ELSE tree.parent[x]]
          /\ tree'.hops = [tree.hops EXCEPT ![r] = 0]
      BY <1>1, <1>2, <3>1, Cut
    <3>3. Acyclic(tree')
      BY <1>1, <3>2, CutAcyclic
    <3>4. QED  BY <1>4, <3>1, <3>2, <3>3
  <2>3. QED  BY <2>1, <2>2
<1>6. CASE rec_reset_tree(r)
  <2>1. tree' = reset_router(tree, Root, r) /\ UNCHANGED <<net, rx, pc>>
        /\ child(tree, r) = {}
    BY <1>6 DEF rec_reset_tree
  <2>2. /\ tree' \in Tree
        /\ tree'.parent = [x \in Node |-> IF x = r THEN Null
                                          ELSE IF tree.parent[x] = r THEN Root
                                          ELSE tree.parent[x]]
        /\ tree'.hops = [tree.hops EXCEPT ![r] = 0]
    BY <1>1, <1>2, <2>1, ResetRouter
  <2>3. Acyclic(tree')
    BY <1>1, <2>2, ResetAcyclic
  <2>4. QED  BY <1>4, <2>1, <2>2, <2>3
<1>7. QED  BY <1>5, <1>6

\* greedy_grouping and the end of the reset change free counters only.
LEMMA CountersOrdered ==
    ASSUME NEW hop \in [Router -> Nat], Structure, Ordered(hop),
           greedy_grouping \/ ResetDone
    PROVE  Ordered(hop)'
<1>1. tree'.parent = tree.parent /\ tree'.hops = tree.hops
  BY DEF Structure, TypeOK, Tree, greedy_grouping, ResetDone, reset_root
<1>2. Acyclic(tree')
  BY <1>1 DEF Ordered, Acyclic
<1>3. QED  BY <1>1, <1>2 DEF Ordered, greedy_grouping, ResetDone

\* Ordered is inductive, next to Structure.
LEMMA NextOrdered ==
    ASSUME NEW hop \in [Router -> Nat], ReportsHops(hop)
    PROVE  Structure /\ Ordered(hop) /\ [Next]_vars => Ordered(hop)'
<1> SUFFICES ASSUME Structure, Ordered(hop), [Next]_vars PROVE Ordered(hop)'
  OBVIOUS
<1>1. CASE \/ \E l \in Leaf : Join(l) \/ JoinTwice(l)
           \/ Exited \/ Start \/ Reroute \/ tint_handler \/ tout_handler
           \/ \E m \in net : rx_rejected(m)
           \/ ReduceDone \/ UNCHANGED vars
  BY <1>1, QuietOrdered
<1>2. CASE (\E m \in net : rx_dcvr(m)) \/ get_path_pos
  BY <1>2, RxOrdered
<1>3. CASE update_topo
  BY <1>3, UpdateOrdered
<1>4. ASSUME NEW r \in Router, reduce_tree(r) \/ rec_reset_tree(r) PROVE Ordered(hop)'
  BY <1>4, CutOrdered
<1>5. CASE greedy_grouping \/ ResetDone
  BY <1>5, CountersOrdered
<1>6. QED  BY <1>1, <1>2, <1>3, <1>4, <1>5 DEF Next, Work

\* In an ordered tree a walk from the root meets every receiver.
LEMMA OrderedReaches ==
    ASSUME NEW hop \in [Router -> Nat], Structure, Ordered(hop)
    PROVE  NoReceiverLost
<1>1. tree \in Tree /\ Linked(tree) /\ Acyclic(tree)
  BY DEF Structure, TypeOK, Ordered
<1>2. \A r \in Router : tree.parent[r] = Null => child(tree, r) = {} /\ leaf(tree, r) = {}
  BY <1>1 DEF Structure, Table, DetachedEmpty, Linked, Hub
<1>3. \A x \in Leaf \cup Router : tree.parent[x] # Null => x \in Reach(tree)
  BY <1>1, <1>2, AllReached
<1>4. QED  BY <1>3 DEF NoReceiverLost, Structure, Table

\* Only init_txg and set_txg change whom data is sent to, and both publish a
\* group of all receivers.
LEMMA NextServed ==
    ASSUME Structure, NoReceiverLost, EveryReceiverServed, [Next]_vars
    PROVE  EveryReceiverServed'
<1>1. CASE greedy_grouping
  <2>1. Leaf \subseteq Reach(tree) /\ leaf(tree, Root) \subseteq Leaf
    BY <1>1 DEF greedy_grouping, NoReceiverLost, Running, Structure, Linked, Hub
  <2>2. txg'.mdc = Leaf \ leaf(tree, Root) /\ txg'.uni = leaf(tree, Root)
    BY <1>1, <2>1 DEF greedy_grouping
  <2>3. QED  BY <2>1, <2>2 DEF EveryReceiverServed
<1>2. CASE Start
  BY <1>2 DEF Start, init_txg, EveryReceiverServed
<1>3. CASE txg' = txg /\ (Running' => Running)
  BY <1>3 DEF EveryReceiverServed
<1>4. QED
  BY <1>1, <1>2, <1>3
     DEF Next, Work, vars, Running, Join, JoinTwice, Exited, tint_handler, rx_dcvr,
         rx_rejected, get_path_pos, update_topo, tout_handler, reduce_tree,
         ReduceDone, rec_reset_tree, ResetDone, Reroute

\* If the distance of a router never changes, no receiver is ever cut off from
\* the tree, whatever answers are lost, delayed, repeated or reordered and
\* however the paths change otherwise.  DiscoverySwap.cfg shows that the
\* assumption is needed.
THEOREM ReceiversKept == ASSUME HopStable PROVE Spec => []NoReceiverLost
<1>1. PICK hop \in [Router -> Nat] : ReportsHops(hop)
  BY DEF HopStable
<1>2. Init => Ordered(hop)
  BY InitOrdered
<1>3. Structure /\ Ordered(hop) /\ [Next]_vars => Ordered(hop)'
  BY <1>1, NextOrdered
<1>4. Structure /\ Ordered(hop) => NoReceiverLost
  BY OrderedReaches
<1>5. QED  BY <1>2, <1>3, <1>4, SpecStructure, PTL DEF Spec

\* README.md, "transmit any data ... to all group members via MEADcast or IP
\* Unicast": under the same assumption the published group always holds every
\* receiver, and none of them twice.
THEOREM ReceiversServed == ASSUME HopStable PROVE Spec => []EveryReceiverServed
<1>1. Init => EveryReceiverServed
  BY DEF Init, EveryReceiverServed, Running
<1>2. Structure /\ NoReceiverLost /\ EveryReceiverServed /\ [Next]_vars
         => EveryReceiverServed'
  BY NextServed
<1>3. QED  BY <1>1, <1>2, SpecStructure, ReceiversKept, PTL DEF Spec

-----------------------------------------------------------------------------
\* The routers a request to l passes and the sender can hear of under rt, and
\* what it means for a node to be l or on the way to it.
Passed(rt, l) ==
    {r \in Router : \E i \in 1 .. Len(rt[l]) : rt[l][i] = r /\ HopCount(i) >= 1}
On(rt, x, l) == x = l \/ x \in Passed(rt, l)

\* Everything that comes from answers agrees with the routing: the answers on their
\* way, the one in update_topo with the node get_path_pos stands at, and each
\* router that is a parent, which is on the way to whatever its child is on the
\* way to.
Placed(rt) ==
    /\ \A m \in net : m \in Answers(rt, m.l)
    /\ pc = "climb" => rx.r \in Passed(rt, rx.l) /\ On(rt, rx.n, rx.l)
    /\ \A x \in Leaf \cup Router, l \in Leaf :
          tree.parent[x] \in Router /\ On(rt, x, l) => On(rt, tree.parent[x], l)

\* On paths of at most HopMod routers the count of the routers that are heard of
\* is their position.
LEMMA HopPosition ==
    ASSUME NEW i \in Nat, 1 <= i, i <= HopMod
    PROVE  /\ HopCount(i) \in Nat
           /\ HopCount(i) >= 1 => HopCount(i) = i
<1>1. CASE i < HopMod
  BY <1>1, ParameterAssumption DEF HopCount
<1>2. CASE i = HopMod
  BY <1>2, ParameterAssumption DEF HopCount
<1>3. QED  BY <1>1, <1>2, ParameterAssumption

\* In a tree every router has one distance.
LEMMA TreeHops ==
    ASSUME NEW rt \in Routes, Routes = {rt}, TreeRoutes(rt)
    PROVE  \E hop \in [Router -> Nat] : ReportsHops(hop)
<1> DEFINE At(r, i) == \E l \in Leaf : i \in 1 .. Len(rt[l]) /\ rt[l][i] = r
           pos(r) == CHOOSE i \in Nat : At(r, i)
           hop == [r \in Router |-> IF \E i \in Nat : At(r, i) THEN HopCount(pos(r)) ELSE 0]
<1>1. \A i \in Nat : HopCount(i) \in Nat
  BY ParameterAssumption DEF HopCount
<1>2. \A r \in Router : (\E i \in Nat : At(r, i)) => pos(r) \in Nat /\ At(r, pos(r))
  OBVIOUS
<1>3. hop \in [Router -> Nat]
  BY <1>1, <1>2
<1>4. ReportsHops(hop)
  <2> SUFFICES ASSUME NEW l \in Leaf, NEW i \in 1 .. Len(rt[l]), rt[l][i] \in Router
               PROVE  hop[rt[l][i]] = HopCount(i)
    BY DEF ReportsHops
  <2>1. i \in Nat /\ At(rt[l][i], i)
    OBVIOUS
  <2>2. PICK j : j = pos(rt[l][i])
    OBVIOUS
  <2>3. At(rt[l][i], j)
    BY <1>2, <2>1, <2>2
  <2>4. j = i
    BY <2>3 DEF TreeRoutes
  <2>5. hop[rt[l][i]] = HopCount(pos(rt[l][i]))
    BY <2>1
  <2>6. QED  BY <2>2, <2>4, <2>5
<1>5. QED  BY <1>3, <1>4

\* What one request passes before a router, every request through it passes.
LEMMA SharedPath ==
    ASSUME NEW rt \in Routes, Routes = {rt}, TreeRoutes(rt),
           NEW hop \in [Router -> Nat], ReportsHops(hop),
           NEW l \in Leaf, NEW k \in Leaf,
           NEW r \in Passed(rt, l), r \in Passed(rt, k),
           NEW p \in Passed(rt, l), hop[p] <= hop[r]
    PROVE  p \in Passed(rt, k)
<1>0. r \in Router /\ p \in Router
  BY DEF Passed
<1>1. PICK i \in 1 .. Len(rt[l]) : rt[l][i] = r /\ HopCount(i) >= 1
  BY DEF Passed
<1>2. PICK j \in 1 .. Len(rt[k]) : rt[k][j] = r
  BY DEF Passed
<1>3. PICK g \in 1 .. Len(rt[l]) : rt[l][g] = p /\ HopCount(g) >= 1
  BY DEF Passed
<1>4. i \in Nat /\ g \in Nat /\ 1 <= i /\ i <= HopMod /\ 1 <= g /\ g <= HopMod
  <2>1. rt[l] \in Seq(Router \cup Leaf) /\ Len(rt[l]) <= HopMod
    BY RoutesAssumption DEF TreeRoutes
  <2>2. Len(rt[l]) \in Nat
    BY <2>1
  <2>3. QED  BY <2>1, <2>2, ParameterAssumption
<1>5. hop[r] = HopCount(i) /\ hop[p] = HopCount(g)
  BY <1>0, <1>1, <1>3 DEF ReportsHops
<1>6. hop[r] = i /\ hop[p] = g
  BY <1>1, <1>3, <1>4, <1>5, HopPosition
<1>7. g \in 1 .. i
  BY <1>4, <1>6
<1>8. i = j /\ rt[l][g] = rt[k][g]
  BY <1>0, <1>1, <1>2, <1>7 DEF TreeRoutes
<1>9. g \in 1 .. Len(rt[k])
  <2>1. rt[k] \in Seq(Router \cup Leaf)
    BY RoutesAssumption
  <2>2. Len(rt[k]) \in Nat
    BY <2>1
  <2>3. QED  BY <1>2, <1>4, <1>7, <1>8, <2>2
<1>10. QED  BY <1>0, <1>3, <1>8, <1>9 DEF Passed

\* update_topo puts a router between two nodes on the way to the receiver it
\* answered for, by their distances.
LEMMA UpdatePlaced ==
    ASSUME NEW rt \in Routes, Routes = {rt}, TreeRoutes(rt),
           NEW hop \in [Router -> Nat], ReportsHops(hop),
           Structure, Ordered(hop), Placed(rt), update_topo
    PROVE  Placed(rt)'
<1> DEFINE r == rx.r
           c == rx.n
           p == tree.parent[c]
<1>0. pc = "climb" /\ pc' = "loop" /\ net' = net
  BY DEF update_topo
<1>1. /\ r \in Router /\ r # c /\ rx.l \in Leaf /\ rx.h = hop[r] /\ hop[r] \in Nat
      /\ c \in Leaf \cup Router /\ p \in Hub /\ p # Null
  BY <1>0, RxFields, NodeFacts DEF Hub, Node, Ordered
<1>2. tree'.parent = [x \in Node |->
            IF x = c THEN r ELSE IF x = r /\ tree.parent[r] = Null THEN p
            ELSE tree.parent[x]]
  BY UpdateTree
<1>3. r \in Passed(rt, rx.l) /\ On(rt, c, rx.l)
  BY <1>0 DEF Placed
<1>4. c \in Router => hop[c] > hop[r]
  <2>1. c \in Router => tree.hops[c] = hop[c] /\ tree.hops[c] > rx.h
    BY <1>0, <1>1 DEF Structure, Climbing, Ordered
  <2>2. QED  BY <1>1, <2>1
<1>5. p \in Router => hop[p] <= hop[r]
  <2>1. p \in Router => tree.parent[p] # Null
    BY <1>1 DEF Structure, Table, DetachedEmpty
  <2>2. p \in Router => tree.hops[p] = hop[p]
    BY <2>1 DEF Ordered
  <2>3. QED  BY <1>1, <2>2 DEF update_topo
<1> HIDE DEF p
<1>6. ASSUME NEW l \in Leaf, On(rt, c, l) PROVE On(rt, r, l)
  <2>1. CASE c \in Leaf
    <3>1. c \notin Router
      BY <2>1, NodeFacts
    <3>2. c = rx.l /\ c = l
      BY <1>3, <1>6, <3>1 DEF On, Passed
    <3>3. QED  BY <1>3, <3>2 DEF On
  <2>2. CASE c \in Router
    <3>1. c \in Passed(rt, rx.l) /\ c \in Passed(rt, l)
      BY <1>1, <1>3, <1>6, <2>2, NodeFacts DEF On
    <3>2. hop[r] <= hop[c]
      BY <1>1, <1>4, <2>2
    <3>3. r \in Passed(rt, l)
      BY <1>1, <1>3, <3>1, <3>2, SharedPath
    <3>4. QED  BY <3>3 DEF On
  <2>3. QED  BY <1>1, <2>1, <2>2
<1>7. ASSUME NEW l \in Leaf, On(rt, r, l), p \in Router PROVE On(rt, p, l)
  <2>1. On(rt, p, rx.l)
    BY <1>1, <1>3, <1>7 DEF Placed, p
  <2>2. p \in Passed(rt, rx.l) /\ r \in Passed(rt, l)
    BY <1>1, <1>7, <2>1, NodeFacts DEF On
  <2>3. p \in Passed(rt, l)
    BY <1>1, <1>3, <1>5, <1>7, <2>2, SharedPath
  <2>4. QED  BY <2>3 DEF On
<1>8. ASSUME NEW x \in Leaf \cup Router, NEW l \in Leaf,
             tree'.parent[x] \in Router, On(rt, x, l)
      PROVE  On(rt, tree'.parent[x], l)
  <2>1. tree'.parent[x] = IF x = c THEN r ELSE IF x = r /\ tree.parent[r] = Null THEN p
                          ELSE tree.parent[x]
    BY <1>2 DEF Node
  <2>2. CASE x = c
    BY <1>6, <1>8, <2>1, <2>2
  <2>3. CASE x # c /\ x = r /\ tree.parent[r] = Null
    BY <1>7, <1>8, <2>1, <2>3
  <2>4. CASE x # c /\ ~(x = r /\ tree.parent[r] = Null)
    BY <1>8, <2>1, <2>4 DEF Placed
  <2>5. QED  BY <2>2, <2>3, <2>4
<1>9. QED  BY <1>0, <1>8 DEF Placed

\* cut_router and rec_reset_tree move nodes towards the root, along their path.
LEMMA CutPlaced ==
    ASSUME NEW rt \in Routes, Structure, Placed(rt), NEW r \in Router,
           reduce_tree(r) \/ rec_reset_tree(r)
    PROVE  Placed(rt)'
<1>1. tree \in Tree /\ Linked(tree)
  BY DEF Structure, TypeOK
<1>2. tree.parent[r] # Null /\ tree.parent[r] # r /\ Root \notin Router /\ Null \notin Router
  BY <1>1, ReachedAttached, NodeFacts DEF reduce_tree, rec_reset_tree, Node
<1>3. /\ pc # "climb" /\ UNCHANGED <<net, pc>>
      /\ \/ tree'.parent = tree.parent
         \/ \E q \in {tree.parent[r], Root} :
              tree'.parent = [x \in Node |-> IF x = r THEN Null
                                             ELSE IF tree.parent[x] = r THEN q
                                             ELSE tree.parent[x]]
  <2>1. CASE reduce_tree(r)
    <3>1. /\ pc = "reduce" /\ UNCHANGED <<net, pc>>
          /\ tree' = tree \/ tree' = cut_router(tree, r)
      BY <2>1 DEF reduce_tree
    <3>2. cut_router(tree, r).parent = [x \in Node |->
              IF x = r THEN Null
              ELSE IF tree.parent[x] = r THEN tree.parent[r] ELSE tree.parent[x]]
      BY <1>1, <1>2, Cut
    <3>3. QED  BY <3>1, <3>2
  <2>2. CASE rec_reset_tree(r)
    BY <1>1, <1>2, <2>2, ResetRouter DEF rec_reset_tree
  <2>3. QED  BY <2>1, <2>2
<1>4. CASE tree'.parent = tree.parent
  BY <1>3, <1>4 DEF Placed
<1>5. ASSUME NEW q \in {tree.parent[r], Root},
             tree'.parent = [x \in Node |-> IF x = r THEN Null
                                            ELSE IF tree.parent[x] = r THEN q
                                            ELSE tree.parent[x]]
      PROVE  Placed(rt)'
  <2>1. ASSUME NEW x \in Leaf \cup Router, NEW l \in Leaf,
               tree'.parent[x] \in Router, On(rt, x, l)
        PROVE  On(rt, tree'.parent[x], l)
    <3>1. tree'.parent[x] = IF x = r THEN Null ELSE IF tree.parent[x] = r THEN q
                            ELSE tree.parent[x]
      BY <1>5 DEF Node
    <3>2. x # r
      BY <1>2, <2>1, <3>1
    <3>3. CASE tree.parent[x] # r
      BY <2>1, <3>1, <3>2, <3>3 DEF Placed
    <3>4. CASE tree.parent[x] = r
      <4>1. tree'.parent[x] = tree.parent[r]
        BY <1>2, <2>1, <3>1, <3>2, <3>4
      <4>2. On(rt, r, l)
        BY <2>1, <3>4 DEF Placed
      <4>3. QED  BY <2>1, <4>1, <4>2 DEF Placed
    <3>5. QED  BY <3>3, <3>4
  <2>2. QED  BY <1>3, <2>1 DEF Placed
<1>6. QED  BY <1>3, <1>4, <1>5

\* tint_handler sends for the routing, join and the end of a phase put leafs below
\* the root, and the walk follows the parents.
LEMMA WalkPlaced ==
    ASSUME NEW rt \in Routes, Routes = {rt}, Structure, Placed(rt),
           \/ \E l \in Leaf : Join(l)
           \/ tint_handler \/ get_path_pos
           \/ \E m \in net : rx_dcvr(m)
    PROVE  Placed(rt)'
<1>1. ASSUME NEW l \in Leaf, Join(l) PROVE Placed(rt)'
  <2>1. tree \in Tree /\ Root \in Hub /\ Root \notin Router /\ tree.parent[l] = Null /\ Linked(tree)
    BY <1>1, NodeFacts DEF Structure, TypeOK, Table, Join, Hub
  <2>2. tree'.parent = [tree.parent EXCEPT ![l] = Root]
    BY <1>1, <2>1, AddChild DEF Join, create_leaf
  <2>3. \A x \in Leaf \cup Router : tree'.parent[x] = IF x = l THEN Root ELSE tree.parent[x]
    BY <2>1, <2>2 DEF Tree, Node
  <2>4. pc' = pc /\ net' = net /\ rx' = rx
    BY <1>1 DEF Join
  <2>5. QED  BY <2>1, <2>3, <2>4 DEF Placed
<1>2. CASE tint_handler
  <2>1. route = rt /\ tree' = tree /\ pc' = "loop"
    BY <1>2 DEF Structure, TypeOK, tint_handler
  <2>2. ASSUME NEW m \in net' PROVE m \in Answers(rt, m.l)
    <3>1. CASE m \in net
      BY <3>1 DEF Placed
    <3>2. CASE m \notin net
      <4>1. PICK l \in Leaf : m \in Answers(rt, l)
        BY <1>2, <2>1, <3>2 DEF tint_handler, send_dcvr
      <4>2. m.l = l
        BY <4>1 DEF Answers
      <4>3. QED  BY <4>1, <4>2
    <3>3. QED  BY <3>1, <3>2
  <2>3. QED  BY <2>1, <2>2 DEF Placed
<1>3. CASE get_path_pos
  <2>1. /\ pc = "climb" /\ tree' = tree /\ net' = net /\ pc' = pc
        /\ rx' = [rx EXCEPT !.n = tree.parent[rx.n]]
    BY <1>3 DEF get_path_pos
  <2>2. /\ rx \in RxType /\ rx.n \in Leaf \cup Router /\ rx.l \in Leaf
        /\ tree.parent[rx.n] \in Hub
    BY <2>1, RxFields
  <2>3. tree.parent[rx.n] \in Router
    BY <1>3, <2>1, <2>2 DEF get_path_pos, Structure, RxType, Hub
  <2>4. rx'.r = rx.r /\ rx'.l = rx.l /\ rx'.n = tree.parent[rx.n]
    BY <2>1, <2>2 DEF RxType
  <2>5. On(rt, tree.parent[rx.n], rx.l)
    BY <2>1, <2>2, <2>3 DEF Placed
  <2>6. QED  BY <2>1, <2>4, <2>5 DEF Placed
<1>4. ASSUME NEW m \in net, rx_dcvr(m) PROVE Placed(rt)'
  <2>1. m.r \in Router /\ m.l \in Leaf /\ m.h \in Nat /\ m.h >= 1
    BY <1>4, ParameterAssumption, NodeFacts
       DEF Structure, TypeOK, Table, Running, Answer, rx_dcvr, Accepts
  <2>2. tree'.parent = tree.parent
    <3>1. CASE m.r \in ht
      <4>1. tree \in Tree /\ m.r \in Hub /\ tree' = set_hops(tree, m.r, m.h)
        BY <1>4, <2>1, <3>1 DEF Structure, TypeOK, rx_dcvr, Hub
      <4>2. QED  BY <2>1, <4>1, SetHops
    <3>2. CASE m.r \notin ht
      BY <1>4, <3>2 DEF rx_dcvr
    <3>3. QED  BY <3>1, <3>2
  <2>3. PICK i \in 1 .. Len(rt[m.l]) : m = [r |-> rt[m.l][i], l |-> m.l, h |-> HopCount(i)]
    BY DEF Placed, Answers
  <2>4. m.r = rt[m.l][i] /\ m.h = HopCount(i)
    BY <2>3
  <2>5. m.r \in Passed(rt, m.l)
    BY <2>1, <2>4 DEF Passed
  <2>6. rx'.r = m.r /\ rx'.l = m.l /\ rx'.n = m.l /\ net' = net
    BY <1>4 DEF rx_dcvr
  <2>7. QED  BY <2>2, <2>5, <2>6 DEF Placed, On
<1>5. QED  BY <1>1, <1>2, <1>3, <1>4

\* Placed is inductive, next to Structure and Ordered.
LEMMA NextPlaced ==
    ASSUME NEW rt \in Routes, Routes = {rt}, TreeRoutes(rt),
           NEW hop \in [Router -> Nat], ReportsHops(hop)
    PROVE  Structure /\ Ordered(hop) /\ Placed(rt) /\ [Next]_vars => Placed(rt)'
<1> SUFFICES ASSUME Structure, Ordered(hop), Placed(rt), [Next]_vars PROVE Placed(rt)'
  OBVIOUS
<1>1. CASE \/ \E l \in Leaf : Join(l)
           \/ tint_handler \/ get_path_pos
           \/ \E m \in net : rx_dcvr(m)
  BY <1>1, WalkPlaced
<1>2. CASE update_topo
  BY <1>2, UpdatePlaced
<1>3. ASSUME NEW r \in Router, reduce_tree(r) \/ rec_reset_tree(r) PROVE Placed(rt)'
  BY <1>3, CutPlaced
<1>4. CASE greedy_grouping \/ ResetDone
  <2>1. tree'.parent = tree.parent
    BY <1>4 DEF Structure, TypeOK, Tree, greedy_grouping, ResetDone, reset_root
  <2>2. QED  BY <1>4, <2>1 DEF Placed, greedy_grouping, ResetDone
<1>5. CASE UNCHANGED <<tree, net>> /\ (pc' # "climb" \/ UNCHANGED <<pc, rx>>)
  BY <1>5 DEF Placed
<1>6. QED
  BY <1>1, <1>2, <1>3, <1>4, <1>5
     DEF Next, Work, vars, JoinTwice, Exited, Start, rx_rejected, tout_handler,
         ReduceDone, Reroute

\* Above a receiver there are only routers on the way to it.
LEMMA PlacedSound ==
    ASSUME NEW rt \in Routes, Routes = {rt}, Structure, Placed(rt)
    PROVE  Sound
<1> SUFFICES ASSUME Running, NEW l \in Leaf, NEW r \in Ancestors(tree, l)
             PROVE  \E m \in Answers(route, l) : m.r = r /\ Accepts(m)
  BY DEF Sound, Hearable
<1> DEFINE S == Passed(rt, l) \cup {Root}
<1>1. tree \in Tree /\ tree.parent[Root] = Null /\ route = rt /\ l \in ht
  BY DEF Structure, TypeOK, Linked, Table
<1>2. S \in SUBSET Node
  BY DEF Passed, Node
<1>3. ASSUME NEW x \in Leaf \cup Router, On(rt, x, l)
      PROVE  tree.parent[x] \in S \cup {Null}
  <2>1. CASE tree.parent[x] \in Router
    <3>1. On(rt, tree.parent[x], l)
      BY <1>3, <2>1 DEF Placed
    <3>2. QED  BY <2>1, <3>1, NodeFacts DEF On
  <2>2. CASE tree.parent[x] \notin Router
    BY <1>1, <2>2 DEF Tree, Hub, Node
  <2>3. QED  BY <2>1, <2>2
<1>4. tree.parent[l] \in S \cup {Null}
  BY <1>3 DEF On
<1>5. \A y \in S : tree.parent[y] \in S \cup {Null}
  BY <1>1, <1>3 DEF On, Passed
<1>6. r \in S /\ r \in Router
  BY <1>2, <1>4, <1>5 DEF Ancestors
<1>7. PICK i \in 1 .. Len(rt[l]) : rt[l][i] = r /\ HopCount(i) >= 1
  BY <1>6, NodeFacts DEF Passed
<1>8. PICK m : m = [r |-> rt[l][i], l |-> l, h |-> HopCount(i)]
  OBVIOUS
<1>9. m \in Answers(route, l) /\ m.r = r /\ m.l = l /\ m.h >= 1
  BY <1>1, <1>7, <1>8 DEF Answers
<1>10. QED  BY <1>1, <1>6, <1>9 DEF Accepts

\* While the network keeps one tree-like routing no receiver is ever placed below a
\* router that its packets do not pass, whatever answers are lost, late or
\* repeated, and whatever reduce_tree has taken out of the tree.
THEOREM PlacedOnPath == ASSUME TreeLike PROVE Spec => []Sound
<1>1. PICK rt \in Routes : Routes = {rt} /\ TreeRoutes(rt)
  BY DEF TreeLike
<1>2. PICK hop \in [Router -> Nat] : ReportsHops(hop)
  BY <1>1, TreeHops
<1>3. Init => Ordered(hop)
  BY InitOrdered
<1>4. Structure /\ Ordered(hop) /\ [Next]_vars => Ordered(hop)'
  BY <1>2, NextOrdered
<1>5. Init => Placed(rt)
  BY NodeFacts DEF Init, init_group, Placed, Node
<1>6. Structure /\ Ordered(hop) /\ Placed(rt) /\ [Next]_vars => Placed(rt)'
  BY <1>1, <1>2, NextPlaced
<1>7. Structure /\ Placed(rt) => Sound
  BY <1>1, PlacedSound
<1>8. QED  BY <1>3, <1>4, <1>5, <1>6, <1>7, SpecStructure, PTL DEF Spec

-----------------------------------------------------------------------------
\* DiscoveryHistory: the answers update_topo has applied since the last reset.

\* The parent of l is the most distant of the routers heard for it, or the root.
DeepestHeard(l) ==
    \/ tree.parent[l] = Root /\ \A k \in heard : k.l # l
    \/ \E m \in heard : /\ m.l = l
                        /\ tree.parent[l] = m.r
                        /\ \A k \in heard : k.l = l => k.h <= m.h

\* In update_topo get_path_pos has left the receiver only if the parent of the
\* receiver is further away than the router that answered.
Deepest(hop) ==
    /\ heard \subseteq [r : Router, l : Leaf, h : Nat]
    /\ \A m \in heard : m.h = hop[m.r]
    /\ pc = "startup" => heard = {} /\ \A l \in Leaf : tree.parent[l] \in {Root, Null}
    /\ pc \in {"loop", "climb"} => \A l \in Leaf : DeepestHeard(l)
    /\ pc = "climb" =>
          \/ rx.n = rx.l
          \/ /\ rx.n \in Router
             /\ tree.parent[rx.l] \in Router
             /\ hop[tree.parent[rx.l]] > rx.h

\* The history variable adds no behaviour.
LEMMA HistorySteps ==
    /\ HInit => Init
    /\ [HNext]_<<vars, heard>> => [Next]_vars
BY DEF HInit, HNext

\* A parent in the tree has the distance it reported.
LEMMA ParentHops ==
    ASSUME NEW hop \in [Router -> Nat], Structure, Ordered(hop),
           NEW x \in Leaf \cup Router, tree.parent[x] \in Router
    PROVE  tree.hops[tree.parent[x]] = hop[tree.parent[x]]
<1>1. tree.parent[tree.parent[x]] # Null
  BY DEF Structure, Table, DetachedEmpty
<1>2. QED  BY <1>1 DEF Ordered

\* Start up: a receiver that is in the tree is below the root.
LEMMA JoinDeepest ==
    ASSUME NEW hop \in [Router -> Nat], Structure, Deepest(hop),
           heard' = heard, (\E l \in Leaf : Join(l)) \/ Start
    PROVE  Deepest(hop)'
<1>1. ASSUME NEW l \in Leaf, Join(l) PROVE Deepest(hop)'
  <2>1. tree \in Tree /\ Root \in Hub /\ tree.parent[l] = Null /\ Linked(tree)
    BY <1>1 DEF Structure, TypeOK, Table, Join, Hub
  <2>2. tree'.parent = [tree.parent EXCEPT ![l] = Root]
    BY <1>1, <2>1, AddChild DEF Join, create_leaf
  <2>3. \A x \in Leaf : tree'.parent[x] = IF x = l THEN Root ELSE tree.parent[x]
    BY <2>1, <2>2 DEF Tree, Node
  <2>4. pc' = "startup" /\ pc = "startup"
    BY <1>1 DEF Join
  <2>5. QED  BY <2>3, <2>4 DEF Deepest
<1>2. CASE Start
  <2>1. pc = "startup" /\ pc' = "loop" /\ tree' = tree /\ Leaf \subseteq ht
    BY <1>2 DEF Start
  <2>2. \A l \in Leaf : tree.parent[l] = Root
    BY <2>1 DEF Deepest, Structure, Table
  <2>3. heard = {}
    BY <2>1 DEF Deepest
  <2>4. QED  BY <2>1, <2>2, <2>3 DEF Deepest, DeepestHeard
<1>3. QED  BY <1>1, <1>2

\* An answer starts at its receiver, and get_path_pos leaves it only for a parent
\* that is further away.
LEMMA WalkDeepest ==
    ASSUME NEW hop \in [Router -> Nat], Structure, Ordered(hop), Deepest(hop),
           heard' = heard, (\E m \in net : rx_dcvr(m)) \/ get_path_pos
    PROVE  Deepest(hop)'
<1>1. ASSUME NEW m \in net, rx_dcvr(m) PROVE Deepest(hop)'
  <2>1. m.h \in Nat /\ (m.r \in ht => m.r \in Hub) /\ tree \in Tree
    BY <1>1, ParameterAssumption DEF Structure, TypeOK, Answer, rx_dcvr, Accepts, Hub
  <2>2. tree'.parent = tree.parent
    <3>1. CASE m.r \in ht
      <4>1. tree' = set_hops(tree, m.r, m.h)
        BY <1>1, <3>1 DEF rx_dcvr
      <4>2. QED  BY <2>1, <3>1, <4>1, SetHops
    <3>2. CASE m.r \notin ht
      BY <1>1, <3>2 DEF rx_dcvr
    <3>3. QED  BY <3>1, <3>2
  <2>3. pc = "loop" /\ pc' = "climb" /\ rx'.n = m.l /\ rx'.l = m.l
    BY <1>1 DEF rx_dcvr
  <2>4. QED  BY <2>2, <2>3 DEF Deepest, DeepestHeard
<1>2. CASE get_path_pos
  <2>1. /\ pc = "climb" /\ tree' = tree /\ pc' = pc
        /\ tree.hops[tree.parent[rx.n]] > rx.h
        /\ rx' = [rx EXCEPT !.n = tree.parent[rx.n]]
    BY <1>2 DEF get_path_pos
  <2>2. /\ rx \in RxType /\ rx.n \in Leaf \cup Router /\ rx.l \in Leaf
        /\ rx.h \in Nat /\ tree.parent[rx.n] \in Hub
    BY <2>1, RxFields
  <2>3. tree.parent[rx.n] \in Router
    BY <2>1, <2>2 DEF Structure, Hub
  <2>4. rx'.l = rx.l /\ rx'.h = rx.h /\ rx'.n = tree.parent[rx.n]
    BY <2>1, <2>2 DEF RxType
  <2>5. hop[tree.parent[rx.n]] > rx.h
    BY <2>1, <2>2, <2>3, ParentHops
  <2>6. tree.parent[rx.l] \in Router /\ hop[tree.parent[rx.l]] > rx.h
    BY <2>1, <2>3, <2>5 DEF Deepest
  <2>7. QED  BY <2>1, <2>3, <2>4, <2>6 DEF Deepest, DeepestHeard
<1>3. QED  BY <1>1, <1>2

\* update_topo gives the receiver to the router that answered, if that is the most
\* distant one so far, and leaves it where it is otherwise.
LEMMA UpdateDeepest ==
    ASSUME NEW hop \in [Router -> Nat], Structure, Ordered(hop), Deepest(hop),
           update_topo, heard' = heard \cup {[r |-> rx.r, l |-> rx.l, h |-> rx.h]}
    PROVE  Deepest(hop)'
<1>1. /\ pc = "climb" /\ pc' = "loop"
      /\ tree.hops[tree.parent[rx.n]] <= rx.h
  BY DEF update_topo
<1>2. /\ rx.r \in Router /\ rx.l \in Leaf /\ rx.n \in Leaf \cup Router
      /\ rx.h \in Nat /\ tree.parent[rx.n] \in Hub /\ rx.h = hop[rx.r]
  BY <1>1, RxFields DEF Ordered
<1>3. PICK m : m = [r |-> rx.r, l |-> rx.l, h |-> rx.h]
  OBVIOUS
<1>4. /\ m \in [r : Router, l : Leaf, h : Nat] /\ heard' = heard \cup {m}
      /\ m.r = rx.r /\ m.l = rx.l /\ m.h = rx.h
  BY <1>2, <1>3
<1>5. tree'.parent = [x \in Node |->
                 IF x = rx.n THEN rx.r
                 ELSE IF x = rx.r /\ tree.parent[rx.r] = Null THEN tree.parent[rx.n]
                 ELSE tree.parent[x]]
  BY UpdateTree
<1>6. \A l \in Leaf : tree'.parent[l] = IF l = rx.n THEN rx.r ELSE tree.parent[l]
  BY <1>2, <1>5, NodeFacts DEF Node
<1>7. \/ rx.n = rx.l
      \/ rx.n \in Router /\ tree.parent[rx.l] \in Router /\ hop[tree.parent[rx.l]] > rx.h
  BY <1>1 DEF Deepest
<1>8. \A k \in heard : k.h \in Nat /\ k.r \in Router /\ k.h = hop[k.r]
  BY DEF Deepest
<1>9. ASSUME NEW l \in Leaf PROVE DeepestHeard(l)'
  <2>0. DeepestHeard(l)
    BY <1>1 DEF Deepest
  <2>1. CASE l # rx.l
    <3>1. l # rx.n
      BY <1>7, <2>1, NodeFacts
    <3>2. tree'.parent[l] = tree.parent[l]
      BY <1>6, <3>1
    <3>3. QED  BY <1>4, <2>0, <2>1, <3>2 DEF DeepestHeard
  <2>2. CASE l = rx.l /\ rx.n = rx.l
    <3>1. tree'.parent[l] = m.r
      BY <1>4, <1>6, <2>2
    <3>2. ASSUME NEW k \in heard, k.l = l PROVE k.h <= m.h
      <4>1. PICK j \in heard : tree.parent[l] = j.r /\ k.h <= j.h
        BY <2>0, <3>2 DEF DeepestHeard
      <4>2. tree.hops[j.r] = hop[j.r]
        BY <1>8, <4>1, ParentHops
      <4>3. j.h <= rx.h
        BY <1>1, <1>8, <2>2, <4>1, <4>2
      <4>4. QED  BY <1>2, <1>4, <1>8, <4>1, <4>3
    <3>3. m.h <= m.h
      BY <1>2, <1>4
    <3>4. QED  BY <1>4, <2>2, <3>1, <3>2, <3>3 DEF DeepestHeard
  <2>3. CASE l = rx.l /\ rx.n # rx.l
    <3>1. rx.n \in Router /\ tree.parent[l] \in Router /\ hop[tree.parent[l]] > rx.h
      BY <1>7, <2>3
    <3>2. tree'.parent[l] = tree.parent[l]
      BY <1>6, <2>3
    <3>3. PICK j \in heard : /\ j.l = l /\ tree.parent[l] = j.r
                             /\ \A k \in heard : k.l = l => k.h <= j.h
      BY <2>0, <3>1, NodeFacts DEF DeepestHeard
    <3>4. m.h <= j.h
      BY <1>2, <1>4, <1>8, <3>1, <3>3
    <3>5. QED  BY <1>4, <3>2, <3>3, <3>4 DEF DeepestHeard
  <2>4. QED  BY <2>1, <2>2, <2>3
<1>10. QED  BY <1>1, <1>2, <1>4, <1>9 DEF Deepest

\* rec_reset_tree leaves every receiver below the root.
LEMMA ResetDeepest ==
    ASSUME NEW hop \in [Router -> Nat], Structure, Ordered(hop), ResetDone, heard' = {}
    PROVE  Deepest(hop)'
<1>1. tree \in Tree /\ Linked(tree) /\ Acyclic(tree) /\ child(tree, Root) = {}
      /\ pc = "reset" /\ pc' = "loop"
  BY DEF Structure, TypeOK, Ordered, ResetDone
<1>2. tree'.parent = tree.parent
  BY <1>1 DEF Tree, ResetDone, reset_root
<1>3. \A r \in Router : tree.parent[r] = Null => child(tree, r) = {} /\ leaf(tree, r) = {}
  BY <1>1 DEF Structure, Table, DetachedEmpty, Linked, Hub
<1>4. \A x \in Leaf \cup Router : tree.parent[x] # Null => x \in Reach(tree)
  BY <1>1, <1>3, AllReached
<1>5. Reach(tree) \cap Hub = {Root}
  BY <1>1, RootAlone
<1>6. ASSUME NEW l \in Leaf PROVE tree.parent[l] = Root
  <2>1. tree.parent[l] \in Hub
    BY <1>1 DEF Structure, Table, Running, Tree, Node
  <2>2. CASE tree.parent[l] \in Router
    <3>1. tree.parent[tree.parent[l]] # Null
      BY <2>2 DEF Structure, Table, DetachedEmpty
    <3>2. tree.parent[l] \in Reach(tree)
      BY <1>4, <2>2, <3>1
    <3>3. QED  BY <1>5, <2>1, <2>2, <3>2, NodeFacts
  <2>3. QED  BY <2>1, <2>2 DEF Hub
<1>7. QED  BY <1>1, <1>2, <1>6 DEF Deepest, DeepestHeard

\* Deepest is inductive, next to Structure and Ordered.
LEMMA NextDeepest ==
    ASSUME NEW hop \in [Router -> Nat]
    PROVE  Structure /\ Ordered(hop) /\ Deepest(hop) /\ [HNext]_<<vars, heard>> => Deepest(hop)'
<1> SUFFICES ASSUME Structure, Ordered(hop), Deepest(hop), [HNext]_<<vars, heard>>
             PROVE  Deepest(hop)'
  OBVIOUS
<1>1. CASE UNCHANGED <<vars, heard>>
  BY <1>1 DEF Deepest, DeepestHeard, vars
<1>2. CASE HNext
  <2>1. Next /\ heard' = IF pc = "climb" /\ pc' = "loop"
                         THEN heard \cup {[r |-> rx.r, l |-> rx.l, h |-> rx.h]}
                         ELSE IF pc = "reset" /\ pc' = "loop" THEN {} ELSE heard
    BY <1>2 DEF HNext
  <2>2. CASE (\E l \in Leaf : Join(l)) \/ Start
    <3>1. heard' = heard
      BY <2>1, <2>2 DEF Join, Start
    <3>2. QED  BY <2>2, <3>1, JoinDeepest
  <2>3. CASE (\E m \in net : rx_dcvr(m)) \/ get_path_pos
    <3>1. heard' = heard
      BY <2>1, <2>3 DEF rx_dcvr, get_path_pos
    <3>2. QED  BY <2>3, <3>1, WalkDeepest
  <2>4. CASE update_topo
    <3>1. heard' = heard \cup {[r |-> rx.r, l |-> rx.l, h |-> rx.h]}
      BY <2>1, <2>4 DEF update_topo
    <3>2. QED  BY <2>4, <3>1, UpdateDeepest
  <2>5. CASE ResetDone
    <3>1. heard' = {}
      BY <2>1, <2>5 DEF ResetDone
    <3>2. QED  BY <2>5, <3>1, ResetDeepest
  <2>6. CASE pc' \in {"exit", "reduce", "group", "reset"}
    BY <2>1, <2>6 DEF Deepest
  <2>7. CASE UNCHANGED <<tree, pc, rx>>
    BY <2>1, <2>7 DEF Deepest, DeepestHeard
  <2>8. QED
    BY <2>1, <2>2, <2>3, <2>4, <2>5, <2>6, <2>7
       DEF Next, Work, vars, JoinTwice, Exited, rx_rejected, tint_handler, tout_handler,
           reduce_tree, ReduceDone, greedy_grouping, rec_reset_tree, Reroute
<1>3. QED  BY <1>1, <1>2

\* Wherever answers overtake each other or are repeated, the tree ends up with each
\* receiver below the most distant router that answered for it, if the distance of
\* a router never changes; the paths may.
THEOREM ReceiversAtDeepest == ASSUME HopStable PROVE HSpec => []AttachedToDeepest
<1>1. PICK hop \in [Router -> Nat] : ReportsHops(hop)
  BY DEF HopStable
<1>2. HInit => Structure /\ Ordered(hop)
  BY HistorySteps, InitStructure, InitOrdered
<1>3. Structure /\ Ordered(hop) /\ [HNext]_<<vars, heard>> => (Structure /\ Ordered(hop))'
  BY <1>1, HistorySteps, NextStructure, NextOrdered
<1>4. HInit => Deepest(hop)
  BY DEF HInit, Init, init_group, Deepest, Node
<1>5. Structure /\ Ordered(hop) /\ Deepest(hop) /\ [HNext]_<<vars, heard>> => Deepest(hop)'
  BY NextDeepest
<1>6. Deepest(hop) => AttachedToDeepest
  <2> SUFFICES ASSUME Deepest(hop), pc = "loop", NEW l \in Leaf
               PROVE  LET H == {m \in heard : m.l = l}
                      IN  IF H = {} THEN tree.parent[l] = Root
                          ELSE \E m \in H : /\ tree.parent[l] = m.r
                                            /\ \A k \in H : k.h <= m.h
    BY DEF AttachedToDeepest
  <2>1. DeepestHeard(l)
    BY DEF Deepest
  <2>2. QED  BY <2>1 DEF DeepestHeard
<1>7. QED  BY <1>2, <1>3, <1>4, <1>5, <1>6, PTL DEF HSpec
=============================================================================
