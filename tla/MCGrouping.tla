------------------------------ MODULE MCGrouping ------------------------------
(***************************************************************************)
(* Small instances of Grouping: all ordered trees of four routers, with     *)
(* distances that grow by one or two, or by nothing between some routers,   *)
(* and a few receivers.                                                     *)
(***************************************************************************)
EXTENDS Grouping

CONSTANT MaxLeafs    \* receivers, in all, next to one at the root

Routers == 1 .. 4

\* Routers are numbered in preorder, so there is one function for each shape.
Shapes ==
    {f \in [1 .. 4 -> 0 .. 3] :
        /\ \A i \in 1 .. 4 : f[i] < i
        /\ \A i \in 2 .. 4, j \in 2 .. 4 : (j < i /\ f[i] < j) => f[j] >= f[i]}

Distance(f, step) ==
    LET d[i \in 0 .. 4] == IF i = 0 THEN 0 ELSE d[f[i]] + step[i] IN d

\* No router has the distance of the root.
Steps(f) ==
    [1 .. 4 -> 1 .. 2] \cup {d \in [1 .. 4 -> 0 .. 1] : \A i \in 1 .. 4 : f[i] = 0 => d[i] = 1}

Childs(f) ==
    [q \in 0 .. 4 |->
        LET C == {i \in 1 .. 4 : f[i] = q}
        IN  [k \in 1 .. Cardinality(C) |->
                CHOOSE i \in C : Cardinality({j \in C : j < i}) = k - 1]]

\* Every router at the end of a branch has a leaf.
TreesOf(f) ==
    LET child == Childs(f)
        Counts == {g \in [0 .. 4 -> 0 .. 3] :
                      /\ g[0] = 1 /\ g[1] + g[2] + g[3] + g[4] <= MaxLeafs
                      /\ \A i \in 1 .. 4 : g[i] > 0 \/ child[i] # << >>}
    IN  {[parent |-> f, hops |-> Distance(f, step), child |-> child, nleaf |-> n] :
            step \in Steps(f), n \in Counts}

SmallTrees == UNION {TreesOf(f) : f \in Shapes}

\* Four routers side by side, one of them with more receivers than the bitmap
\* has bits.
WideTree ==
    LET f == [i \in 1 .. 4 |-> 0]
    IN  [parent |-> f, hops |-> Distance(f, [i \in 1 .. 4 |-> 1]), child |-> Childs(f),
         nleaf |-> [i \in 0 .. 4 |-> IF i = 2 THEN BITMAP_LIMIT + 1 ELSE 1]]

TestTrees == SmallTrees \cup {WideTree}

Options(max, ok, split, range) ==
    [max_addrs |-> max, ok_addrs |-> ok, split_nodes |-> split, merge_range |-> range]

SmallArgs ==
    {Options(2, 2, FALSE, 0), Options(4, 4, FALSE, 0), Options(4, 4, TRUE, 1),
     Options(5, 5, FALSE, 2), Options(6, 6, FALSE, 1), Options(6, 4, TRUE, 2),
     Options(40, 40, FALSE, 0)}
=============================================================================
