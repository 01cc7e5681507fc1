------------------------------ MODULE MCDataPlane ------------------------------
(***************************************************************************)
(* A small instance of DataPlane: B and C behind A, and N, a router without *)
(* MEADcast, between A and C.                                               *)
(***************************************************************************)
EXTENDS DataPlane, TLC

CONSTANTS l1, l2, l3, l4, A, B, C, N

Hops(a, b, c, n, s) ==
    Sender :> s @@ A :> a @@ B :> b @@ C :> c @@ N :> n

ToAll(f1, f2, f3, f4) == l1 :> f1 @@ l2 :> f2 @@ l3 :> f3 @@ l4 :> f4

\* l1 and l2 are behind B, l3 behind C, l4 behind N.
Normal ==
    Hops(ToAll(B, B, N, N), ToAll(l1, l2, A, A), ToAll(N, N, l3, N),
         ToAll(A, A, C, l4), ToAll(A, A, A, A))

\* l2 and l3 have both moved behind N.
Moved ==
    Hops(ToAll(B, N, N, N), ToAll(l1, A, A, A), ToAll(N, N, N, N),
         ToAll(A, l2, l3, l4), ToAll(A, A, A, A))

TwoRoutings == {Normal, Moved}

Hdr(s) == [addrs |-> s, rtm |-> {i \in 0 .. Len(s) - 1 : s[i + 1] \in Router}]

\* Before the first discovery, and what grouping may make of the tree with
\* different options: sections side by side, merged, in two headers.
TestGroups ==
    {[mdc |-> << >>, uni |-> <<l1, l2, l3, l4>>],
     [mdc |-> <<Hdr(<<A, l4, B, l1, l2, C, l3>>)>>, uni |-> << >>],
     [mdc |-> <<Hdr(<<A, l1, l3, l2>>)>>, uni |-> <<l4>>],
     [mdc |-> <<Hdr(<<C, l3>>), Hdr(<<B, l1, l2>>)>>, uni |-> <<l4>>]}

\* The default, and routers that convert small sections early.
TestMinDsts ==
    {A :> 1 @@ B :> 1 @@ C :> 1 @@ N :> 1, A :> 3 @@ B :> 0 @@ C :> 2 @@ N :> 1}
=============================================================================
