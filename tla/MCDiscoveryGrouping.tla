-------------------------- MODULE MCDiscoveryGrouping --------------------------
(***************************************************************************)
(* Small instances of DiscoveryGrouping.                                    *)
(***************************************************************************)
EXTENDS DiscoveryGrouping, TLC

CONSTANTS l1, l2, A, B, C

\* l1 moves from behind B to behind C, which is as far away; A is closer than both.
Moving == {l1 :> <<A, B>> @@ l2 :> <<A, C>>, l1 :> <<A, C>> @@ l2 :> <<A, C>>}

Setting(max, ok, split, range) ==
    [max_addrs |-> max, ok_addrs |-> ok, split_nodes |-> split, merge_range |-> range]

\* Headers of two sections, and merged ones.
MovingArgs == {Setting(5, 4, FALSE, 0), Setting(10, 8, FALSE, 1)}
=============================================================================
