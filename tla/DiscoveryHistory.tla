---------------------------- MODULE DiscoveryHistory ----------------------------
(***************************************************************************)
(* Discovery with a history variable: the answers update_topo has applied   *)
(* since the tree was last reset.  It changes no step of Discovery; the     *)
(* properties here relate the tree to the answers it was built from.        *)
(***************************************************************************)
EXTENDS Discovery

VARIABLE heard

HInit == Init /\ heard = {}

HNext ==
    /\ Next
    /\ heard' = IF pc = "climb" /\ pc' = "loop"      \* update_topo
                THEN heard \cup {[r |-> rx.r, l |-> rx.l, h |-> rx.h]}
                ELSE IF pc = "reset" /\ pc' = "loop" \* ResetDone
                     THEN {}
                     ELSE heard

HSpec == HInit /\ [][HNext]_<<vars, heard>>

\* The parent of a receiver is the most distant of the routers that answered
\* for it in this phase, whatever order the answers came in: no answer from
\* closer by takes the receiver away from its last router.
AttachedToDeepest ==
    pc = "loop" =>
        \A l \in Leaf :
            LET H == {m \in heard : m.l = l}
            IN  IF H = {} THEN tree.parent[l] = Root
                ELSE \E m \in H : /\ tree.parent[l] = m.r
                                  /\ \A k \in H : k.h <= m.h
=============================================================================
