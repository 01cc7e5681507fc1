---------------------------- MODULE ReceiverPacking ----------------------------
(***************************************************************************)
(* What greedy_grouping promises to tout_handler, without a tree: all       *)
(* receivers end up in packets or in the unicast list, each of them once.   *)
(***************************************************************************)
EXTENDS Naturals, Sequences, FiniteSets

VARIABLES direct,    \* receivers without a router: these get unicast
          limit,     \* addresses in a packet, at most
          todo,      \* receivers not yet served
          packets,   \* the receivers of each packet, by place, the latest first
          unicast

vars == <<direct, limit, todo, packets, unicast>>

Init ==
    /\ direct \subseteq todo
    /\ packets = << >>
    /\ unicast = {}

\* A packet of receivers, none of them served before or twice, and its address
\* list has room for a router.
Pack ==
    /\ packets' # << >> /\ Tail(packets') = packets
    /\ LET q == Head(packets')
           S == {q[i] : i \in DOMAIN q}
       IN  /\ Cardinality(DOMAIN q) \in 1 .. limit - 1
           /\ S \subseteq todo \ direct
           /\ \A i, j \in DOMAIN q : q[i] = q[j] => i = j
           /\ todo' = todo \ S
    /\ UNCHANGED <<direct, limit, unicast>>

Rest ==
    /\ todo = direct
    /\ todo # {}
    /\ unicast' = direct
    /\ todo' = {}
    /\ UNCHANGED <<direct, limit, packets>>

\* Everyone is served in the end.
Spec == Init /\ [][Pack \/ Rest]_vars /\ <>[](todo = {})
=============================================================================
