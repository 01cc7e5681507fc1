-------------------------------- MODULE Nodes --------------------------------
(***************************************************************************)
(* The routers of the topology tree (tree.h), as Topology and Grouping both *)
(* know them.                                                               *)
(***************************************************************************)
EXTENDS FiniteSets

CONSTANTS Router,   \* routers that may answer a discovery request
          Root,     \* the sender itself, the root of the tree
          Null      \* the NULL pointer

Hub == Router \cup {Root}          \* the nodes of type ROUTER_NODE

ASSUME RouterAssumption == IsFiniteSet(Router) /\ Root \notin Router /\ Null \notin Hub
=============================================================================
