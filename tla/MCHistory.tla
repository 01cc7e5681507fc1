------------------------------- MODULE MCHistory -------------------------------
(***************************************************************************)
(* A small instance of DiscoveryHistory under one tree-like routing.        *)
(***************************************************************************)
EXTENDS DiscoveryHistory, TLC

CONSTANTS l1, l2, l3, A, B, C, D

\* One tree-like routing.  l2 is behind the receiver l1, which forwards for it
\* but is no router to the sender, and behind D, whose hop count wraps to 0
\* when HopMod is 5.
TreeRouting ==
    {l1 :> <<A, B, C>> @@ l2 :> <<A, B, C, l1, D>> @@ l3 :> <<A>>}

\* What the theorem on Sound assumes.
ASSUME OneTree == TreeLike
=============================================================================
