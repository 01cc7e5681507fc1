------------------------------ MODULE MCDiscovery ------------------------------
(***************************************************************************)
(* Small instances of Discovery: the routings the network may be in.        *)
(***************************************************************************)
EXTENDS Discovery, TLC

CONSTANTS l1, l2, A, B, C

\* Two routings in which every router keeps its distance although l1 and l2
\* move, with C, from behind A to behind B.
SameDistance ==
    {l1 :> <<A, C>> @@ l2 :> <<A, C>>,
     l1 :> <<B, C>> @@ l2 :> <<B>>}

\* Two routings in which the routers A and B swap their places.
SwappedPlaces ==
    {l1 :> <<A, B>> @@ l2 :> <<A, B>>, l1 :> <<B, A>> @@ l2 :> <<B, A>>}
=============================================================================
