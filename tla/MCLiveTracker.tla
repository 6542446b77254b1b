--------------------------- MODULE MCLiveTracker ---------------------------
(* The provider may report a chain g <- a1 <- a2 <- a3, a fork off a1 that  *)
(* grows higher, and a header that claims a height its parent does not give. *)
EXTENDS LiveTracker

CONSTANTS g, a1, a2, a3, b2, b3, b4, m3

MCBlocks == {g, a1, a2, a3, b2, b3, b4, m3}

MCParent ==
    g :> None @@ a1 :> g @@ a2 :> a1 @@ a3 :> a2
    @@ b2 :> a1 @@ b3 :> b2 @@ b4 :> b3 @@ m3 :> a1

MCHeight ==
    g :> 0 @@ a1 :> 1 @@ a2 :> 2 @@ a3 :> 3
    @@ b2 :> 2 @@ b3 :> 3 @@ b4 :> 4 @@ m3 :> 3

WellFormed == MCBlocks \ {m3}
=============================================================================
