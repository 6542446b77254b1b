--------------------------- MODULE MCChainSession ---------------------------
(* Two branches off a1, one deeper than the depth limit allows to replace at  *)
(* once, a header that claims the wrong height, and a child of that header.   *)
EXTENDS StartupReconciliation

CONSTANTS g, a1, a2, a3, b2, b3, m3, n4

MCBlocks == {g, a1, a2, a3, b2, b3, m3, n4}

MCParent ==
    g :> None @@ a1 :> g @@ a2 :> a1 @@ a3 :> a2 @@ b2 :> a1 @@ b3 :> b2
    @@ m3 :> a1 @@ n4 :> m3

MCHeight ==
    g :> 0 @@ a1 :> 1 @@ a2 :> 2 @@ a3 :> 3 @@ b2 :> 2 @@ b3 :> 3
    @@ m3 :> 3 @@ n4 :> 4
=============================================================================
