----------------------------- MODULE MCBackfill -----------------------------
(* Blocks 1 to 3 with two workers; the provider may switch between a chain, a  *)
(* fork of it at height 2, inside the first range that is handed out, and a    *)
(* fork at height 1, which invalidates a suffix while later heights are being  *)
(* fetched.                                                                    *)
EXTENDS Backfill, TLC

CONSTANTS g, a1, a2, a3, b2, b3, c1, c2, c3

MCBlocks == {g, a1, a2, a3, b2, b3, c1, c2, c3}

MCParent ==
    g :> None @@ a1 :> g @@ a2 :> a1 @@ a3 :> a2 @@ b2 :> a1 @@ b3 :> b2
    @@ c1 :> g @@ c2 :> c1 @@ c3 :> c2

MCHasLogs == {a1, a3, b2, c1, c3}

MCChains ==
    {0 :> g @@ 1 :> a1 @@ 2 :> a2 @@ 3 :> a3,
     0 :> g @@ 1 :> a1 @@ 2 :> b2 @@ 3 :> b3,
     0 :> g @@ 1 :> c1 @@ 2 :> c2 @@ 3 :> c3}
=============================================================================
