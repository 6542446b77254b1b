-------------------------- MODULE MCPostgresWriter --------------------------
(* Two branches, g <- a1 <- a2 and g <- b1.  The batches are every single    *)
(* event, the multi-event batches ChainState and the backfill committer      *)
(* build on this tree, and batches no caller should build: an apply before   *)
(* the rollback that frees its height, and a block rolled back and applied   *)
(* again (which a failed canonical lookup makes ChainState emit).            *)
EXTENDS PostgresWriter, TLC

CONSTANTS g, a1, a2, b1, MaxOutbox

MCBlocks == {g, a1, a2, b1}
MCHeight == g :> 0 @@ a1 :> 1 @@ a2 :> 2 @@ b1 :> 1

Up(b) == [kind |-> "apply", block |-> b]
Down(b) == [kind |-> "rollback", block |-> b]
Of(anc, evs) == [ancestor |-> anc, events |-> evs]

MCBatches ==
    {Of(None, <<Up(b)>>) : b \in MCBlocks}
    \cup {Of(g, <<Down(b)>>) : b \in MCBlocks}
    \cup {Of(None, <<Up(g), Up(a1), Up(a2)>>),
          Of(a1, <<Down(a2)>>),
          Of(g, <<Down(a2), Down(a1), Up(b1)>>),
          Of(g, <<Down(b1), Up(a1), Up(a2)>>),
          Of(g, <<Up(b1), Down(a1)>>),
          Of(g, <<Down(a1), Up(a1)>>)}

\* The outbox only grows: the search stops at this length.
OutboxBound == Len(outbox) <= MaxOutbox
=============================================================================
