-------------------------- MODULE CanonicalLedger --------------------------
(***************************************************************************)
(* What the canonical rows promise their readers, whoever writes them: at  *)
(* every moment they are one chain with a named top, and a step either     *)
(* begins the chain at block 0 or replaces everything above one of its     *)
(* blocks by another branch from that block.  Nothing at or below the      *)
(* finalized height is ever replaced.                                      *)
(***************************************************************************)
EXTENDS HeaderTree

VARIABLES
    rows,           \* the canonical blocks
    top,            \* the checkpoint, or None
    floor           \* the finalized height in force; 0 if there is none

ledger == <<rows, top, floor>>

IsLedger ==
    /\ rows \subseteq Blocks
    /\ IF rows = {} THEN top = None ELSE OneChain(rows) /\ IsTop(top, rows)

Init == IsLedger /\ floor \in Nat

SetFloor ==
    /\ floor' \in Nat
    /\ UNCHANGED <<rows, top>>

\* The rows up to the height of a block.
UpTo(S, a) == {b \in S : Height[b] <= Height[a]}

\* The first rows.
Begin ==
    /\ rows = {}
    /\ rows' # {}
    /\ IsLedger'
    /\ \E b \in rows' : Height[b] = 0
    /\ UNCHANGED floor

\* The rows up to block a stay, and a branch from a takes the place of those above.
Graft(a) ==
    /\ a \in rows
    /\ UpTo(rows', a) = UpTo(rows, a)
    /\ IsLedger'
    /\ Height[a] < floor => rows \subseteq rows'
    /\ UNCHANGED floor

Next == SetFloor \/ Begin \/ \E a \in rows : Graft(a)

Spec == Init /\ [][Next]_ledger
-----------------------------------------------------------------------------
\* What a reader of the rows may rely on: a block that is canonical at or below the
\* finalized height stays so.
NothingFinalIsLost ==
    [][\A b \in rows : Height[b] <= floor => b \in rows']_ledger
=============================================================================
