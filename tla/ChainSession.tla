---------------------------- MODULE ChainSession ----------------------------
(***************************************************************************)
(* A caller that keeps one ChainState across heads and writes every batch  *)
(* it gets before it asks again.  Module StartupReconciliation adds its    *)
(* deaths and how it starts again from the durable rows.                   *)
(***************************************************************************)
EXTENDS ChainState

CONSTANT
    FinalizedHeights    \* what set_finalized_height may be called with

ASSUME FinalizedAssumption == FinalizedHeights \subseteq Nat

VARIABLES
    before,             \* history: the tip when apply was called
    stale               \* history: the last batch only rolled back

sessionVars == <<vars, before, stale>>

NoSession ==
    /\ tip = None
    /\ known = {}
    /\ cache = <<>>
    /\ finalized = 0
    /\ phase = "idle"
    /\ head = None
    /\ cursor = None
    /\ replacement = <<>>
    /\ rollbacks = <<>>
    /\ ancestor = None
    /\ result = None
    /\ before = None
    /\ stale = FALSE

SessionInit == NoSession /\ canonical = {}

SetFinalizedHeight(f) ==
    /\ phase = "idle"
    /\ f # finalized
    /\ finalized' = f
    /\ UNCHANGED <<tip, known, cache, walk, canonical, before, stale>>

\* After a batch that only rolled back, tip still names a block that is gone, and
\* the callers in this repository drop the state: no call is made then.
Call(h) ==
    /\ ~stale
    /\ Apply(h)
    /\ before' = tip
    /\ UNCHANGED <<canonical, stale>>

\* One iteration of either loop, with any answer from the source.
Walk ==
    /\ \/ AncestorFound(cursor \in canonical)
       \/ \E answer \in Blocks \cup {None} :
              AncestorStep(cursor \in canonical, answer)
       \/ \E answer \in Blocks \cup {None} : RollbackStep(answer)
       \/ RollbackDone
       \/ ResolverFails
    /\ UNCHANGED <<canonical, before, stale>>

\* The writer commits the batch in one transaction.
Persist ==
    /\ phase = "returned"
    /\ canonical' = CanonicalAfter
    /\ stale' = (rollbacks # <<>> /\ replacement = <<>>)
    /\ phase' = "idle"
    /\ ClearWalk
    /\ UNCHANGED <<memory, result, before>>

SessionNext ==
    \/ \E f \in FinalizedHeights : SetFinalizedHeight(f)
    \/ \E h \in Blocks : Call(h)
    \/ Walk
    \/ Persist

SessionSpec == SessionInit /\ [][SessionNext]_sessionVars
-----------------------------------------------------------------------------
\* Every variable has its type.
SessionTypeOK ==
    /\ ChainTypeOK
    /\ before \in Blocks \cup {None}
    /\ stale \in BOOLEAN

\* What apply returns is a path from the tip it was called at to the head it was
\* called with (resolve_common_ancestor, rollback_path), however the source
\* answered, however small the cache and wherever the walk found the ancestor.
ReturnedBatchIsPath == BatchIsPath(before)

\* The writer never has to refuse a batch of apply: every block rolled back is a
\* canonical row, and no row that stays shares a height with a block applied (the
\* unique index uq_blocks_canonical_height).  Nor does it meet one that it takes for
\* granted not to meet: one that rolls back without an anchor, or that names a block
\* twice, which a second submission would not leave alone.
BatchFitsRows ==
    phase = "returned" =>
        /\ ancestor = None => rollbacks = <<>>
        /\ IsInjective(rollbacks \o replacement)
        /\ Range(rollbacks) \subseteq canonical
        /\ \A b \in canonical \ Range(rollbacks), c \in Range(replacement) :
               Height[b] # Height[c]

\* The durable chain has no hole and no fork, and its top is the tip in memory,
\* unless the last batch only rolled back: commit then leaves tip at a block that
\* is no longer canonical.
TipFollowsDurable ==
    phase = "idle" /\ tip # None =>
        /\ OneChain(canonical)
        /\ known \subseteq canonical
        /\ IF stale THEN tip \notin canonical ELSE IsTop(tip, canonical)

\* No block at or below the finalized height ever stops being canonical
\* (enforce_finalized_boundary).
FinalizedStays ==
    [][\A b \in canonical : Height[b] <= finalized => b \in canonical']_sessionVars
=============================================================================
