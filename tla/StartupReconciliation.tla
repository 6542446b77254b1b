----------------------- MODULE StartupReconciliation -----------------------
(***************************************************************************)
(* PostgresChainWriter::reconcile_to_head between two sessions.  The       *)
(* process may die at any point; before it keeps a ChainState again it     *)
(* compares the durable rows with the source from the checkpoint down,     *)
(* fetches what follows the common block, and commits the rollbacks and    *)
(* the new blocks in one transaction.  The source is asked by height and   *)
(* may be on another branch at every call.  The ChainState then starts     *)
(* from a suffix of the rows (from_tip, from_canonical_chain).             *)
(*                                                                         *)
(* The checkpoint is the topmost canonical row (module PostgresWriter says *)
(* when).  The rows may begin above block 0, where a backfill began.       *)
(***************************************************************************)
EXTENDS ChainSession

CONSTANTS
    MaxWalkBack,        \* max_walk_back_depth
    MaxDeaths           \* bound on the deaths of one behaviour

ASSUME StartupAssumption == MaxWalkBack \in Nat /\ MaxDeaths \in Nat

VARIABLES
    stage,              \* up: a session runs; down: no process; else where
                        \* reconcile_to_head is
    goal,               \* the height of the source's head
    at,                 \* height
    walked,             \* walked
    common,             \* the common ancestor
    fetched,            \* blocks to apply
    deaths

startup == <<stage, goal, at, walked, common, fetched>>
allVars == <<sessionVars, startup, deaths>>

StoredChains == {S \in SUBSET Blocks : OneChain(S) /\ \E b \in S : IsTop(b, S)}

\* A fresh database and a new ChainState, or rows of an earlier process.
StartupInit ==
    /\ NoSession
    /\ \/ stage = "up" /\ canonical = {}
       \/ /\ stage = "down"
          /\ canonical \in StoredChains
    /\ goal = 0
    /\ at = 0
    /\ walked = 0
    /\ common = None
    /\ fetched = <<>>
    /\ deaths = 0

\* The locals of reconcile_to_head go out of scope.
Leave(where) ==
    /\ stage' = where
    /\ goal' = 0
    /\ at' = 0
    /\ walked' = 0
    /\ common' = None
    /\ fetched' = <<>>

\* The process dies, in a session or during startup.
Die ==
    /\ stage # "down"
    /\ deaths < MaxDeaths
    /\ deaths' = deaths + 1
    /\ Leave("down")
    /\ Drop
    /\ before' = None
    /\ stale' = FALSE
    /\ UNCHANGED canonical

\* Any error of reconcile_to_head, none of which is after the COMMIT.
ReconcileFails ==
    /\ Leave("down")
    /\ UNCHANGED <<sessionVars, deaths>>

Checkpoint == CHOOSE b \in canonical : IsTop(b, canonical)

\* The row at a height: canonical_header_at_height.
RowAt(n) == {b \in canonical : Height[b] = n}

\* head and checkpoint are read; without a checkpoint there is nothing to compare.
ReadHead(h) ==
    /\ stage = "down"
    /\ goal' = Height[h]
    /\ IF canonical = {}
       THEN stage' = "blocks" /\ at' = 0
       ELSE stage' = "ancestor" /\ at' = IF Height[Checkpoint] < Height[h] THEN Height[Checkpoint]
                                             ELSE Height[h]
    /\ UNCHANGED <<sessionVars, walked, common, fetched, deaths>>

(* find_reconciliation_common_ancestor, one answer of the source a step. *)

CommonFound(b) ==
    /\ stage = "ancestor"
    /\ RowAt(at) = {b}
    /\ stage' = "blocks"
    /\ common' = b
    /\ at' = at + 1
    /\ UNCHANGED <<sessionVars, goal, walked, fetched, deaths>>

\* Variant: the limit is compared before the mismatch is counted.
WalkedTooFarLate == walked > MaxWalkBack \/ at = 0

\* Evaluated before the mismatch is counted.
WalkedTooFar == walked + 1 > MaxWalkBack \/ at = 0

Differs(b) == b # None /\ RowAt(at) \notin {{}, {b}}

WalkBack(b) ==
    /\ stage = "ancestor"
    /\ Differs(b)
    /\ ~WalkedTooFar
    /\ walked' = walked + 1
    /\ at' = at - 1
    /\ UNCHANGED <<sessionVars, stage, goal, common, fetched, deaths>>

\* MissingPersistedCheckpointBlock, MissingSourceHeight, MaxDepthExceeded.
CompareFails(answer) ==
    /\ stage = "ancestor"
    /\ \/ RowAt(at) = {}
       \/ answer = None
       \/ Differs(answer) /\ WalkedTooFar
    /\ ReconcileFails

(* The loop that fetches the blocks to apply. *)

Previous == IF fetched = <<>> THEN common ELSE Last(fetched)

\* Variant: the source is trusted to stay on one branch.
FollowsAnything(b) == b # None

Follows(b) == b # None /\ (Previous # None => Parent[b] = Previous)

FetchBlock(b) ==
    /\ stage = "blocks"
    /\ at <= goal
    /\ Follows(b)
    /\ fetched' = Append(fetched, b)
    /\ at' = at + 1
    /\ UNCHANGED <<sessionVars, stage, goal, walked, common, deaths>>

\* MissingSourceHeight, BrokenSourceLink.
FetchFails(answer) ==
    /\ stage = "blocks"
    /\ at <= goal
    /\ ~Follows(answer)
    /\ ReconcileFails

\* A call of the source or a query of the database fails, or apply_batch does.
CallFails ==
    /\ stage \in {"ancestor", "blocks"}
    /\ ReconcileFails

\* canonical_headers_descending(checkpoint, common), each a rollback.
RowsAboveCommon ==
    IF common = None THEN {} ELSE {b \in canonical : Height[b] > Height[common]}

\* apply_batch takes the batch as a whole; without events nothing is written.
CommitReconciliation ==
    /\ stage = "blocks"
    /\ at > goal
    /\ canonical' = (canonical \ RowsAboveCommon) \cup Range(fetched)
    /\ Leave("reconciled")
    /\ UNCHANGED <<chainVars, before, stale, deaths>>

\* The rows from one of them to the checkpoint, in ascending order.
RowsFrom(b) ==
    [i \in 1..Height[Checkpoint] - Height[b] + 1 |->
        CHOOSE c \in canonical : Height[c] = Height[b] + i - 1]

\* A ChainState is made of the topmost durable headers, of one at least.
StartSession(b) ==
    /\ stage = "reconciled"
    /\ Seed(RowsFrom(b), 0)
    /\ Leave("up")
    /\ UNCHANGED <<walk, canonical, before, stale, deaths>>

\* What block_by_height may answer: a block that claims the height, or none.
Answers == {b \in Blocks : Height[b] = at} \cup {None}

ReconcileToHead ==
    \/ \E h \in Blocks : ReadHead(h)
    \/ \E answer \in Answers :
           \/ CommonFound(answer) \/ WalkBack(answer) \/ CompareFails(answer)
           \/ FetchBlock(answer) \/ FetchFails(answer)
    \/ CallFails
    \/ CommitReconciliation
    \/ \E b \in canonical : StartSession(b)

StartupNext ==
    \/ stage = "up" /\ SessionNext /\ UNCHANGED <<startup, deaths>>
    \/ ReconcileToHead
    \/ Die

StartupSpec == StartupInit /\ [][StartupNext]_allVars
-----------------------------------------------------------------------------
\* Every variable has its type.
StartupTypeOK ==
    /\ SessionTypeOK
    /\ stage \in {"up", "down", "ancestor", "blocks", "reconciled"}
    /\ {goal, at, walked} \subseteq Nat
    /\ walked <= MaxWalkBack
    /\ common \in Blocks \cup {None}
    /\ Range(fetched) \subseteq Blocks
    /\ deaths \in 0..MaxDeaths

\* reconcile_to_head replaces a top part of the stored chain, however the source
\* moved between its calls and wherever earlier processes died: the rows are one
\* chain again, they end at the height of the head it read, every row up to the
\* common block stays, and no more rows are lost than max_walk_back_depth allows
\* and a head below the checkpoint cuts off (those are not counted).
ReconciliationReplacesTop ==
    [][canonical' # canonical /\ stage # "up" =>
        LET lost == canonical \ canonical'
            kept == canonical \cap canonical'
            cut == {b \in canonical : Height[b] > goal}
        IN  /\ OneChain(canonical')
            /\ \E top \in canonical' : IsTop(top, canonical') /\ Height[top] = goal
            /\ \A b \in lost, c \in kept : Height[c] < Height[b]
            /\ Cardinality(lost \ cut) <= MaxWalkBack
            /\ canonical # {} => kept # {}]_allVars

\* The checkpoint row, if there are rows.
CheckpointRow == IF canonical = {} THEN None ELSE Checkpoint

Ledger == INSTANCE CanonicalLedger WITH rows <- canonical, top <- CheckpointRow,
                                        floor <- finalized

\* However sessions, deaths and startups follow one another, and whatever the source
\* answers, the durable rows are a ledger to their readers: commit by commit they
\* begin at block 0, or replace what is above one canonical block that is not below
\* the finalized height by a branch from it.
ImplementsLedger == Ledger!Spec
=============================================================================
