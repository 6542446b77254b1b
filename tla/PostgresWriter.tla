--------------------------- MODULE PostgresWriter ---------------------------
(***************************************************************************)
(* PostgresChainWriter::apply_batch: the only code that changes the        *)
(* durable chain state of one chain.  A batch of rollback and apply events *)
(* runs in one database transaction, statement by statement, on a working  *)
(* copy that becomes visible at COMMIT.  The process may die, a statement  *)
(* may fail, or a check may refuse the batch anywhere before that.         *)
(*                                                                         *)
(* A block is identified with its hash.  The hash binds the header, so     *)
(* Height is a function of the block; nothing is assumed of the batches    *)
(* beyond what both producers (ChainState and the backfill committer)      *)
(* guarantee by construction.                                              *)
(***************************************************************************)
EXTENDS Naturals, Sequences

CONSTANTS
    Blocks,     \* block hashes
    Height,     \* height of the header with that hash
    None,       \* SQL NULL / Option::None
    Batches     \* the DurableChainBatches callers may submit

BlockState == {"absent", "canonical", "orphaned"}
Event == [kind : {"apply", "rollback"}, block : Blocks]
Batch == [ancestor : Blocks \cup {None}, events : Seq(Event)]

ASSUME NoneAssumption == None \notin Blocks
ASSUME HeightAssumption == Height \in [Blocks -> Nat]
ASSUME BatchesAssumption == Batches \subseteq Batch
\* Bootstrap batches have no common ancestor and contain applies only.
ASSUME AnchorAssumption ==
    \A b \in Batches : b.ancestor = None =>
        \A i \in 1..Len(b.events) : b.events[i].kind = "apply"

VARIABLES
    rows,        \* table blocks: row absent, is_canonical TRUE, or FALSE
    logs,        \* table logs: blocks whose raw logs are stored
    outbox,      \* table outbox_events in event_id order
    checkpoint,  \* table checkpoint: last_hash, or None before the first move
    pc,          \* where apply_batch_inner stands
    batch,       \* the batch it was called with
    next,        \* index of the event it handles next
    target,      \* checkpoint_target
    txRows,      \* the open transaction's view of the tables:
    txLogs,      \*   its own uncommitted writes over what was
    txOutbox,    \*   committed when it began
    txCheckpoint,
    lastBatch    \* history: the batch of the last COMMIT

durable == <<rows, logs, outbox, checkpoint>>
tx == <<txRows, txLogs, txOutbox, txCheckpoint>>
vars == <<durable, pc, batch, next, target, tx, lastBatch>>

NoBatch == [ancestor |-> None, events |-> <<>>]

Init ==
    /\ rows = [b \in Blocks |-> "absent"]
    /\ logs = {}
    /\ outbox = <<>>
    /\ checkpoint = None
    /\ pc = "idle"
    /\ batch = NoBatch
    /\ next = 1
    /\ target = None
    /\ txRows = rows
    /\ txLogs = {}
    /\ txOutbox = <<>>
    /\ txCheckpoint = None
    /\ lastBatch = NoBatch
-----------------------------------------------------------------------------
(* The statements of the transaction. *)

\* Variant: the UPDATE lacks its is_canonical condition.
RollbackAnyRow(state) == state # "absent"

\* UPDATE blocks SET is_canonical = FALSE ... AND is_canonical: one row or none.
RollbackChanges(state) == state = "canonical"

\* Variant: the upsert lacks its WHERE and always returns a row.
ApplyAlways(state) == TRUE

\* INSERT ... ON CONFLICT DO UPDATE ... WHERE is_canonical = FALSE RETURNING.
ApplyChanges(state) == state # "canonical"

\* Variant: the index is not there.
HeightNeverTaken(table, b) == FALSE

\* The partial unique index uq_blocks_canonical_height would be violated.
HeightTaken(table, b) ==
    \E c \in Blocks \ {b} : table[c] = "canonical" /\ Height[c] = Height[b]

\* Variant: the SELECT lacks its is_canonical condition.
CheckpointAnyRow(table, b) == table[b] # "absent"

\* SELECT ... WHERE block_hash AND height AND is_canonical finds a row.
CheckpointAllowed(table, b) == table[b] = "canonical"

\* No transaction is open: its view is whatever is committed.
Close ==
    /\ pc' = "idle"
    /\ batch' = NoBatch
    /\ next' = 1
    /\ target' = None

\* Variant: what was done on the connection is still there for the next call.
DiscardKeepsView == Close /\ UNCHANGED <<durable, tx, lastBatch>>

\* Variant: every statement commits by itself.
DiscardKeepsWrites ==
    /\ Close
    /\ rows' = txRows
    /\ logs' = txLogs
    /\ outbox' = txOutbox
    /\ checkpoint' = txCheckpoint
    /\ UNCHANGED <<tx, lastBatch>>

\* A transaction that is dropped leaves the tables as they were.
Discard ==
    /\ Close
    /\ txRows' = rows
    /\ txLogs' = logs
    /\ txOutbox' = outbox
    /\ txCheckpoint' = checkpoint
    /\ UNCHANGED <<durable, lastBatch>>
-----------------------------------------------------------------------------
\* apply_batch on a batch with events; an empty one returns before BEGIN.
Begin(b) ==
    /\ pc = "idle"
    /\ b.events # <<>>
    /\ pc' = "events"
    /\ batch' = b
    /\ next' = 1
    /\ target' = b.ancestor
    /\ UNCHANGED <<durable, tx, lastBatch>>

AtEvent(kind) ==
    /\ pc = "events"
    /\ next <= Len(batch.events)
    /\ batch.events[next].kind = kind

\* rollback_block, append_outbox when a row changed, checkpoint_target.
RollbackEvent ==
    /\ AtEvent("rollback")
    /\ LET ev == batch.events[next] IN
       /\ txRows[ev.block] # "absent"
       /\ IF RollbackChanges(txRows[ev.block])
          THEN /\ txRows' = [txRows EXCEPT ![ev.block] = "orphaned"]
               /\ txOutbox' = Append(txOutbox, ev)
          ELSE UNCHANGED <<txRows, txOutbox>>
    /\ target' = batch.ancestor
    /\ next' = next + 1
    /\ UNCHANGED <<durable, pc, batch, txLogs, txCheckpoint, lastBatch>>

\* upsert_block, upsert_logs, append_outbox when a row changed, checkpoint_target.
ApplyEvent ==
    /\ AtEvent("apply")
    /\ LET ev == batch.events[next] IN
       /\ ~HeightTaken(txRows, ev.block)
       /\ IF ApplyChanges(txRows[ev.block])
          THEN /\ txRows' = [txRows EXCEPT ![ev.block] = "canonical"]
               /\ txOutbox' = Append(txOutbox, ev)
          ELSE UNCHANGED <<txRows, txOutbox>>
       /\ txLogs' = txLogs \cup {ev.block}
       /\ target' = ev.block
    /\ next' = next + 1
    /\ UNCHANGED <<durable, pc, batch, txCheckpoint, lastBatch>>

\* move_checkpoint when there is a target, then on to COMMIT.
MoveCheckpoint ==
    /\ pc = "events"
    /\ next > Len(batch.events)
    /\ target # None => CheckpointAllowed(txRows, target)
    /\ txCheckpoint' = IF target = None THEN txCheckpoint ELSE target
    /\ pc' = "commit"
    /\ UNCHANGED <<durable, batch, next, target, txRows, txLogs, txOutbox, lastBatch>>

Commit ==
    /\ pc = "commit"
    /\ rows' = txRows
    /\ logs' = txLogs
    /\ outbox' = txOutbox
    /\ checkpoint' = txCheckpoint
    /\ lastBatch' = batch
    /\ Close
    /\ UNCHANGED tx

\* MissingRollbackBlock.
RollbackMissing ==
    /\ AtEvent("rollback")
    /\ txRows[batch.events[next].block] = "absent"
    /\ Discard

\* The unique index refuses a second canonical block at a height.
ApplyConflict ==
    /\ AtEvent("apply")
    /\ HeightTaken(txRows, batch.events[next].block)
    /\ Discard

\* NonCanonicalCheckpoint.
CheckpointRefused ==
    /\ pc = "events"
    /\ next > Len(batch.events)
    /\ target # None
    /\ ~CheckpointAllowed(txRows, target)
    /\ Discard

\* The process dies, the call is cancelled or a statement fails before COMMIT.
\* Dying after COMMIT is the caller's loss alone: it may submit the batch again.
Crash ==
    /\ pc # "idle"
    /\ Discard

Next ==
    \/ \E b \in Batches : Begin(b)
    \/ RollbackEvent
    \/ ApplyEvent
    \/ MoveCheckpoint
    \/ Commit
    \/ RollbackMissing
    \/ ApplyConflict
    \/ CheckpointRefused
    \/ Crash

Spec == Init /\ [][Next]_vars
-----------------------------------------------------------------------------
\* Every variable has its type, and outside a transaction the view is what is
\* committed: nothing apply_batch_inner did before an early return survives it.
TypeOK ==
    /\ rows \in [Blocks -> BlockState]
    /\ logs \subseteq Blocks
    /\ outbox \in Seq(Event)
    /\ checkpoint \in Blocks \cup {None}
    /\ pc \in {"idle", "events", "commit"}
    /\ batch \in Batches \cup {NoBatch}
    /\ next \in 1..Len(batch.events) + 1
    /\ target \in Blocks \cup {None}
    /\ lastBatch \in Batches \cup {NoBatch}
    /\ txRows \in [Blocks -> BlockState]
    /\ txLogs \subseteq Blocks
    /\ txOutbox \in Seq(Event)
    /\ txCheckpoint \in Blocks \cup {None}
    /\ pc = "idle" => batch = NoBatch /\ tx = durable

\* At most one block is canonical at a height.
UniqueHeights(table) ==
    \A b, c \in Blocks :
        table[b] = "canonical" /\ table[c] = "canonical" /\ Height[b] = Height[c]
            => b = c

\* The index uq_blocks_canonical_height is never bypassed: readers of the
\* durable tables see at most one canonical block per height (README,
\* "canonical uniqueness"), whatever batches were submitted and wherever the
\* writer was killed.
OneCanonicalPerHeight == UniqueHeights(rows)

\* The durable checkpoint always names a canonical block: rollback flags, the
\* replacement and the checkpoint move become visible together (apply_batch).
CheckpointCanonical == checkpoint # None => rows[checkpoint] = "canonical"

\* Event i is the last one of a journal about its block.
LastAbout(journal, i) ==
    \A j \in 1..Len(journal) : j > i => journal[j].block # journal[i].block

\* Event j is the one before event i that is about the same block.
Precedes(journal, j, i) ==
    /\ j < i
    /\ journal[j].block = journal[i].block
    /\ \A k \in 1..Len(journal) :
        j < k /\ k < i => journal[k].block # journal[i].block

\* A block without a row is never mentioned; the last event about a block that
\* has one is an apply if it is canonical and a rollback if it is not.
RowsExplained(table, journal) ==
    \A b \in Blocks :
        /\ table[b] = "absent" =>
               \A i \in 1..Len(journal) : journal[i].block # b
        /\ table[b] = "canonical" =>
               \E i \in 1..Len(journal) :
                   /\ journal[i].kind = "apply"
                   /\ journal[i].block = b
                   /\ LastAbout(journal, i)
        /\ table[b] = "orphaned" =>
               \E i \in 1..Len(journal) :
                   /\ journal[i].kind = "rollback"
                   /\ journal[i].block = b
                   /\ LastAbout(journal, i)

\* The events about a block alternate, an apply first.
Alternates(journal) ==
    \A i \in 1..Len(journal) :
        \/ /\ journal[i].kind = "apply"
           /\ \A j \in 1..Len(journal) :
                j < i => journal[j].block # journal[i].block
        \/ \E j \in 1..Len(journal) :
               Precedes(journal, j, i) /\ journal[j].kind # journal[i].kind

\* The outbox is a faithful journal of the canonical state: replaying it from
\* the start yields exactly the canonical blocks, with no event missing and
\* none repeated, across refused batches, replays and crashes (append_outbox is
\* called only when rollback_block or upsert_block changed a row).
OutboxIsJournal == RowsExplained(rows, outbox) /\ Alternates(outbox)

DistinctBlocks(b) ==
    \A i, j \in 1..Len(b.events) :
        b.events[i].block = b.events[j].block => i = j

\* Submitting the batch that was committed last once more (a caller that did
\* not learn of the COMMIT) changes nothing: no row flips, no outbox event is
\* appended and the checkpoint stays.
ReplayIsSilent ==
    [][Commit /\ batch = lastBatch /\ DistinctBlocks(batch) => UNCHANGED durable]_vars

Store == INSTANCE AtomicStore WITH rows <- rows, outbox <- outbox,
                                  checkpoint <- checkpoint

\* apply_batch implements the atomic store: no reader ever sees a state that is
\* not the result of whole batches, whatever statement the writer died at.
ImplementsAtomicStore == Store!Spec
=============================================================================
