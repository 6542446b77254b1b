------------------------ MODULE PostgresWriterProofs ------------------------
(***************************************************************************)
(* Theorems about PostgresWriter for every set of blocks and every set of  *)
(* batches that satisfies the named assumptions.                           *)
(***************************************************************************)
EXTENDS PostgresWriter, TLAPS

\* An event index in range selects a well-typed event.
LEMMA EventType ==
    ASSUME NEW b \in Batches \cup {NoBatch}, NEW i \in 1..Len(b.events)
    PROVE  b.events[i] \in Event
<1>1. CASE b = NoBatch
    BY <1>1 DEF NoBatch
<1>2. CASE b \in Batches
    BY <1>2, BatchesAssumption DEF Batch
<1> QED BY <1>1, <1>2

\* The type invariant: apply_batch_inner keeps every table well typed and
\* leaves nothing of a transaction behind when it returns early.
THEOREM TypeCorrect == Spec => []TypeOK
<1>1. Init => TypeOK
    BY DEF Init, TypeOK, NoBatch, BlockState, tx, durable
<1>2. TypeOK /\ [Next]_vars => TypeOK'
    <2> SUFFICES ASSUME TypeOK, [Next]_vars PROVE TypeOK'
        OBVIOUS
    <2>d. Discard => TypeOK'
        BY DEF Discard, Close, TypeOK, durable, tx, NoBatch
    <2>1. ASSUME NEW b \in Batches, Begin(b) PROVE TypeOK'
        <3>1. b \in Batch
            BY BatchesAssumption
        <3> QED BY <2>1, <3>1 DEF Begin, TypeOK, durable, tx, Batch
    <2>2. CASE RollbackEvent
        <3>1. batch.events[next] \in Event
            BY <2>2, EventType DEF RollbackEvent, AtEvent, TypeOK
        <3>2. batch.ancestor \in Blocks \cup {None}
            BY BatchesAssumption DEF TypeOK, NoBatch, Batch
        <3>3. txRows' \in [Blocks -> BlockState]
            BY <2>2, <3>1 DEF RollbackEvent, TypeOK, Event, BlockState
        <3>4. txOutbox' \in Seq(Event)
            <4>1. \/ txOutbox' = txOutbox
                  \/ txOutbox' = Append(txOutbox, batch.events[next])
                BY <2>2 DEF RollbackEvent
            <4>2. txOutbox \in Seq(Event)
                BY DEF TypeOK
            <4> QED BY <4>1, <4>2, <3>1
        <3> QED BY <2>2, <3>2, <3>3, <3>4 DEF RollbackEvent, AtEvent, TypeOK, durable, tx
    <2>3. CASE ApplyEvent
        <3>1. batch.events[next] \in Event
            BY <2>3, EventType DEF ApplyEvent, AtEvent, TypeOK
        <3>2. txRows' \in [Blocks -> BlockState]
            BY <2>3, <3>1 DEF ApplyEvent, TypeOK, Event, BlockState
        <3>4. txOutbox' \in Seq(Event)
            <4>1. \/ txOutbox' = txOutbox
                  \/ txOutbox' = Append(txOutbox, batch.events[next])
                BY <2>3 DEF ApplyEvent
            <4>2. txOutbox \in Seq(Event)
                BY DEF TypeOK
            <4> QED BY <4>1, <4>2, <3>1
        <3>3. target' \in Blocks /\ txLogs' \subseteq Blocks
            BY <2>3, <3>1 DEF ApplyEvent, Event, TypeOK
        <3> QED BY <2>3, <3>2, <3>3, <3>4 DEF ApplyEvent, AtEvent, TypeOK, durable, tx
    <2>4. CASE MoveCheckpoint
        BY <2>4 DEF MoveCheckpoint, TypeOK, durable, tx
    <2>5. CASE Commit
        BY <2>5 DEF Commit, Close, TypeOK, NoBatch, durable, tx
    <2>6. CASE UNCHANGED vars
        BY <2>6 DEF vars, durable, tx, TypeOK
    <2> QED BY <2>d, <2>1, <2>2, <2>3, <2>4, <2>5, <2>6
            DEF Next, RollbackMissing, ApplyConflict, CheckpointRefused, Crash
<1> QED BY <1>1, <1>2, PTL DEF Spec
-----------------------------------------------------------------------------
\* What upsert_block and rollback_block do to the pair of a row and its journal
\* keeps them telling the same story, provided an event is appended exactly when
\* it flips the row.
LEMMA JournalAppend ==
    ASSUME NEW table \in [Blocks -> BlockState], NEW journal \in Seq(Event),
           NEW ev \in Event, NEW state \in BlockState,
           RowsExplained(table, journal), Alternates(journal),
           \/ ev.kind = "apply" /\ table[ev.block] # "canonical" /\ state = "canonical"
           \/ ev.kind = "rollback" /\ table[ev.block] = "canonical" /\ state = "orphaned"
    PROVE  /\ RowsExplained([table EXCEPT ![ev.block] = state], Append(journal, ev))
           /\ Alternates(Append(journal, ev))
<1> DEFINE n == Len(journal)
           longer == Append(journal, ev)
<1>1. /\ n \in Nat
      /\ Len(longer) = n + 1
      /\ longer[n + 1] = ev
      /\ \A i \in 1..n : longer[i] = journal[i] /\ journal[i] \in Event
    OBVIOUS
<1>2. ev.block \in Blocks
    BY DEF Event
<1> HIDE DEF n, longer
<1>n. n = Len(journal)
    BY DEF n
<1>3. RowsExplained([table EXCEPT ![ev.block] = state], longer)
    <2> SUFFICES ASSUME NEW b \in Blocks
        PROVE  LET now == [table EXCEPT ![ev.block] = state][b] IN
               /\ now = "absent" => \A i \in 1..Len(longer) : longer[i].block # b
               /\ now = "canonical" =>
                     \E i \in 1..Len(longer) :
                        /\ longer[i].kind = "apply"
                        /\ longer[i].block = b
                        /\ LastAbout(longer, i)
               /\ now = "orphaned" =>
                     \E i \in 1..Len(longer) :
                        /\ longer[i].kind = "rollback"
                        /\ longer[i].block = b
                        /\ LastAbout(longer, i)
        BY DEF RowsExplained
    <2>1. CASE b = ev.block
        <3>1. [table EXCEPT ![ev.block] = state][b] = state
            BY <2>1
        <3>2. LastAbout(longer, n + 1)
            BY <1>1 DEF LastAbout
        <3> QED BY <3>1, <3>2, <2>1, <1>1
    <2>2. CASE b # ev.block
        <3>1. [table EXCEPT ![ev.block] = state][b] = table[b]
            BY <2>2
        <3>2. ASSUME NEW i \in 1..n, journal[i].block = b, LastAbout(journal, i)
              PROVE  i \in 1..Len(longer) /\ longer[i] = journal[i] /\ LastAbout(longer, i)
            BY <3>2, <2>2, <1>1, <1>n DEF LastAbout
        <3>3. table[b] = "absent" => \A i \in 1..Len(longer) : longer[i].block # b
            BY <2>2, <1>1, <1>n DEF RowsExplained
        <3> QED BY <3>1, <3>2, <3>3, <1>1, <1>n DEF RowsExplained
    <2> QED BY <2>1, <2>2
<1>4. Alternates(longer)
    <2> SUFFICES ASSUME NEW i \in 1..Len(longer)
        PROVE  \/ /\ longer[i].kind = "apply"
                  /\ \A j \in 1..Len(longer) :
                        j < i => longer[j].block # longer[i].block
               \/ \E j \in 1..Len(longer) :
                     Precedes(longer, j, i) /\ longer[j].kind # longer[i].kind
        BY DEF Alternates
    <2>1. CASE i \in 1..n
        <3>1. \A j \in 1..n : Precedes(journal, j, i) => Precedes(longer, j, i)
            BY <2>1, <1>1, <1>n DEF Precedes
        <3> QED BY <3>1, <2>1, <1>1, <1>n DEF Alternates
    <2>2. CASE i = n + 1
        <3>1. ASSUME NEW j \in 1..n, journal[j].block = ev.block, LastAbout(journal, j)
              PROVE  Precedes(longer, j, n + 1)
            BY <3>1, <1>1, <1>n DEF Precedes, LastAbout
        <3>2. CASE table[ev.block] = "absent"
            BY <3>2, <2>2, <1>1, <1>2, <1>n DEF RowsExplained
        <3>3. CASE table[ev.block] = "canonical"
            BY <3>3, <3>1, <2>2, <1>1, <1>2, <1>n DEF RowsExplained
        <3>4. CASE table[ev.block] = "orphaned"
            BY <3>4, <3>1, <2>2, <1>1, <1>2, <1>n DEF RowsExplained
        <3> QED BY <3>2, <3>3, <3>4, <1>2 DEF BlockState
    <2> QED BY <2>1, <2>2, <1>1
<1> QED BY <1>3, <1>4 DEF longer
-----------------------------------------------------------------------------
\* The inductive invariant: what readers see and what the transaction sees both
\* satisfy the properties; the transaction has a checkpoint target once it has
\* handled an event, and a canonical one when it is about to commit.
Consistent ==
    /\ UniqueHeights(rows)
    /\ UniqueHeights(txRows)
    /\ RowsExplained(rows, outbox) /\ Alternates(outbox)
    /\ RowsExplained(txRows, txOutbox) /\ Alternates(txOutbox)
    /\ checkpoint # None => rows[checkpoint] = "canonical"
    /\ pc = "events" => batch \in Batches /\ batch.events # <<>>
    /\ pc = "events" /\ next > 1 => target # None
    /\ pc = "commit" => txCheckpoint \in Blocks /\ txRows[txCheckpoint] = "canonical"

LEMMA ConsistentInit == Init => Consistent
<1> SUFFICES ASSUME Init PROVE Consistent
    OBVIOUS
<1>1. RowsExplained(rows, outbox) /\ Alternates(outbox)
    BY DEF Init, RowsExplained, Alternates
<1> QED BY <1>1 DEF Init, Consistent, UniqueHeights

\* An apply event whose height is free keeps heights unique, and so does any
\* rollback.
LEMMA UniqueStep ==
    ASSUME NEW table \in [Blocks -> BlockState], NEW b \in Blocks,
           UniqueHeights(table)
    PROVE  /\ UniqueHeights([table EXCEPT ![b] = "orphaned"])
           /\ ~HeightTaken(table, b) => UniqueHeights([table EXCEPT ![b] = "canonical"])
BY DEF UniqueHeights, HeightTaken

LEMMA ConsistentStep == TypeOK /\ Consistent /\ [Next]_vars => Consistent'
<1> SUFFICES ASSUME TypeOK, Consistent, [Next]_vars PROVE Consistent'
    OBVIOUS
<1>d. Discard => Consistent'
    BY DEF Discard, Close, Consistent, durable
<1>1. ASSUME NEW b \in Batches, Begin(b) PROVE Consistent'
    BY <1>1 DEF Begin, Consistent, durable, tx
<1>2. CASE RollbackEvent
    <2> DEFINE ev == batch.events[next]
    <2>1. /\ ev \in Event /\ ev.kind = "rollback" /\ ev.block \in Blocks
          /\ batch \in Batches /\ pc = "events" /\ pc' = "events"
        BY <1>2, EventType DEF RollbackEvent, AtEvent, TypeOK, Event, Consistent
    <2>2. UniqueHeights(txRows')
        <3>1. \/ txRows' = [txRows EXCEPT ![ev.block] = "orphaned"]
              \/ txRows' = txRows
            BY <1>2 DEF RollbackEvent
        <3>2. UniqueHeights([txRows EXCEPT ![ev.block] = "orphaned"])
            BY <2>1, UniqueStep DEF TypeOK, Consistent
        <3> QED BY <3>1, <3>2 DEF Consistent
    <2>3. RowsExplained(txRows', txOutbox') /\ Alternates(txOutbox')
        <3>1. CASE RollbackChanges(txRows[ev.block])
            <4>1. /\ txRows' = [txRows EXCEPT ![ev.block] = "orphaned"]
                  /\ txOutbox' = Append(txOutbox, ev)
                  /\ txRows[ev.block] = "canonical"
                BY <1>2, <3>1 DEF RollbackEvent, RollbackChanges
            <4> HIDE DEF ev
            <4> QED BY <4>1, <2>1, JournalAppend DEF TypeOK, Consistent, BlockState
        <3>2. CASE ~RollbackChanges(txRows[ev.block])
            BY <1>2, <3>2 DEF RollbackEvent, Consistent
        <3> QED BY <3>1, <3>2
    <2>4. target' # None
        <3>1. \A i \in 1..Len(batch.events) : batch.ancestor = None =>
                  batch.events[i].kind = "apply"
            BY <2>1, AnchorAssumption
        <3> QED BY <1>2, <3>1 DEF RollbackEvent, AtEvent, TypeOK
    <2> QED BY <1>2, <2>1, <2>2, <2>3, <2>4 DEF RollbackEvent, Consistent, durable
<1>3. CASE ApplyEvent
    <2> DEFINE ev == batch.events[next]
    <2>1. /\ ev \in Event /\ ev.kind = "apply" /\ ev.block \in Blocks
          /\ batch \in Batches /\ pc = "events" /\ pc' = "events"
        BY <1>3, EventType DEF ApplyEvent, AtEvent, TypeOK, Event, Consistent
    <2>2. UniqueHeights(txRows')
        <3>1. /\ \/ txRows' = [txRows EXCEPT ![ev.block] = "canonical"]
                 \/ txRows' = txRows
              /\ ~HeightTaken(txRows, ev.block)
            BY <1>3 DEF ApplyEvent
        <3>2. UniqueHeights([txRows EXCEPT ![ev.block] = "canonical"])
            BY <2>1, <3>1, UniqueStep DEF TypeOK, Consistent
        <3> QED BY <3>1, <3>2 DEF Consistent
    <2>3. RowsExplained(txRows', txOutbox') /\ Alternates(txOutbox')
        <3>1. CASE ApplyChanges(txRows[ev.block])
            <4>1. /\ txRows' = [txRows EXCEPT ![ev.block] = "canonical"]
                  /\ txOutbox' = Append(txOutbox, ev)
                  /\ txRows[ev.block] # "canonical"
                BY <1>3, <3>1 DEF ApplyEvent, ApplyChanges
            <4> HIDE DEF ev
            <4> QED BY <4>1, <2>1, JournalAppend DEF TypeOK, Consistent, BlockState
        <3>2. CASE ~ApplyChanges(txRows[ev.block])
            BY <1>3, <3>2 DEF ApplyEvent, Consistent
        <3> QED BY <3>1, <3>2
    <2>4. target' # None
        BY <1>3, <2>1, NoneAssumption DEF ApplyEvent
    <2> QED BY <1>3, <2>1, <2>2, <2>3, <2>4 DEF ApplyEvent, Consistent, durable
<1>4. CASE MoveCheckpoint
    <2>1. Len(batch.events) > 0
        BY <1>4, BatchesAssumption DEF MoveCheckpoint, Consistent, Batch
    <2>2. target # None /\ txRows[target] = "canonical"
        BY <1>4, <2>1 DEF MoveCheckpoint, Consistent, CheckpointAllowed, TypeOK
    <2> QED BY <1>4, <2>2 DEF MoveCheckpoint, Consistent, durable, TypeOK
<1>5. CASE Commit
    BY <1>5 DEF Commit, Close, Consistent, tx
<1>6. CASE UNCHANGED vars
    BY <1>6 DEF vars, durable, tx, Consistent
<1> QED BY <1>d, <1>1, <1>2, <1>3, <1>4, <1>5, <1>6
        DEF Next, RollbackMissing, ApplyConflict, CheckpointRefused, Crash

THEOREM ConsistentAlways == Spec => []Consistent
BY ConsistentInit, ConsistentStep, TypeCorrect, PTL DEF Spec

\* Readers see at most one canonical block per height, for every set of batches.
THEOREM HeightsUnique == Spec => []OneCanonicalPerHeight
<1>1. Consistent => OneCanonicalPerHeight
    BY DEF Consistent, OneCanonicalPerHeight
<1> QED BY <1>1, ConsistentAlways, PTL

\* The durable checkpoint names a canonical block, for every set of batches.
THEOREM CheckpointSafe == Spec => []CheckpointCanonical
<1>1. Consistent => CheckpointCanonical
    BY DEF Consistent, CheckpointCanonical
<1> QED BY <1>1, ConsistentAlways, PTL

\* The outbox is a faithful journal of the canonical state, for every set of
\* batches and every place the writer may be killed at.
THEOREM OutboxJournal == Spec => []OutboxIsJournal
<1>1. Consistent => OutboxIsJournal
    BY DEF Consistent, OutboxIsJournal
<1> QED BY <1>1, ConsistentAlways, PTL
-----------------------------------------------------------------------------
(* Replaying the batch committed last. *)

After(ev) == IF ev.kind = "apply" THEN "canonical" ELSE "orphaned"

\* The first n events of b have taken effect.
Done(b, n, table, stored) ==
    \A i \in 1..Len(b.events) : i <= n =>
        /\ table[b.events[i].block] = After(b.events[i])
        /\ b.events[i].kind = "apply" => b.events[i].block \in stored

\* checkpoint_target after the first n events of b.
TargetAfter(b, n) ==
    IF n > 0 /\ b.events[n].kind = "apply" THEN b.events[n].block ELSE b.ancestor

\* The effect of the last batch is in the tables, so is what the open
\* transaction has done so far, and a transaction that repeats the last batch
\* has not changed anything.
Replayable ==
    /\ lastBatch # NoBatch /\ DistinctBlocks(lastBatch) =>
        /\ Done(lastBatch, Len(lastBatch.events), rows, logs)
        /\ checkpoint = TargetAfter(lastBatch, Len(lastBatch.events))
    /\ pc # "idle" =>
        /\ batch \in Batches /\ batch.events # <<>>
        /\ target = TargetAfter(batch, next - 1)
        /\ DistinctBlocks(batch) => Done(batch, next - 1, txRows, txLogs)
        /\ DistinctBlocks(batch) /\ batch = lastBatch =>
              txRows = rows /\ txLogs = logs /\ txOutbox = outbox
    /\ pc = "commit" => next = Len(batch.events) + 1 /\ txCheckpoint = target

LEMMA ReplayInit == Init => Replayable
BY DEF Init, Replayable

LEMMA ReplayStep ==
    TypeOK /\ Consistent /\ Replayable /\ [Next]_vars => Replayable'
<1> SUFFICES ASSUME TypeOK, Consistent, Replayable, [Next]_vars PROVE Replayable'
    OBVIOUS
<1>d. Discard => Replayable'
    BY DEF Discard, Close, Replayable, durable
<1>1. ASSUME NEW b \in Batches, Begin(b) PROVE Replayable'
    <2>1. tx = durable
        BY <1>1 DEF Begin, TypeOK
    <2>2. TargetAfter(b, 0) = b.ancestor
        BY DEF TargetAfter
    <2>3. Done(b, 0, txRows, txLogs)
        BY DEF Done
    <2> QED BY <1>1, <2>1, <2>2, <2>3 DEF Begin, Replayable, durable, tx
<1>2. ASSUME RollbackEvent \/ ApplyEvent PROVE Replayable'
    <2> DEFINE ev == batch.events[next]
    <2>1. /\ ev \in Event /\ ev.block \in Blocks /\ next \in 1..Len(batch.events)
          /\ batch \in Batches /\ pc = "events" /\ pc' = "events" /\ batch' = batch
          /\ next' = next + 1 /\ Len(batch.events) \in Nat
          /\ UNCHANGED <<rows, logs, outbox, checkpoint, lastBatch>>
        BY <1>2, EventType, BatchesAssumption
        DEF RollbackEvent, ApplyEvent, AtEvent, TypeOK, Event, Consistent, durable, Batch
    <2>2. target' = TargetAfter(batch, next)
        BY <1>2, <2>1 DEF RollbackEvent, ApplyEvent, AtEvent, TargetAfter
    <2>3. /\ txRows' = [txRows EXCEPT ![ev.block] = After(ev)]
          /\ txLogs' = IF ev.kind = "apply" THEN txLogs \cup {ev.block} ELSE txLogs
          /\ txRows[ev.block] = After(ev) => txOutbox' = txOutbox
        <3>1. CASE RollbackEvent
            BY <3>1, <2>1 DEF RollbackEvent, AtEvent, After, RollbackChanges, TypeOK, BlockState
        <3>2. CASE ApplyEvent
            BY <3>2, <2>1 DEF ApplyEvent, AtEvent, After, ApplyChanges, TypeOK, BlockState
        <3> QED BY <1>2, <3>1, <3>2
    <2> HIDE DEF ev
    <2>4. DistinctBlocks(batch) => Done(batch, next, txRows', txLogs')
        <3> SUFFICES ASSUME DistinctBlocks(batch), NEW i \in 1..Len(batch.events), i <= next
            PROVE  /\ txRows'[batch.events[i].block] = After(batch.events[i])
                   /\ batch.events[i].kind = "apply" => batch.events[i].block \in txLogs'
            BY DEF Done
        <3>1. batch.events[i] \in Event
            BY <2>1, EventType
        <3>2. CASE i = next
            BY <3>2, <2>1, <2>3 DEF ev, TypeOK
        <3>3. CASE i # next
            <4>1. batch.events[i].block # ev.block
                BY <3>3, <2>1 DEF DistinctBlocks, ev
            <4>2. Done(batch, next - 1, txRows, txLogs)
                BY <2>1 DEF Replayable
            <4>3. /\ txRows[batch.events[i].block] = After(batch.events[i])
                  /\ batch.events[i].kind = "apply" => batch.events[i].block \in txLogs
                BY <4>2, <3>3, <2>1 DEF Done
            <4> QED BY <4>1, <4>3, <3>1, <2>3 DEF TypeOK, Event
        <3> QED BY <3>2, <3>3
    <2>5. DistinctBlocks(batch) /\ batch = lastBatch =>
              txRows' = rows /\ txLogs' = logs /\ txOutbox' = outbox
        <3> SUFFICES ASSUME DistinctBlocks(batch), batch = lastBatch
            PROVE  txRows' = rows /\ txLogs' = logs /\ txOutbox' = outbox
            OBVIOUS
        <3>1. txRows = rows /\ txLogs = logs /\ txOutbox = outbox
            BY <2>1 DEF Replayable
        <3>2. lastBatch # NoBatch
            BY <2>1 DEF NoBatch
        <3>3. /\ rows[ev.block] = After(ev)
              /\ ev.kind = "apply" => ev.block \in logs
            BY <3>2, <2>1 DEF Replayable, Done, ev
        <3> QED BY <3>1, <3>3, <2>1, <2>3 DEF TypeOK
    <2>6. next' - 1 = next
        BY <2>1
    <2>7. /\ batch' \in Batches /\ batch'.events # <<>>
          /\ target' = TargetAfter(batch', next' - 1)
          /\ DistinctBlocks(batch') => Done(batch', next' - 1, txRows', txLogs')
          /\ DistinctBlocks(batch') /\ batch' = lastBatch' =>
                txRows' = rows' /\ txLogs' = logs' /\ txOutbox' = outbox'
        BY <2>1, <2>2, <2>4, <2>5, <2>6 DEF Replayable
    <2>8. lastBatch' # NoBatch /\ DistinctBlocks(lastBatch') =>
            /\ Done(lastBatch', Len(lastBatch'.events), rows', logs')
            /\ checkpoint' = TargetAfter(lastBatch', Len(lastBatch'.events))
        BY <2>1 DEF Replayable
    <2> QED BY <2>1, <2>7, <2>8 DEF Replayable
<1>3. CASE MoveCheckpoint
    <2>1. Len(batch.events) > 0 /\ next = Len(batch.events) + 1
        BY <1>3, BatchesAssumption DEF MoveCheckpoint, Replayable, Batch, TypeOK
    <2>2. target # None
        BY <1>3, <2>1 DEF MoveCheckpoint, Consistent
    <2> QED BY <1>3, <2>1, <2>2 DEF MoveCheckpoint, Replayable, durable
<1>4. CASE Commit
    <2>1. next - 1 = Len(batch.events) /\ batch.events # <<>>
        BY <1>4, BatchesAssumption DEF Commit, Replayable, Batch
    <2> QED BY <1>4, <2>1 DEF Commit, Close, Replayable
<1>5. CASE UNCHANGED vars
    BY <1>5 DEF vars, durable, tx, Replayable
<1> QED BY <1>d, <1>1, <1>2, <1>3, <1>4, <1>5
        DEF Next, RollbackMissing, ApplyConflict, CheckpointRefused, Crash

LEMMA ReplayableAlways == Spec => []Replayable
BY ReplayInit, ReplayStep, TypeCorrect, ConsistentAlways, PTL DEF Spec

\* Submitting the last committed batch again is silent, for every batch that
\* names no block twice.
THEOREM ReplaySilent == Spec => ReplayIsSilent
<1>1. Spec => []Replayable
    BY ReplayableAlways
<1>2. TypeOK /\ Replayable =>
          [Commit /\ batch = lastBatch /\ DistinctBlocks(batch) => UNCHANGED durable]_vars
    <2> SUFFICES ASSUME TypeOK, Replayable, Commit, batch = lastBatch, DistinctBlocks(batch)
        PROVE  UNCHANGED durable
        OBVIOUS
    <2>1. txRows = rows /\ txLogs = logs /\ txOutbox = outbox
        BY DEF Commit, Replayable
    <2>2. txCheckpoint = checkpoint
        <3>1. Len(batch.events) \in Nat /\ lastBatch # NoBatch
            BY BatchesAssumption DEF Commit, Replayable, Batch, NoBatch
        <3>2. next - 1 = Len(batch.events)
            BY <3>1 DEF Commit, Replayable
        <3> QED BY <3>1, <3>2 DEF Commit, Replayable
    <2> QED BY <2>1, <2>2 DEF Commit, durable
<1> QED BY <1>1, <1>2, TypeCorrect, PTL DEF ReplayIsSilent
-----------------------------------------------------------------------------
(* The refinement of AtomicStore.  First what one more event does to the     *)
(* operators that define the effect of a whole batch.                        *)

LEMMA LastOfWithLargest ==
    ASSUME NEW S, S \subseteq Nat, NEW n \in Nat, \A i \in S : i <= n
    PROVE  Store!LastOf(S \cup {n}) = n
<1>1. n \in S \cup {n} /\ \A j \in S \cup {n} : j <= n
    OBVIOUS
<1>2. ASSUME NEW i \in S \cup {n}, \A j \in S \cup {n} : j <= i PROVE i = n
    BY <1>1, <1>2
<1> QED BY <1>1, <1>2 DEF Store!LastOf

\* An event sets the state of its own block and leaves the others alone.
LEMMA StateStep ==
    ASSUME NEW table, NEW b, NEW x, NEW n \in Nat \ {0}
    PROVE  Store!StateBefore(table, b, x, n + 1) =
               IF b.events[n].block = x THEN Store!After(b.events[n].kind)
               ELSE Store!StateBefore(table, b, x, n)
<1> DEFINE before == Store!Earlier(b, x, n)
           now == Store!Earlier(b, x, n + 1)
<1>1. before \subseteq Nat /\ \A i \in before : i <= n
    BY DEF Store!Earlier
<1>2. CASE b.events[n].block = x
    <2>1. now = before \cup {n}
        <3>1. 1..n + 1 - 1 = (1..n - 1) \cup {n}
            OBVIOUS
        <3> QED BY <1>2, <3>1 DEF Store!Earlier
    <2> HIDE DEF before, now
    <2>2. Store!LastOf(now) = n
        BY <1>1, <2>1, LastOfWithLargest
    <2>3. now # {}
        BY <2>1
    <2> QED BY <1>2, <2>2, <2>3 DEF Store!StateBefore, now
<1>3. CASE b.events[n].block # x
    <2>1. now = before
        <3>1. 1..n + 1 - 1 = (1..n - 1) \cup {n}
            OBVIOUS
        <3> QED BY <1>3, <3>1 DEF Store!Earlier
    <2> QED BY <1>3, <2>1 DEF Store!StateBefore
<1> QED BY <1>2, <1>3

\* Before the first event nothing has changed.
LEMMA StateAtFirst ==
    ASSUME NEW table, NEW b, NEW x
    PROVE  Store!StateBefore(table, b, x, 1) = table[x]
<1>1. Store!Earlier(b, x, 1) = {}
    BY DEF Store!Earlier
<1> QED BY <1>1 DEF Store!StateBefore

\* One more event adds itself to the changes if it flips a row.
LEMMA ChangesStep ==
    ASSUME NEW table, NEW b, NEW n \in Nat
    PROVE  /\ Store!Changes(table, b, 0) = {}
           /\ Store!Flips(table, b, n + 1) =>
                 Store!Changes(table, b, n + 1) = Store!Changes(table, b, n) \cup {n + 1}
           /\ ~Store!Flips(table, b, n + 1) =>
                 Store!Changes(table, b, n + 1) = Store!Changes(table, b, n)
<1>1. 1..n + 1 = (1..n) \cup {n + 1} /\ n + 1 \notin 1..n /\ 1..0 = {}
    OBVIOUS
<1> QED BY <1>1 DEF Store!Changes

\* Nothing is added by no event.
LEMMA ContinuedByNone ==
    ASSUME NEW table, NEW b, NEW journal \in Seq(Event)
    PROVE  Store!Continued(table, b, 0, journal, journal)
<1> DEFINE f == [k \in 1..0 |-> 0]
           more == [k \in 1..0 |-> b.events[f[k]]]
<1>1. 0 \in 0..0 /\ f \in [1..0 -> 1..0]
    OBVIOUS
<1>2. Store!Lists(f, Store!Changes(table, b, 0))
    BY ChangesStep DEF Store!Lists
<1>3. journal = journal \o more
    <2>1. more = <<>>
        OBVIOUS
    <2> QED BY <2>1
<1> QED BY <1>1, <1>2, <1>3 DEF Store!Continued

\* One more event is appended exactly when it flips a row.
LEMMA ContinuedStep ==
    ASSUME NEW table, NEW b, NEW n \in Nat, b.events \in Seq(Event), n < Len(b.events),
           NEW before \in Seq(Event), NEW after \in Seq(Event),
           Store!Continued(table, b, n, before, after)
    PROVE  /\ Store!Flips(table, b, n + 1) =>
                 Store!Continued(table, b, n + 1, before, Append(after, b.events[n + 1]))
           /\ ~Store!Flips(table, b, n + 1) => Store!Continued(table, b, n + 1, before, after)
<1>0. PICK m \in 0..n : \E f \in [1..m -> 1..n] :
          /\ Store!Lists(f, Store!Changes(table, b, n))
          /\ after = before \o [k \in 1..m |-> b.events[f[k]]]
    BY DEF Store!Continued
<1>1. PICK f \in [1..m -> 1..n] :
          /\ Store!Lists(f, Store!Changes(table, b, n))
          /\ after = before \o [k \in 1..m |-> b.events[f[k]]]
    BY <1>0
<1>2. m \in Nat /\ m \in 0..n + 1 /\ m + 1 \in 0..n + 1
    OBVIOUS
<1>3. ASSUME ~Store!Flips(table, b, n + 1)
      PROVE  Store!Continued(table, b, n + 1, before, after)
    <2>1. f \in [1..m -> 1..n + 1]
        BY <1>1
    <2>2. Store!Lists(f, Store!Changes(table, b, n + 1))
        BY <1>1, <1>3, ChangesStep
    <2> QED BY <1>1, <1>2, <2>1, <2>2 DEF Store!Continued
<1>4. ASSUME Store!Flips(table, b, n + 1)
      PROVE  Store!Continued(table, b, n + 1, before, Append(after, b.events[n + 1]))
    <2> DEFINE g == [k \in 1..m + 1 |-> IF k = m + 1 THEN n + 1 ELSE f[k]]
               more == [k \in 1..m |-> b.events[f[k]]]
               longer == [k \in 1..m + 1 |-> b.events[g[k]]]
    <2>1. /\ g \in [1..m + 1 -> 1..n + 1] /\ g[m + 1] = n + 1
          /\ \A k \in 1..m : g[k] = f[k] /\ f[k] \in 1..n
        BY <1>1, <1>2
    <2>2. 1..m + 1 = (1..m) \cup {m + 1}
        BY <1>2
    <2>3. Store!Changes(table, b, n + 1) = Store!Changes(table, b, n) \cup {n + 1}
        BY <1>4, ChangesStep
    <2> HIDE DEF g
    <2>4. Store!Lists(g, Store!Changes(table, b, n + 1))
        <3>1. {g[k] : k \in 1..m + 1} = {f[k] : k \in 1..m} \cup {n + 1}
            BY <2>1, <2>2
        <3>2. {f[k] : k \in 1..m} = Store!Changes(table, b, n)
            BY <1>1 DEF Store!Lists
        <3>3. ASSUME NEW i \in 1..m + 1, NEW j \in 1..m + 1, i < j PROVE g[i] < g[j]
            <4>1. i \in 1..m
                BY <3>3, <1>2
            <4>2. CASE j = m + 1
                BY <2>1, <4>1, <4>2
            <4>3. CASE j \in 1..m
                BY <1>1, <2>1, <3>3, <4>1, <4>3 DEF Store!Lists
            <4> QED BY <2>2, <4>2, <4>3
        <3>4. DOMAIN g = 1..m + 1
            BY <2>1
        <3> QED BY <2>3, <3>1, <3>2, <3>3, <3>4 DEF Store!Lists
    <2>5. /\ \A k \in 1..m : f[k] \in 1..Len(b.events)
          /\ n + 1 \in 1..Len(b.events)
        BY <1>1
    <2>6. more \in Seq(Event) /\ Len(more) = m
        BY <1>2, <2>5
    <2>7. longer = Append(more, b.events[n + 1])
        BY <1>2, <2>1, <2>2, <2>6
    <2>8. before \o longer = Append(after, b.events[n + 1])
        <3>1. b.events[n + 1] \in Event
            BY <2>5
        <3> HIDE DEF more, longer
        <3>2. after = before \o more
            BY <1>1 DEF more
        <3> QED BY <2>6, <2>7, <3>1, <3>2
    <2> QED BY <1>2, <2>1, <2>4, <2>8 DEF Store!Continued
<1> QED BY <1>3, <1>4
-----------------------------------------------------------------------------
\* What an open transaction has done so far is what the events it has handled do to
\* the committed tables, and none of them rolled back a block without a row.
Underway ==
    pc # "idle" =>
        /\ batch \in Batches /\ batch.events # <<>>
        /\ \A x \in Blocks : txRows[x] = Store!StateBefore(rows, batch, x, next)
        /\ Store!Continued(rows, batch, next - 1, outbox, txOutbox)
        /\ \A i \in 1..next - 1 : batch.events[i].kind = "rollback" =>
              Store!StateBefore(rows, batch, batch.events[i].block, i) # "absent"

\* A statement group of one event does to the transaction's view what the abstract
\* store says the event does.
LEMMA EventEffect ==
    ASSUME TypeOK, pc = "events" => batch \in Batches, RollbackEvent \/ ApplyEvent,
           NEW ev, ev = batch.events[next]
    PROVE  /\ pc = "events" /\ pc' = "events" /\ batch \in Batches /\ batch' = batch
           /\ next \in 1..Len(batch.events) /\ next' = next + 1
           /\ ev \in Event /\ ev.block \in Blocks
           /\ UNCHANGED <<rows, outbox>>
           /\ ev.kind = "rollback" => txRows[ev.block] # "absent"
           /\ txRows' = [txRows EXCEPT ![ev.block] = Store!After(ev.kind)]
           /\ txOutbox' = IF txRows[ev.block] # Store!After(ev.kind)
                          THEN Append(txOutbox, ev) ELSE txOutbox
<1>1. /\ pc = "events" /\ pc' = "events" /\ batch' = batch
      /\ next \in 1..Len(batch.events) /\ next' = next + 1
      /\ UNCHANGED <<rows, outbox>>
    <2>1. next \in Nat /\ 1 <= next /\ next <= Len(batch.events)
        BY DEF RollbackEvent, ApplyEvent, AtEvent, TypeOK
    <2>2. Len(batch.events) \in Nat
        BY BatchesAssumption DEF TypeOK, Batch, NoBatch
    <2> QED BY <2>1, <2>2 DEF RollbackEvent, ApplyEvent, AtEvent, durable
<1>2. ev \in Event /\ ev.block \in Blocks
    BY <1>1, EventType DEF TypeOK, Event
<1>3. txRows \in [Blocks -> BlockState] /\ txRows[ev.block] \in BlockState
    BY <1>2 DEF TypeOK
<1>4. CASE RollbackEvent
    <2>1. ev.kind = "rollback" /\ txRows[ev.block] # "absent"
        BY <1>4 DEF RollbackEvent, AtEvent
    <2> QED BY <1>1, <1>2, <1>3, <1>4, <2>1
            DEF RollbackEvent, RollbackChanges, Store!After, BlockState
<1>5. CASE ApplyEvent
    <2>1. ev.kind = "apply"
        BY <1>5 DEF ApplyEvent, AtEvent
    <2> QED BY <1>1, <1>2, <1>3, <1>5, <2>1
            DEF ApplyEvent, ApplyChanges, Store!After, BlockState
<1> QED BY <1>4, <1>5

LEMMA UnderwayStep ==
    TypeOK /\ Underway /\ [Next]_vars => Underway'
<1> SUFFICES ASSUME TypeOK, Underway, [Next]_vars PROVE Underway'
    OBVIOUS
<1>d. Discard => Underway'
    BY DEF Discard, Close, Underway
<1>1. ASSUME NEW b \in Batches, Begin(b) PROVE Underway'
    <2>1. /\ txRows' = rows /\ txOutbox' = outbox /\ rows' = rows /\ outbox' = outbox
          /\ next' = 1 /\ batch' = b /\ b.events # <<>>
        BY <1>1 DEF Begin, TypeOK, tx, durable
    <2>2. \A x \in Blocks : rows[x] = Store!StateBefore(rows, b, x, 1)
        BY StateAtFirst
    <2>3. Store!Continued(rows, b, 0, outbox, outbox)
        BY ContinuedByNone DEF TypeOK
    <2>4. 1 - 1 = 0 /\ 1..0 = {}
        OBVIOUS
    <2> QED BY <2>1, <2>2, <2>3, <2>4 DEF Underway
<1>2. ASSUME RollbackEvent \/ ApplyEvent PROVE Underway'
    <2> DEFINE ev == batch.events[next]
    <2>0. pc = "events" => batch \in Batches
        BY DEF Underway
    <2>1. /\ pc = "events" /\ pc' = "events" /\ batch \in Batches /\ batch' = batch
          /\ next \in 1..Len(batch.events) /\ next' = next + 1
          /\ ev \in Event /\ ev.block \in Blocks
          /\ rows' = rows /\ outbox' = outbox
          /\ ev.kind = "rollback" => txRows[ev.block] # "absent"
          /\ txRows' = [txRows EXCEPT ![ev.block] = Store!After(ev.kind)]
          /\ txOutbox' = IF txRows[ev.block] # Store!After(ev.kind)
                         THEN Append(txOutbox, ev) ELSE txOutbox
        BY <1>2, <2>0, EventEffect
    <2>2. /\ batch.events # <<>>
          /\ \A x \in Blocks : txRows[x] = Store!StateBefore(rows, batch, x, next)
          /\ Store!Continued(rows, batch, next - 1, outbox, txOutbox)
          /\ \A i \in 1..next - 1 : batch.events[i].kind = "rollback" =>
                Store!StateBefore(rows, batch, batch.events[i].block, i) # "absent"
        BY <2>1 DEF Underway
    <2>3. /\ batch.events \in Seq(Event) /\ Len(batch.events) \in Nat
          /\ next \in Nat \ {0} /\ next - 1 \in Nat /\ next - 1 < Len(batch.events)
          /\ next - 1 + 1 = next /\ next + 1 - 1 = next
          /\ 1..next = (1..next - 1) \cup {next}
        <3>1. batch.events \in Seq(Event)
            BY <2>1, BatchesAssumption DEF Batch
        <3> QED BY <2>1, <3>1
    <2>4. \A x \in Blocks : txRows'[x] = Store!StateBefore(rows, batch, x, next + 1)
        <3> SUFFICES ASSUME NEW x \in Blocks
            PROVE  txRows'[x] = Store!StateBefore(rows, batch, x, next + 1)
            OBVIOUS
        <3>1. Store!StateBefore(rows, batch, x, next + 1) =
                  IF ev.block = x THEN Store!After(ev.kind)
                  ELSE Store!StateBefore(rows, batch, x, next)
            BY <2>3, StateStep
        <3>2. txRows \in [Blocks -> BlockState]
            BY DEF TypeOK
        <3> HIDE DEF ev
        <3> QED BY <2>1, <2>2, <3>1, <3>2
    <2>5. Store!Flips(rows, batch, next) <=> txRows[ev.block] # Store!After(ev.kind)
        BY <2>1, <2>2 DEF Store!Flips
    <2>6. Store!Continued(rows, batch, next, outbox, txOutbox')
        <3>1. outbox \in Seq(Event) /\ txOutbox \in Seq(Event)
            BY DEF TypeOK
        <3>2. /\ Store!Flips(rows, batch, next) =>
                    Store!Continued(rows, batch, next, outbox, Append(txOutbox, ev))
              /\ ~Store!Flips(rows, batch, next) =>
                    Store!Continued(rows, batch, next, outbox, txOutbox)
            BY <2>2, <2>3, <3>1, ContinuedStep
        <3> QED BY <2>1, <2>5, <3>2
    <2>7. \A i \in 1..next : batch.events[i].kind = "rollback" =>
              Store!StateBefore(rows, batch, batch.events[i].block, i) # "absent"
        BY <2>1, <2>2, <2>3
    <2> HIDE DEF ev
    <2> QED BY <2>1, <2>2, <2>3, <2>4, <2>6, <2>7 DEF Underway
<1>3. CASE MoveCheckpoint
    BY <1>3 DEF MoveCheckpoint, Underway, durable
<1>4. CASE Commit
    BY <1>4 DEF Commit, Close, Underway
<1>5. CASE UNCHANGED vars
    BY <1>5 DEF vars, durable, tx, Underway
<1> QED BY <1>d, <1>1, <1>2, <1>3, <1>4, <1>5
        DEF Next, RollbackMissing, ApplyConflict, CheckpointRefused, Crash

LEMMA UnderwayAlways == Spec => []Underway
<1>1. Init => Underway
    BY DEF Init, Underway
<1> QED BY <1>1, UnderwayStep, TypeCorrect, PTL DEF Spec

\* COMMIT makes a whole batch visible at once.
LEMMA CommitApplies ==
    ASSUME TypeOK, Consistent, Replayable, Underway, Commit
    PROVE  Store!Apply(batch)
<1> DEFINE n == Len(batch.events)
<1>1. /\ pc = "commit" /\ rows' = txRows /\ outbox' = txOutbox
      /\ checkpoint' = txCheckpoint
    BY DEF Commit
<1>2. /\ batch \in Batches /\ batch.events # <<>> /\ next = n + 1
      /\ txCheckpoint = TargetAfter(batch, next - 1)
    BY <1>1 DEF Replayable
<1>3. batch.events \in Seq(Event) /\ n \in Nat /\ n > 0 /\ next - 1 = n
    <2>1. batch.events \in Seq(Event)
        BY <1>2, BatchesAssumption DEF Batch
    <2> QED BY <1>2, <2>1
<1> HIDE DEF n
<1>4. rows' = Store!Outcome(rows, batch)
    <2>1. txRows = [x \in Blocks |-> txRows[x]]
        BY DEF TypeOK
    <2>2. \A x \in Blocks : txRows[x] = Store!StateBefore(rows, batch, x, next)
        BY <1>1 DEF Underway
    <2>3. \A x \in Blocks : txRows[x] = Store!StateBefore(rows, batch, x, Len(batch.events) + 1)
        BY <1>2, <2>2 DEF n
    <2> QED BY <1>1, <2>1, <2>3 DEF Store!Outcome
<1>5. Store!Continued(rows, batch, Len(batch.events), outbox, outbox')
    BY <1>1, <1>3 DEF Underway, n
<1>6. \A i \in 1..Len(batch.events) : batch.events[i].kind = "rollback" =>
          Store!StateBefore(rows, batch, batch.events[i].block, i) # "absent"
    BY <1>1, <1>3 DEF Underway, n
<1>7. checkpoint' = Store!FinalTarget(batch)
    BY <1>1, <1>2, <1>3 DEF TargetAfter, Store!FinalTarget, n
<1>8. rows'[checkpoint'] = "canonical"
    BY <1>1 DEF Consistent
<1>9. \A x, y \in Blocks :
          rows'[x] = "canonical" /\ rows'[y] = "canonical" /\ Height[x] = Height[y] => x = y
    BY <1>1 DEF Consistent, UniqueHeights
<1> QED BY <1>2, <1>4, <1>5, <1>6, <1>7, <1>8, <1>9 DEF Store!Apply

\* Every other step leaves the committed tables alone.
LEMMA WriterRefines ==
    ASSUME TypeOK, Consistent, Replayable, Underway, [Next]_vars
    PROVE  [Store!Next]_(Store!vars)
<1>d. Discard => UNCHANGED Store!vars
    BY DEF Discard, durable, Store!vars
<1>1. ASSUME NEW b \in Batches, Begin(b) PROVE UNCHANGED Store!vars
    BY <1>1 DEF Begin, durable, Store!vars
<1>2. CASE RollbackEvent \/ ApplyEvent \/ MoveCheckpoint
    BY <1>2 DEF RollbackEvent, ApplyEvent, MoveCheckpoint, durable, Store!vars
<1>3. CASE Commit
    <2>1. batch \in Batches
        BY <1>3 DEF Commit, Replayable
    <2> QED BY <1>3, <2>1, CommitApplies DEF Store!Next
<1>4. CASE UNCHANGED vars
    BY <1>4 DEF vars, durable, Store!vars
<1> QED BY <1>d, <1>1, <1>2, <1>3, <1>4
        DEF Next, RollbackMissing, ApplyConflict, CheckpointRefused, Crash

\* apply_batch implements the atomic store, for every set of batches: what a reader
\* sees is at any moment the result of whole batches, wherever the writer was
\* killed, a statement failed or a check refused the batch.
THEOREM WriterIsAtomic == Spec => ImplementsAtomicStore
<1>1. Init => Store!Init
    BY DEF Init, Store!Init
<1>2. TypeOK /\ Consistent /\ Replayable /\ Underway /\ [Next]_vars
          => [Store!Next]_(Store!vars)
    BY WriterRefines
<1> QED BY <1>1, <1>2, TypeCorrect, ConsistentAlways, ReplayableAlways, UnderwayAlways, PTL
        DEF Spec, Store!Spec, ImplementsAtomicStore
=============================================================================
