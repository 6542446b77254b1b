# A TLA+ model of chainweave

Chainweave indexes an EVM chain into PostgreSQL and survives chain
reorganisations. Which blocks are canonical changes only through ordered batches
of *rollback* and *apply* events. Every batch runs in one transaction that also
moves a checkpoint and appends to an outbox, and a dispatcher publishes that
outbox to Kafka. The modules in this directory model the code that decides what
is canonical, writes it and publishes it. They were translated from the Rust and
SQL sources; `PROJECT.json` maps every definition to its lines.

## 1. Inventory

| Part | State it keeps | Operations | Talks to |
|---|---|---|---|
| Postgres writer, `sink/postgres.rs` | tables `blocks`, `logs`, `outbox_events`, `checkpoint` | `apply_batch` (one transaction) | called by the live sink and the backfill committer |
| `ChainState`, `core/chain.rs` | tip, known canonical headers, bounded header cache, finalized height | `apply(head)`, start from stored headers | asks an `AncestryResolver` for canonical rows and provider headers |
| Live tracker, `core/live.rs` and `cli/live_runtime.rs` | none between runs but the database | `run_with_cancellation`: compare, catch up, hand over to `ChainState` | provider (RPC), sink (database) |
| Startup reconciliation, `sink/postgres.rs` | locals of one call | `reconcile_to_head` | a block source, the writer |
| Live runtime, `cli/live_runtime.rs` | cancellation token, wakeup channel, reconnect state, shared health snapshot | `run_live`, supervisor, health server, poll, websocket and tracker tasks | starts the tracker, publishes `/ready` |
| Bounded backfill, `cli/main.rs` and `core/backfill.rs` | fetch window, range sizer, request budget, ordered coordinator | `backfill` command | provider, committer, writer |
| Kafka dispatcher, `sink/kafka.rs` | `published_at`, a row lock | `dispatch_once` | database, broker |
| Demo consumer, `cli/main.rs` | set of seen ids, group offset | print, commit the offset | broker |
| Serialized writer, `sink/postgres.rs` | bounded queue, cancellation token | `submit`, `shutdown` | writer |
| RPC client, retry, ABI, observability, configuration | - | conversions, HTTP, parsing | - |

What is hard to test here:

* *the provider moves*: every RPC answer describes a chain that may be gone by the
  next call (number then header, logs then blocks, head then catch-up);
* *deaths and lost answers*: a process dies between two statements, after COMMIT
  but before its caller knows, after a broker acknowledgement but before the mark,
  after printing but before the offset commit;
* *completion order*: range fetches finish in any order, are split, aborted and
  queued again;
* *swallowed errors*: the live sink turns a failed database read into `None`;
* *concurrent dispatchers and writers* over one outbox table;
* *tasks that share a flag*: four tasks, one cancellation token, a channel of
  capacity one, and a health snapshot that two tasks overwrite as a whole;
* *a queue that is cancelled while full*: batches that were accepted, the
  `select!` that may take either ready branch, and the drain;
* *boundaries*: cache capacity, depth limit, finalized height, adaptive range size,
  request budget.

`PROJECT.json` lists these hazards at their lines, with the properties that would
catch each of them.

## 2. Modules

Every module keeps the code's control flow and abstracts its data. A block is a
model value that stands for its hash; `Parent` and `Height` are functions of the
block because the hash binds the header.

| Module | Models | Composition |
|---|---|---|
| `PostgresWriter` | `apply_batch`, one action per statement group | - |
| `AtomicStore` | what `apply_batch` promises: whole batches in one step | implemented by `PostgresWriter` |
| `PostgresWriterProofs` | theorems about `PostgresWriter`, the refinement included | extends it |
| `HeaderTree` | headers with parent and height, and what one chain of them is | base module |
| `ChainState` | `ChainState::apply`, one resolver call per step | extends `HeaderTree` |
| `ChainSession` | one `ChainState` across many heads, its batches persisted | extends `ChainState` |
| `StartupReconciliation` | deaths, `reconcile_to_head`, and the `ChainState` started after it | extends `ChainSession` |
| `CanonicalLedger` | what readers of the rows may rely on: one chain with a top, replaced only above one of its blocks, never where it is final | extends `HeaderTree`; implemented by `StartupReconciliation` and `LiveTracker` |
| `ChainStateProofs` | lemmas about headers, chains and one call of `apply`, for the proofs about its callers | extends `ChainState` |
| `ChainSessionProofs` | theorems about `ChainState`, its caller and the startup reconciliation | extends `StartupReconciliation`, `ChainStateProofs` |
| `LiveTracker` | a reconciliation, its RPC source, its Postgres sink, the provider | extends `ChainState` |
| `LiveTrackerProofs` | theorems about `LiveTracker` | extends it and `ChainStateProofs` |
| `LiveRuntime` | `run_live`, the supervisor, its tasks, the wakeup channel, the health state | - |
| `LiveRuntimeProofs` | theorems about `LiveRuntime` | extends it |
| `SerializedWriter` | `SerializedWriter`, `writer_loop`: queue, cancellation, drain | - |
| `BatchJournal` | what a caller may rely on: accepted batches are applied in order, none skipped | implemented by `SerializedWriter` |
| `SerializedWriterProofs` | theorems about `SerializedWriter`, the refinement included | extends it |
| `OutboxDispatcher` | writers, dispatchers, broker, consumer | - |
| `OutboxDispatcherProofs` | theorems about `OutboxDispatcher` | extends it |
| `Backfill` | the fetch loop, tasks, coordinator, committer, the provider | - |
| `BackfillProofs` | theorems about `Backfill` | extends it |
| `MC...` | finite instances for TLC | extend the module in their name |

A definition marked `Variant:` is a plausible mistake in the definition below it.
Substituted for that definition, it makes the property named for it in
`PROJECT.json` fail. No specification uses one.

### PostgresWriter

`rows`, `logs`, `outbox` and `checkpoint` are the committed tables; `txRows` to
`txCheckpoint` are what the open transaction sees. `Begin`, `RollbackEvent`,
`ApplyEvent`, `MoveCheckpoint` and `Commit` follow `apply_batch_inner`. The early
returns are actions of their own: `RollbackMissing` (`MissingRollbackBlock`),
`ApplyConflict` (the unique index) and `CheckpointRefused`
(`NonCanonicalCheckpoint`). `Crash` covers a death, a cancelled call or a failed
statement anywhere before COMMIT. Dying after COMMIT needs no action: the caller
may submit the same batch again, and `lastBatch` remembers it. `upsert_logs` is
the set of blocks whose logs are stored. One writer per chain is assumed, as in the
code (`chain_id` is in every key, and the runtime starts one writer).

### ChainState, ChainSession and StartupReconciliation

`memory` (tip, known, cache, finalized height) is the object and `walk` the local
state of a call in progress. `known` stands for both `canonical_by_height` and
`canonical_hashes`. `ApplyDuplicate`, `ApplyFirst` and `ApplyExtend` return at
once; `ApplyElsewhere` starts the walk: `AncestorFound`, `AncestorStep`,
`RollbackStep`, `RollbackDone`. The resolver's answers are parameters, so each
module that extends `ChainState` decides who answers: in `ChainSession` any answer
the interface allows, in `LiveTracker` the provider and the sink. `CacheInsert`
keeps the FIFO eviction. Headers may be malformed: a block's height need not be
its parent's plus one.

`StartupReconciliation` puts deaths between the sessions. `Die` loses the object
and leaves the rows; then `ReadHead`, `CommonFound`, `WalkBack`, `FetchBlock` and
`CommitReconciliation` follow `reconcile_to_head`, one call of the source a step,
and `CompareFails`, `FetchFails` and `CallFails` are its errors. The source answers
by height and may be on another branch at every call, or answer nothing.
`StartSession` is `from_tip` and `from_canonical_chain`: a suffix of the rows, of
any length. The specification also starts from every chain an earlier process may
have left. The checkpoint is the topmost row; rows above a checkpoint are
`LiveTracker`'s subject (`live_after_rerun`).

### LiveTracker

`pc` follows `run_with_cancellation`. `ReadNumber` and `ReadHeader` are the two
calls of `poll_head`. `Compare*` are the branches on checkpoint and head.
`FetchAndPushHeight` is one height of the catch-up, including the coordinator, the
second coordinator in `commit_one_block` and the writer. `ReconcileCurrentHead`,
`SeedChainState`, `ApplyHead`, `Walk` and `CommitBatch` are the hand-over to
`ChainState`. A write is atomic here, which `ImplementsAtomicStore` justifies.
`Move` changes the provider's head between any two steps. `SinkFails` and
`WalkBlind` are database reads whose error `BlockingPostgresLiveSink` turns into
`None`; `Fail` is any other failed call, a shutdown or a death. The verifier's
answer is arbitrary. The readiness effect of `WindowBudget` is left out.

### LiveRuntime

`stage` follows `run_live` through the primary, the verifier and the database to
the supervisor; each early return drops the health server. `task` says how each of
the four tasks ended. `JoinFirst` is the first exit in `run_until_first_exit`, which
cancels the token and decides the result; `JoinRest` is the drain.
`health` is the snapshot, and every writer of it replaces the whole:
`MarkDegraded` (websocket task), `MarkCorrectnessStop`, `UpdateLiveStatus` (tracker).
`pending` is the capacity-one channel, whose `try_send` drops a second wakeup.
`reconnect` is the tracker's `ReconnectLoop`.

A reconciliation is a path through `run_with_cancellation` over a coarse picture of the
rows: the height of the `checkpoint`, and `forked`, whether the rows are on none of the
branches the provider has shown since the run read its head (a head that is handed to
ChainState, or a block read by number, is such a showing). `ReadHead` and `Compare` choose the path; `CommitNext`
catches up height by height; `CatchUpBreaks` and `RereadHead` are a block that does not
continue the rows and `reconcile_current_head`; `ChainStateCommits` is `apply_chain_state`
(what its batch looks like is `LiveTracker`'s subject). Nothing at the end of a path checks
that the head was reached. `unread` records which `sink.checkpoint()` reads the database
failed, since the sink answers `None` for them: `ChainStateSkipped` then writes nothing and
returns Ok, and `Reconciled` then has no final checkpoint, for which `Gap` is 0. A failed
read in `Compare` halts the tracker (`TrackerHalts`) or, with a configured start, ends in
an error of the catch-up from that start (`TrackerFails`). `TrackerCancelled` and
`PublishFails` are the other ends, and `TaskPanics` the `catch_unwind`.

### SerializedWriter

`Submit` and `SendThroughClone` put a batch into the channel if it has room;
`Shutdown`, `ShutdownReturns` (also on its timeout), `DropHandle` and `DropClone` are
the ways a caller lets go. The loop is `Recv`, `RecvNone`, `SeeCancelled` (which
closes the channel), `DrainRecv` and `DrainDone`. When the token is cancelled and a
batch is ready, either branch of `select!` may be taken, as tokio chooses at random.
`apply_batch` is one step; `ApplyFails` covers an error before and after its COMMIT.

### OutboxDispatcher

Ids are drawn when a row is inserted and become visible at COMMIT. `SelectRows` to
`SkipRow` are `SELECT ... ORDER BY event_id LIMIT 1 FOR UPDATE` under READ
COMMITTED: a snapshot, then row by row a wait for the lock and a second look at the
condition. `LoseConnection` ends the session, and with it the lock, while the
dispatcher waits for the broker. A failed publish may be appended at any later
time (`LateAppend`).

### Backfill

`FillQueued`, `FillNext` and `FillDone` are `fill_fetch_window`. Each task reads logs
(`FetchLogs`), then blocks (`FetchBlocks`), and is charged for every attempt.
`Join*` is one turn of the `join_next` loop, `Drain*` one iteration of
`drain_ready_async`, and `Finish` the checks after the loop. The blocks of one
fetched range come from one chain because `validate_headers` rejects the rest.
Filling the window shares nothing with the tasks, so tasks move only while the
loop waits. `ReadReference` to `CompareReference` are `--verify-reference`: the
reference may be on any chain and on another one at every read, its reads are charged
to the same budget, and a provider limit ends the command here, unlike in the main
loop, which splits the range. `StartFails` is an error before the first fetch.
`Again` repeats the command with the same range, on whichever branch the provider is by
then; `RowsOneChain` speaks of such reruns only. A run over an adjacent range would take
its anchor from the provider without comparing it with the stored row of that height
(`cli/main.rs:362`), so two ranges fetched on different branches could meet there.

## 3. Runs

| Run | Shows |
|---|---|
| `postgres_writer` | Readers never see part of a batch (`ImplementsAtomicStore`); one canonical block per height; the checkpoint is canonical; the outbox replays to the canonical rows; a replayed batch changes nothing. |
| `chain_session` | Whatever the resolver answers, a returned batch is a path from the tip to the head that the writer accepts, with a two-entry cache and changing finalized heights. After a death `reconcile_to_head` replaces only a top part of the rows, leaves one chain, and the next `ChainState` is again in step with it. Taken together the rows implement `CanonicalLedger`. |
| `live_tracker` | The durable rows stay one chain with the checkpoint on top; a Ready run is caught up; to its readers the database is a `CanonicalLedger`, in which finalized blocks stay. |
| `live_converges` | Once the provider and the faults stop, the provider's head becomes canonical for good. |
| `live_runtime` | No head is forgotten however wakeups are coalesced; a ready report was earned, except as far as failed reads of the checkpoint hide that it was not; a correctness stop stays closed; no failure is reported as success; one exit ends the process; a degraded report heals. |
| `serialized_writer` | The queue implements `BatchJournal`; nothing accepted is skipped or reordered; every accepted batch is applied unless the loop ends with an error. |
| `outbox` | No event of a chain overtakes an earlier one; nothing is marked that the broker does not have; the consumer's view has no gap; every committed row is published, marked and printed in the end. |
| `backfill` | Every height is in exactly one place; what is committed is one chain; success means a complete chain up to the captured head and, as far as the reference was on it, complete logs; a run ends. |

Four runs state a sentence of the documentation that the code does not keep. TLC
finds each violated; `PROJECT.json` quotes the sentence under "findings".

| Run | Counterexample |
|---|---|
| `live_height_alone` | Below the checkpoint, the head is read twice and the *first* answer is handed on. If that was our own block and the second was not, rows are rolled back with no replacement. |
| `live_after_rerun` | An interrupted second backfill leaves canonical rows above the checkpoint. When the provider has left that branch, every live run ends in the same unique-index error. |
| `live_outage` | The websocket task reports the service degraded and waits to reconnect; a poll then reconciles and publishes ready, while the design notes keep readiness away for the whole outage. |
| `backfill_logs` | Logs are read by height before blocks. A block with logs that replaces one without in between is committed without its logs. |

Differences between code and documentation that were met while modelling and have
no run of their own:

* `resolve_common_ancestor` (`core/chain.rs:361`) counts the replacement headers it
  walks, so a shallow reorganisation whose new branch is longer than the limit halts
  with `MaxReorgDepth`. `docs/m4-design-notes.md:57` speaks of the depth of the
  reorganisation.
* `--start-block` above 0 on an empty database (`core/live.rs:305`) always ends in
  `MissingParentAnchor`; `README.md:113` offers it as a starting point.
* The readiness of a tracker report (a lagging provider) is
  dropped by `reconcile_and_publish`, which computes it from the reconnect state;
  `docs/m4-design-notes.md:30` and `:167` have such a provider reported as degraded.
  `ReadyIsEarned` is about what the code computes: a head below the checkpoint has been
  reached, and the service is ready.
* A database error while `apply_chain_state` reads the checkpoint (`core/live.rs:422`,
  `cli/live_runtime.rs:475`) is taken for success of a reconciliation that did nothing.
  At equal heights one such error has the service reported ready while its rows are on
  another branch than the head. When the head is higher, the gap has it reported degraded,
  unless the final read fails too: then the gap is 0 (`cli/live_runtime.rs:934`) and the
  service is ready and behind. The next poll repairs both. `ReadyIsEarned` names these two
  exceptions and excludes every other.
* A transient RPC error that leaves `tracker_task` ends the process;
  `docs/m4-design-notes.md:109` has it retried. `reconnect_count` is therefore always
  0 in what is published.
* A task that fails for another reason than the provider (a database error, a panic)
  leaves the last health snapshot as it was until the process is gone;
  `docs/m4-design-notes.md:95` has readiness marked unavailable.
* A shutdown in the middle of a reconciliation may make `run_live` return an error
  although the end was asked for. The reverse, success that nobody asked for, is
  excluded by `OkOnlyOnRequest`.
* `reconcile_to_head` rolls back the rows above a head that is below the checkpoint
  without counting them against `max_walk_back_depth`. `ReconciliationReplacesTop`
  states the limit with that exception.
* `event_id`s are drawn before COMMIT, so with writers of two chains on one database a
  later id can be published before an earlier one commits, although `kafka.rs:205`
  promises `event_id` order. Within a chain the order holds
  (`DeliveredInChainOrder`).

### Bounds

* `postgres_writer`: a fork at height 1 and a block above it. The batches are all
  single events, the multi-event batches both callers build on this tree, and two
  that no caller should build. The outbox is bounded at the length in the cfg
  (`MaxOutbox`), enough for an apply, its rollback and its return.
* `chain_session`: eight blocks, two of them malformed or above a malformed one;
  cache of 2 and depth limit of 2, so eviction and the limit both happen. One death at
  any point, and a start from every chain of the eight blocks, stand for longer
  histories of deaths: a process leaves nothing but rows. `max_walk_back_depth` is 1, so a
  walk succeeds, fails at the limit and fails at the bottom.
* `live_tracker`: a fork deep enough to trip the limit of 2, one malformed header,
  finalized height none or 2, two provider moves and two faults in every
  combination. Two moves reach "away and back" and "changed between two reads".
* `live_converges`: well-formed heads and a depth limit that is never reached,
  because beyond the limit the tracker is meant to halt.
* `live_runtime`: one new head after the first, which may arrive before, during and
  after a reconciliation and during an outage; two faults of any kind (two lost
  connections, a panic during a shutdown, a failure after a halt). The new head may be on
  another branch at no cost, so the two faults reach both failed checkpoint reads of one
  reconciliation: ready on another branch, ready and behind, and degraded by the gap all
  occur. With and without a websocket primary and a verifier.
* `serialized_writer`: two distinct batches, capacity 2 and five batches in all: the
  queue fills, empties and fills again, with a batch in hand. The proof holds for every
  capacity and number.
* `outbox`: two chains, two dispatchers, two events, three faults, five messages.
  Two events meet as one chain's pair and as one of each chain; three faults reach a
  broken lock, a failed publish appended late and a consumer restart in one behaviour.
  No symmetry: the run checks liveness.
* `backfill`: heights 1 to 3, forks at heights 1 and 2 inside the first range, two
  workers, sizes 1 to 2, a request budget of 10 (a clean run with its comparison needs
  8, one that recovers from an invalidated suffix 10), two moves, one fault, two runs of
  the command. `backfill_logs` runs without the comparison.

Deadlock is not checked in `backfill`, `live_runtime` and `serialized_writer`, which
end, nor in `outbox`, where everything may have been delivered.

### Fairness

* `FairLiveSpec`: weak fairness of the tracker's own steps and of `Restart`. The
  poll task wakes the tracker periodically whatever happens to the websocket, every
  RPC call has a timeout, and the deployment restarts a process that exits. Nothing
  is assumed of the provider; the faults are bounded, which says "once they stop".
  `Foreign` exempts a provider that shares no stored block with the database.
* `OutboxDispatcher!FairSpec`: weak fairness of each dispatcher and of the consumer.
  Both are endless loops. A dispatcher stops at a publish error by design, and an
  operator starts it again. Writers and late appends are under no obligation.
* `LiveRuntime!FairSpec`: weak fairness of each task's steps and of the supervisor: the
  executor polls a task that can go on, the poll interval and the reconnect sleep fire,
  calls have timeouts. Failures, signals and new heads are not promised. What the health
  server does is fair only after cancellation.
* `SerializedWriter!FairSpec`: weak fairness of `writer_loop` alone. Callers promise nothing,
  and which branch `select!` takes is not assumed.
* `Backfill!FairSpec`: weak fairness of the loop and its tasks together; each call
  has a timeout. A retry may go on for ever as far as fairness is concerned: the
  request budget is what ends the run.

## 4. Proofs

`PostgresWriterProofs` proves, for every set of blocks and batches:

* `TypeCorrect`: the type invariant, including that outside a transaction its view
  is what is committed;
* `HeightsUnique`, `CheckpointSafe`, `OutboxJournal`: the three safety invariants of
  the `postgres_writer` run;
* `ReplaySilent`: the action property that a replay of the last batch is silent.

Assumptions: `None` is no block, heights are naturals, batches are well typed, and
a batch without a common ancestor contains only applies (`AnchorAssumption`: this is
how both producers build bootstrap and extension batches; without it a batch could
end with no checkpoint target). TLC evaluates all four on the instance.

The three invariants are not inductive: at COMMIT the tables take over the
transaction's view, about which they say nothing. `Consistent` therefore states
them for both copies, and adds that a transaction past its first event has a
checkpoint target and that one about to commit has a canonical one. The main lemma
is `JournalAppend`: appending the event that explains a row's change keeps
`RowsExplained` and `Alternates`. For the replay, `Replayable` adds that the last
batch's effects are in the tables and that a transaction repeating it has changed
nothing so far. It needs the batch to name each block once. `RowsTakeTheBatch` (below) shows both
of a batch that `apply` returns to a session: it rolls nothing back without an anchor and
names no block twice. A batch of the live tracker may, after a failed sink read, roll back and
apply the same block; but the tracker does not submit a batch again, its next run starts from
the checkpoint.

`WriterIsAtomic` is the refinement `Spec => ImplementsAtomicStore`: the committed tables
implement `AtomicStore`, in which a whole batch is one step. COMMIT maps to that step, every
other action to a stutter. What the transaction has done so far is not part of the abstract
state, so `Underway` describes it: the transaction's view of a block is the state the handled
events give it, starting from the committed rows, and its outbox is the committed one
continued by the changes of those events. The lemmas `StateStep` and `ContinuedStep` say
what one more event adds; `CommitApplies` reads the abstract step off `Underway` once all
events are handled. A replayed batch maps to the step that changes nothing, by `Replayable`.

`SerializedWriterProofs` proves, for every set of batches, every positive capacity and
every number of batches:

* `TypeCorrect`: the type invariant, with the channel within its capacity;
* `NothingIsSkipped`: what was accepted is what was applied followed by what the loop
  holds and the channel contains, until the loop ends with an error;
* `Refinement`: `Spec => ImplementsBatchJournal`. The abstract `outcome` is the operator
  `Outcome` of the loop's state; `accepted` and `applied` are the writer's own.

`TypeOK /\ NothingSkipped` is inductive. The first group of lemmas says what `Append`, `Tail`
and `\o` do to the equation of `NothingSkipped`; `InHandIsNext` derives from it that the batch
in hand is the one the journal must apply next, and `StepRefines` needs exactly that: without
it a step of the loop could apply a batch out of turn. Sending maps to `Accept`, a successful
or failed apply to `ApplyNext` or `Failed`, the end of the loop to `Drained`, and everything
else to a stutter.

`LiveRuntimeProofs` proves, for every number of heads and faults: `TypeCorrect`;
`ReadinessEarned` (while the tracker rests, a snapshot that says ready means undisputed,
caught up unless both checkpoint reads of the reconciliation failed, and on a branch the
provider showed unless the first did);
`SuccessIsRequested` (`run_live` returns Ok only if the end was asked for); and the action
property `StopIsFinal` (after a correctness stop readiness never comes back). `RuntimeInv` adds
what the code relies on without saying it: every way through a reconciliation but the one
on which `apply_chain_state` reads no checkpoint ends with the head's height reached, on a
branch the provider showed (`EveryWayArrives`; no guard says so, it is carried from `Compare` through the catch-up and
the hand-over, and the gap test covers part of the remaining way); the tracker's loop runs
exactly while its task does; until a task is joined only a signal cancels the token; a tracker that leaves by the token
has dropped its readiness; after a correctness stop there is no tracker and there will be none,
which is what keeps a later publication from taking the stop back; and the `ReconnectLoop`
counts at most one failure, because `reconcile_and_publish` gives up at the first.

`OutboxDispatcherProofs` proves, for every number of chains, dispatchers, events and faults:
`OutboxTypeCorrect`, `MarkedIsDelivered`, `TopicInChainOrder` and `ViewInChainOrder`, that is
`PublishedIsDelivered`, `DeliveredInChainOrder` and `ViewHasNoGap`. The order of the topic
is not inductive by itself: what matters is what is on its way. `OutboxInv` says that a
row in a dispatcher's hands, and a message whose sender gave up, is `Deliverable` (every
earlier event of its chain is with the broker), and that the rows a SELECT has yet to visit are
closed downwards per chain except for rows published meanwhile. `IdsAreFresh` is the one
fact about writers it rests on: one writer per chain inserts and commits in turn. For the
consumer, `OffsetBehindView` says that everything below the offset was printed.

`ChainStateProofs` holds what both callers of `ChainState` need. `CallInv(old)` is the invariant
of one call of `apply` made when the tip was `old`, while nobody writes the rows: the new branch
found so far descends from the head to the cursor, the old one from the tip, and the latter is
exactly what lies above the cursor among the rows (`RollbackOnRows`); without that, the rows left
after a batch could have a hole. `CallBegins` and `CallWalks` show that the steps of a call
keep it, whatever the resolver answers, even if it denies a row that exists. `BatchIsTaken`,
`BatchLeavesChain` and `BatchIsGraft` are what the writer makes of the result. The tree
lemmas (`DescendsFurther`, `PathUpwards`, `Grafted`) carry the step from a path to a chain of
rows. What the cache holds plays no part in any of this: it is only ever asked for a header that
its hash determines. How much it holds does matter to the types: `InsertedAll` shows that a
whole commit leaves the cache within its capacity. `CacheInsertAll` is a recursive function
on the headers inserted so far; `Upwards` replaces the induction over it by the least index at
which the bound would fail.

`ChainSessionProofs` proves for every block tree (malformed headers included), cache
size, depth limit, answer of the source and number of deaths, about `StartupSpec`:

* `StartupTypes` (`StartupTypeOK`), the cache within its capacity;
* `BatchesArePaths`, `RowsTakeTheBatch`, `TipIsDurableTop` and `OnlyTheTopIsReplaced`, that is
  `ReturnedBatchIsPath`, `BatchFitsRows`, `TipFollowsDurable` and `ReconciliationReplacesTop`;
* `StartupImplementsLedger`, the refinement `StartupSpec => ImplementsLedger`, and
  `NothingFinalizedIsLost` (`FinalizedStays`), which follows from it.

`StartupInv` is `CallInv` for a session, with what is left of a session after a batch that only
rolled back; for the reconciliation it says that what was fetched follows the common block one
height after another, and how far the walk has come. That a batch names no block twice needs
`NamedOnce` besides: the new branch consists of headers that were looked up and not found among
the rows, and the old one goes down one height at a time.

In the refinement the rows are `canonical`, the top is the checkpoint row and the floor is the
finalized height of the running `ChainState` (0 without one, or when none is set). A step
that leaves the rows alone maps to `SetFloor` or a stutter. `LedgerGrows` is the other case:
there are two transactions (`TwoTransactions`), a batch of `apply` and a reconciliation, and each
is a `Begin` on an empty database or a `Graft` on the common ancestor. A session never grafts
below the floor unless it loses nothing, by `enforce_finalized_boundary`; a reconciliation may
go below an earlier floor, because no `ChainState` is there to hold one, which is what the floor of
0 says. `LedgerKeepsFinal` proves of the ledger itself that it loses nothing final.

`LiveTrackerProofs` proves for every block tree and any number of provider moves and faults:

* `LiveTypes` (`LiveTypeOK`);
* `RowsStayOneChain`, `BatchesLeadToHead` and `ReadyHasCaughtUp`, that is `CanonicalIsChain`,
  `BatchLeadsToHead` and `ReadyIsCaughtUp`;
* `LiveImplementsLedger`, the refinement `LiveSpec => ImplementsLedger`, and
  `NothingFinalizedIsReplaced` (`LiveFinalizedStays`), which follows from it.

All but the first assume `Overhang = 0`, a database without rows above its checkpoint:
`live_after_rerun` shows that the tracker does not get along with one that has them. The types
hold for any `Overhang`: each action has a lemma of its own that needs no more than the types
themselves, so they say nothing about the order of a run. `LiveInv` adds where a run stands. The
sink's own anchor is the checkpoint throughout; this is what stops a catch-up that starts at
height 0 because the checkpoint could not be read. The coordinator of the catch-up stands on the
checkpoint, no run asks `ChainState` without one, and from then on `CallInv(checkpoint)` holds with
the observed head. A sink read that fails during the walk only makes the batch longer: it rolls
back and applies again the rows it went past. For the ledger the checkpoint is the
top and the configured height the floor, and `LedgerTransactions` lists the writes: a catch-up
block is a `Begin` or a `Graft` on the checkpoint, a batch a `Graft` on its ancestor.

`BackfillProofs` proves, for every range, worker count, sizer, budget and set of chains:
`BackfillTypeCorrect`, `EveryHeightHandledOnce`, `CommitsAreChain`, `RowsAreOneChain` and
`SuccessIsComplete`. Assumptions beyond the types: what `BackfillRange::new`,
`LogRangeSizer::new` and `RpcBudget::new` enforce, and that a block has one height on every
chain. `BackfillInv` says that queued, running and buffered ranges lie between the next height
to commit and the next one to hand out (`Bounded`), do not overlap (`Apart`) and leave nothing
out (`Covered`). `EveryHeightOnce` alone does not survive a split or an invalidated suffix,
since it says nothing about the shape of a range. `ChunksPartition` is the arithmetic of
`enqueue_chunks_front`: a range is split completely and without overlap.

Only model-checked: the liveness properties (`Converges`, `EveryRowIsPrinted`,
`HeadsBecomeDurable`, `EveryExitEndsTheProcess`, `DegradationHeals`, `EveryAcceptedBatchIsApplied`,
`RunEnds`), since fairness and `ENABLED` are out of the prover's reach. Every invariant, action
property and refinement that a passing run checks is also a theorem.

## 5. Not modelled

* `WindowBudget` and `WindowedLiveBudget`: the first only lowers a readiness that is dropped
  later, the second only sleeps. In `LiveRuntime` a sleeping call is a call under way.
* The delays `ReconnectPolicy` computes: the caller drops them.
* Pure functions of `core/backfill.rs` (`RangePlanner::plan`, `RetryPolicy::backoff`,
  `RpcFailure::from_rpc_message`, `BackfillHandoff`): `Backfill` models the effect of a retry,
  one more charged attempt or giving up. A unit test reaches what is left of them.
* JSON-RPC conversion, ABI decoding and `redecode_retained_logs`: conversions that
  touch no canonical state. Their answers are inputs of `Backfill` and `LiveTracker`.
* HTTP, JSON and metrics rendering of the observability server; `mark_healthy` and
  `mark_ready`, which the live process never calls.
* Configuration, and how two chain identities are compared: both happen once before any
  write. What validation guarantees is an `ASSUME`; a refused identity is an early return
  of `LiveRuntime` and `Backfill`.
* Backfill runs over different ranges of one database: see the note on `Again` above.
* Statement-level concurrency between two writers of one chain: the runtime starts one.
* `block_status` transitions (`safe`, `finalized`): the schema allows such outbox
  events; no code produces them.

## 6. Plan

The modules were written in this order: `PostgresWriter` and `AtomicStore`, `ChainState` and
`ChainSession`, `LiveTracker`, `OutboxDispatcher`, `Backfill`, then `LiveRuntime`,
`SerializedWriter` with `BatchJournal`, `StartupReconciliation`, and last `CanonicalLedger`.
`Backfill` is not mapped to the ledger: its heights are those of the given chains, and
a repeated run moves the checkpoint back below rows that stay, which no step of the ledger does.
`RowsOneChain` is what it keeps instead. What is left: the pure algorithms of `core/backfill.rs`
against reference definitions over bounded inputs.
