------------------------------ MODULE Backfill ------------------------------
(***************************************************************************)
(* A bounded backfill: fetch_and_commit_ranges keeps a window of range     *)
(* fetches in flight, OrderedCommitCoordinator buffers the results and     *)
(* commits them in height order, one transaction per range.  Fetches end   *)
(* in any order, the provider's chain changes between them, ranges are     *)
(* split when a provider limits them, and a suffix that no longer follows  *)
(* what was committed is thrown away and fetched again.  In the end the    *)
(* stored logs may be compared with a reference provider's.                *)
(*                                                                         *)
(* The provider's canonical chain is a function from heights to blocks.  A *)
(* fetch reads the logs of a range first and its blocks afterwards, which  *)
(* may be on another chain.  The blocks of one fetch are of one chain:     *)
(* validate_headers fails the fetch, and with it the run, when they do not *)
(* link, and linked headers are determined by the last of them.            *)
(***************************************************************************)
EXTENDS Naturals, Sequences, FiniteSets

CONSTANTS
    Blocks,
    None,
    Parent,         \* parent_hash
    Chains,         \* the chains the provider may be on: heights 0..ToBlock
    HasLogs,        \* the blocks with logs the filter matches
    FromBlock, ToBlock,
    ToIsHead,       \* --to-block is the head captured at the start
    Workers,
    InitialSpan, MinSpan, MaxSpan,
    MaxRequests,    \* rpc_max_requests
    VerifyReference,    \* --verify-reference
    MaxMoves,       \* bound: the provider's chain changes
    MaxFaults,      \* bound: fetches that give up and process deaths
    MaxRuns         \* bound: runs of the command

ASSUME NoneAssumption == None \notin Blocks
ASSUME ChainsAssumption ==
    /\ Chains \subseteq [0..ToBlock -> Blocks]
    /\ \A c \in Chains : \A h \in 1..ToBlock : Parent[c[h]] = c[h - 1]
    /\ \A c, d \in Chains : \A h, i \in 0..ToBlock : c[h] = d[i] => h = i
ASSUME LogsAssumption == HasLogs \subseteq Blocks
ASSUME ReferenceAssumption == VerifyReference \in BOOLEAN
\* BackfillRange::new, LogRangeSizer::new and RpcBudget::new refuse anything else.
ASSUME SpanAssumption ==
    /\ {FromBlock, ToBlock, Workers, MaxRequests} \subseteq Nat
    /\ {InitialSpan, MinSpan, MaxSpan} \subseteq Nat
    /\ FromBlock <= ToBlock /\ 0 < Workers /\ 0 < MaxRequests
    /\ 0 < MinSpan /\ MinSpan <= InitialSpan /\ InitialSpan <= MaxSpan
ASSUME BoundsAssumption == {MaxMoves, MaxFaults, MaxRuns} \subseteq Nat

VARIABLES
    chain,          \* the provider's chain now
    moves, faults,
    runs,           \* runs begun
    rows,           \* durable: canonical rows
    logged,         \* durable: blocks whose logs are stored
    checkpoint,     \* durable: checkpoint
    pc,             \* ready, anchor, fill, join, drain, reference, done, failed
    captured,       \* hash of target_head
    span,           \* LogRangeSizer::current_blocks, of the sizer in use
    queued,         \* ranges to fetch before unallocated ones
    nextUnallocated,
    tasks,          \* the JoinSet: fetches in flight or ended, not yet joined
    requests,       \* RpcBudget::requests
    nextHeight,     \* OrderedCommitCoordinator::next_height
    anchor,         \* OrderedCommitCoordinator::parent_anchor
    pending,        \* OrderedCommitCoordinator::pending
    refused,        \* history: the coordinator refused a range
    reference       \* the reference's blocks, from FromBlock as far as it was asked

durable == <<rows, logged, checkpoint>>
window == <<span, queued, nextUnallocated, tasks, requests>>
coordinator == <<nextHeight, anchor, pending, refused>>
vars == <<chain, moves, faults, runs, durable, pc, captured, window, coordinator,
          reference>>

Smaller(a, b) == IF a < b THEN a ELSE b
Larger(a, b) == IF a > b THEN a ELSE b

\* A BackfillRange, and how far fetch_range_with_retry has come with it: the blocks
\* the logs that came back are of, and the blocks that came back.
Fetch(from, to) ==
    [from |-> from, to |-> to, at |-> "logs", logs |-> {}, blocks |-> <<>>]
Heights(r) == r.from..r.to
Span(r) == r.to - r.from + 1

\* enqueue_chunks_front splits a range into chunks of a size.
Chunks(from, to, size) ==
    [i \in 1..(to - from + size) \div size |->
        Fetch(from + (i - 1) * size, Smaller(from + i * size - 1, to))]

\* Variant: growth is not capped.
GrowUncapped(s) == Larger(s * 2, MinSpan)

\* record_success and record_provider_limit.
Grow(s) == Larger(Smaller(s * 2, MaxSpan), MinSpan)
Shrink(s) == Larger(s \div 2, MinSpan)

\* next_range.
NextRange(from) == Fetch(from, Smaller(from + span - 1, ToBlock))

Init ==
    /\ chain \in Chains
    /\ moves = 0
    /\ faults = 0
    /\ runs = 0
    /\ rows = {}
    /\ logged = {}
    /\ checkpoint = None
    /\ pc = "ready"
    /\ captured = None
    /\ span = InitialSpan
    /\ queued = <<>>
    /\ nextUnallocated = FromBlock
    /\ tasks = {}
    /\ requests = 0
    /\ nextHeight = FromBlock
    /\ anchor = None
    /\ pending = {}
    /\ refused = FALSE
    /\ reference = <<>>
-----------------------------------------------------------------------------
(* run_backfill up to the first fetch: capture the head, then read the header *)
(* below the range as parent anchor; the provider may be asked on two chains. *)

Capture ==
    /\ pc = "ready"
    /\ runs < MaxRuns
    /\ runs' = runs + 1
    /\ pc' = "anchor"
    /\ captured' = chain[ToBlock]
    /\ UNCHANGED <<chain, moves, faults, durable, window, coordinator, reference>>

Start ==
    /\ pc = "anchor"
    /\ pc' = "fill"
    /\ requests' = IF FromBlock = 0 THEN 0 ELSE 1
    /\ anchor' = IF FromBlock = 0 THEN None ELSE chain[FromBlock - 1]
    /\ UNCHANGED <<chain, moves, faults, runs, durable, captured, span, queued,
                   nextUnallocated, tasks, nextHeight, pending, refused, reference>>

\* The identity differs, the database cannot be used, or the shared retry gives up on
\* the anchor.  (When it gives up on the head nothing has changed yet.)
StartFails ==
    /\ pc = "anchor"
    /\ faults < MaxFaults
    /\ faults' = faults + 1
    /\ pc' = "failed"
    /\ UNCHANGED <<chain, moves, runs, durable, captured, window, coordinator,
                   reference>>
-----------------------------------------------------------------------------
(* The fetch window. *)

\* One turn of the loop in fill_fetch_window.
FillQueued ==
    /\ pc = "fill"
    /\ Cardinality(tasks) < Workers
    /\ queued # <<>>
    /\ tasks' = tasks \cup {Head(queued)}
    /\ queued' = Tail(queued)
    /\ UNCHANGED <<chain, moves, faults, runs, durable, pc, captured, span,
                   nextUnallocated, requests, coordinator, reference>>

FillNext ==
    /\ pc = "fill"
    /\ Cardinality(tasks) < Workers
    /\ queued = <<>>
    /\ nextUnallocated <= ToBlock
    /\ LET r == NextRange(nextUnallocated) IN
       /\ tasks' = tasks \cup {r}
       /\ nextUnallocated' = r.to + 1
    /\ UNCHANGED <<chain, moves, faults, runs, durable, pc, captured, span, queued,
                   requests, coordinator, reference>>

FillDone ==
    /\ pc = "fill"
    /\ \/ Cardinality(tasks) = Workers
       \/ queued = <<>> /\ nextUnallocated > ToBlock
    /\ pc' = "join"
    /\ UNCHANGED <<chain, moves, faults, runs, durable, captured, window, coordinator,
                   reference>>

\* The tasks run on other threads whenever the loop waits: in join_next, or for a
\* commit.  (Filling the window shares nothing with them.)
Fetching(t, at) == pc \in {"join", "drain"} /\ t.at = at

\* Variant: the budget is checked and not charged.
TaskGoesFree(t, next, cost) ==
    /\ tasks' = (tasks \ {t}) \cup {next}
    /\ UNCHANGED <<chain, moves, faults, runs, durable, pc, captured, span, queued,
                   nextUnallocated, requests, coordinator, reference>>

\* What a step of a task replaces, and what it charges to the shared budget.
TaskGoes(t, next, cost) ==
    /\ tasks' = (tasks \ {t}) \cup {next}
    /\ requests' = requests + cost
    /\ UNCHANGED <<chain, moves, faults, runs, durable, pc, captured, span, queued,
                   nextUnallocated, coordinator, reference>>

Affords(cost) == requests + cost <= MaxRequests

\* eth_getLogs by height: each log names the block it is of.  A removed or incomplete
\* log, or one outside the range, fails the call.
AnchoredLogs(r) == {chain[h] : h \in Heights(r)} \cap HasLogs

\* eth_getBlockByNumber for every height, in one batch.
BlocksByNumber(r) == [h \in Heights(r) |-> chain[h]]

\* fetch_logs_with_retry: one eth_getLogs for the range, answered or limited.
FetchLogs(t) ==
    /\ Fetching(t, "logs")
    /\ Affords(1)
    /\ \/ TaskGoes(t, [t EXCEPT !.at = "blocks", !.logs = AnchoredLogs(t)], 1)
       \/ TaskGoes(t, [t EXCEPT !.at = "limited"], 1)

\* A log that came back is not of the block that came back at its height.
LogMismatch(logs, blocks) == ~(logs \subseteq {blocks[h] : h \in DOMAIN blocks})

\* fetch_blocks_by_number_with_retry, then the log check: LogBlockHashMismatch
\* fails the fetch.
FetchBlocks(t) ==
    /\ Fetching(t, "blocks")
    /\ Affords(Span(t))
    /\ LET got == BlocksByNumber(t) IN
       TaskGoes(t, IF LogMismatch(t.logs, got) THEN [t EXCEPT !.at = "error"]
                   ELSE [t EXCEPT !.at = "fetched", !.blocks = got], Span(t))

\* A call times out or fails; the next attempt is charged like the first.
FetchRetry(t) ==
    \/ Fetching(t, "logs") /\ Affords(1) /\ TaskGoes(t, t, 1)
    \/ Fetching(t, "blocks") /\ Affords(Span(t)) /\ TaskGoes(t, t, Span(t))

\* RequestBudgetExceeded: what is left of the budget is used up.
BudgetExceeded(t) ==
    /\ \/ Fetching(t, "logs") /\ ~Affords(1)
       \/ Fetching(t, "blocks") /\ ~Affords(Span(t))
    /\ TaskGoes(t, [t EXCEPT !.at = "error"], MaxRequests - requests)

\* The last attempt failed, or the headers do not link.
FetchFails(t) ==
    /\ Fetching(t, "logs") \/ Fetching(t, "blocks")
    /\ faults < MaxFaults
    /\ faults' = faults + 1
    /\ tasks' = (tasks \ {t}) \cup {[t EXCEPT !.at = "error"]}
    /\ UNCHANGED <<chain, moves, runs, durable, pc, captured, span, queued,
                   nextUnallocated, requests, coordinator, reference>>

\* fetch_and_commit_ranges returns; the tasks are aborted with the JoinSet.
Abort ==
    /\ pc' = "failed"
    /\ tasks' = {}
    /\ UNCHANGED <<chain, moves, runs, durable, captured, span, queued,
                   nextUnallocated, requests, nextHeight, anchor, pending, reference>>

JoinError(t) ==
    /\ pc = "join"
    /\ t.at = "error"
    /\ Abort
    /\ UNCHANGED <<faults, refused>>

\* ProviderLimit: halve, split, put in front.
JoinLimited(t) ==
    /\ pc = "join"
    /\ t.at = "limited"
    /\ pc' = "fill"
    /\ tasks' = tasks \ {t}
    /\ span' = Shrink(span)
    /\ queued' = Chunks(t.from, t.to, Shrink(span)) \o queued
    /\ UNCHANGED <<chain, moves, faults, runs, durable, captured, nextUnallocated,
                   requests, coordinator, reference>>

\* insert_pending: RangeBeyondTarget, StaleRange, DuplicateRange.
Refuses(t) ==
    \/ t.to > ToBlock
    \/ t.from < nextHeight
    \/ \E r \in pending : r.from = t.from

JoinFetched(t) ==
    /\ pc = "join"
    /\ t.at = "fetched"
    /\ IF Refuses(t)
       THEN Abort /\ refused' = TRUE /\ UNCHANGED faults
       ELSE /\ pc' = "drain"
            /\ tasks' = tasks \ {t}
            /\ span' = Grow(span)
            /\ pending' = pending \cup {t}
            /\ UNCHANGED <<chain, moves, faults, runs, durable, captured, queued,
                           nextUnallocated, requests, nextHeight, anchor, refused,
                           reference>>
-----------------------------------------------------------------------------
(* drain_ready_async: one iteration per step, one transaction per iteration. *)

Ready == {r \in pending : r.from = nextHeight}

\* Variant: ranges are committed in order without looking at the parent.
FollowsByHeight(r) == TRUE

\* validate_ready_range against the parent anchor.
Follows(r) == anchor = None \/ Parent[r.blocks[r.from]] = anchor

AtHeight(h) == {c[h] : c \in Chains}

\* Variant: no unique index.
WriterTakesAny(r) == TRUE

\* apply_batch of the range: no other block is canonical at one of its heights.
WriterTakes(r) ==
    \A h \in Heights(r) : rows \cap AtHeight(h) \subseteq {r.blocks[h]}

DrainCommit ==
    /\ pc = "drain"
    /\ \E r \in Ready :
        /\ Follows(r)
        /\ WriterTakes(r)
        /\ rows' = rows \cup {r.blocks[h] : h \in Heights(r)}
        /\ logged' = logged \cup r.logs
        /\ checkpoint' = r.blocks[r.to]
        /\ anchor' = r.blocks[r.to]
        /\ nextHeight' = r.to + 1
        /\ pending' = pending \ {r}
    /\ UNCHANGED <<chain, moves, faults, runs, pc, captured, window, refused,
                   reference>>

\* A row of an earlier run is in the way: the unique index refuses the range.
DrainConflict ==
    /\ pc = "drain"
    /\ \E r \in Ready : Follows(r) /\ ~WriterTakes(r)
    /\ Abort
    /\ UNCHANGED <<faults, refused>>

\* Variant: the tasks in flight are left alone.
InvalidatedKeepsTasks ==
    /\ pc = "drain"
    /\ \E r \in Ready :
        /\ ~Follows(r)
        /\ queued' = Chunks(r.from, ToBlock, span)
    /\ pending' = {}
    /\ nextUnallocated' = ToBlock + 1
    /\ pc' = "fill"
    /\ UNCHANGED <<chain, moves, faults, runs, durable, captured, span, requests,
                   tasks, nextHeight, anchor, refused, reference>>

\* FetchedSuffixInvalidated: discard_suffix, abort all tasks, queue everything from
\* there on.
DrainInvalidated ==
    /\ pc = "drain"
    /\ \E r \in Ready :
        /\ ~Follows(r)
        /\ queued' = Chunks(r.from, ToBlock, span)
    /\ pending' = {}
    /\ tasks' = {}
    /\ nextUnallocated' = ToBlock + 1
    /\ pc' = "fill"
    /\ UNCHANGED <<chain, moves, faults, runs, durable, captured, span, requests,
                   nextHeight, anchor, refused, reference>>

DrainDone ==
    /\ pc = "drain"
    /\ Ready = {}
    /\ pc' = "fill"
    /\ UNCHANGED <<chain, moves, faults, runs, durable, captured, window, coordinator,
                   reference>>

\* canonical_range_summary: as many canonical rows as heights.  (The unique index
\* makes that one row at each.)
RangeComplete == \A h \in FromBlock..ToBlock : AtHeight(h) \cap rows # {}

\* Variant: the captured head is not compared.
VerifiedByHeight ==
    /\ nextHeight > ToBlock
    /\ RangeComplete
    /\ checkpoint \in AtHeight(ToBlock)

\* The JoinSet is empty: is_complete, the captured head, the canonical summary and
\* the checkpoint height.
Verified ==
    /\ nextHeight > ToBlock
    /\ ToIsHead => anchor = captured
    /\ RangeComplete
    /\ checkpoint \in AtHeight(ToBlock)

Finish ==
    /\ pc = "join"
    /\ tasks = {}
    /\ pc' = CASE ~Verified -> "failed"
               [] Verified /\ VerifyReference -> "reference"
               [] Verified /\ ~VerifyReference -> "done"
    /\ span' = IF pc' = "reference" THEN InitialSpan ELSE span
    /\ reference' = <<>>
    /\ UNCHANGED <<chain, moves, faults, runs, durable, captured, queued,
                   nextUnallocated, tasks, requests, coordinator>>
-----------------------------------------------------------------------------
(* The comparison with a reference provider, which may be on any chain, and on *)
(* another one at every read.                                                  *)

ReferenceNext == FromBlock + Len(reference)
AsksReference == pc = "reference" /\ ReferenceNext <= ToBlock

\* fetch_reference_range_with_retry, charged to the same budget.
ReadReference ==
    /\ AsksReference
    /\ Affords(1)
    /\ requests' = requests + 1
    /\ LET r == NextRange(ReferenceNext) IN
       \E c \in Chains :
           reference' = reference \o [i \in 1..Span(r) |-> c[r.from + i - 1]]
    /\ span' = Grow(span)
    /\ UNCHANGED <<chain, moves, faults, runs, durable, pc, captured, queued,
                   nextUnallocated, tasks, coordinator>>

ReferenceRetry ==
    /\ AsksReference
    /\ Affords(1)
    /\ requests' = requests + 1
    /\ UNCHANGED <<chain, moves, faults, runs, durable, pc, captured, span, queued,
                   nextUnallocated, tasks, coordinator, reference>>

\* Any error ends the command, a provider limit and an exhausted budget too: here
\* no range is split.
ReferenceFails ==
    /\ AsksReference
    /\ pc' = "failed"
    /\ UNCHANGED <<chain, moves, faults, runs, durable, captured, window, coordinator,
                   reference>>

\* canonical_log_records: the stored logs of canonical rows.
DatabaseRecords == rows \cap logged

ReferenceRecords == {reference[i] : i \in DOMAIN reference} \cap HasLogs

\* Variant: a stored log the reference has is enough.
ReferenceContains == DatabaseRecords \subseteq ReferenceRecords

ReferenceMatches == DatabaseRecords = ReferenceRecords

CompareReference ==
    /\ pc = "reference"
    /\ ReferenceNext > ToBlock
    /\ pc' = IF ReferenceMatches THEN "done" ELSE "failed"
    /\ UNCHANGED <<chain, moves, faults, runs, durable, captured, window, coordinator,
                   reference>>
-----------------------------------------------------------------------------
(* The environment. *)

\* The process dies.
Die ==
    /\ pc \in {"fill", "join", "drain", "reference"}
    /\ faults < MaxFaults
    /\ faults' = faults + 1
    /\ Abort
    /\ UNCHANGED refused

\* The operator runs the command once more, for the same range: a new process with
\* none of its state.
Again ==
    /\ pc \in {"done", "failed"}
    /\ runs < MaxRuns
    /\ pc' = "ready"
    /\ captured' = None
    /\ span' = InitialSpan
    /\ queued' = <<>>
    /\ nextUnallocated' = FromBlock
    /\ requests' = 0
    /\ nextHeight' = FromBlock
    /\ anchor' = None
    /\ pending' = {}
    /\ reference' = <<>>
    /\ UNCHANGED <<chain, moves, faults, runs, durable, tasks, refused>>

Move ==
    /\ moves < MaxMoves
    /\ moves' = moves + 1
    /\ chain' \in Chains \ {chain}
    /\ UNCHANGED <<faults, runs, durable, pc, captured, window, coordinator,
                   reference>>

TaskStep(t) ==
    FetchLogs(t) \/ FetchBlocks(t) \/ FetchRetry(t) \/ BudgetExceeded(t)

Step ==
    \/ Capture \/ Start
    \/ FillQueued \/ FillNext \/ FillDone
    \/ \E t \in tasks : TaskStep(t) \/ JoinError(t) \/ JoinLimited(t) \/ JoinFetched(t)
    \/ DrainCommit \/ DrainConflict \/ DrainInvalidated \/ DrainDone
    \/ Finish
    \/ ReadReference \/ ReferenceRetry \/ ReferenceFails \/ CompareReference

Next == Step \/ StartFails \/ (\E t \in tasks : FetchFails(t)) \/ Die \/ Again \/ Move

Spec == Init /\ [][Next]_vars

\* Every fetch is answered or times out, and the loop goes on.
FairSpec == Spec /\ WF_vars(Step)
-----------------------------------------------------------------------------
\* Every variable has its type, and the adaptive span stays within its bounds.
TypeOK ==
    /\ chain \in Chains
    /\ moves \in 0..MaxMoves /\ faults \in 0..MaxFaults /\ runs \in 0..MaxRuns
    /\ rows \subseteq Blocks /\ logged \subseteq HasLogs
    /\ {checkpoint, captured, anchor} \subseteq Blocks \cup {None}
    /\ pc \in {"ready", "anchor", "fill", "join", "drain", "reference", "done",
               "failed"}
    /\ span \in MinSpan..MaxSpan
    /\ nextUnallocated \in FromBlock..ToBlock + 1
    /\ nextHeight \in FromBlock..ToBlock + 1
    /\ requests \in 0..MaxRequests
    /\ Cardinality(tasks) <= Workers
    /\ refused \in BOOLEAN
    /\ reference \in Seq(Blocks) /\ Len(reference) <= ToBlock - FromBlock + 1

Holds(rs, h) == Cardinality({r \in rs : h \in Heights(r)})

\* In how many places a height of the range is: committed, buffered, being fetched,
\* queued, or not handed out yet.
Places(h) ==
    (IF h < nextHeight THEN 1 ELSE 0)
    + Holds(pending, h)
    + Holds(tasks, h)
    + Cardinality({i \in 1..Len(queued) : h \in Heights(queued[i])})
    + (IF h >= nextUnallocated THEN 1 ELSE 0)

\* No height is ever lost or fetched twice, through splits, discarded suffixes and
\* out-of-order completions; so the coordinator never sees a stale or a duplicate
\* range and the loop never ends early.
EveryHeightOnce ==
    /\ pc \in {"fill", "join", "drain"} =>
           \A h \in FromBlock..ToBlock : Places(h) = 1
    /\ ~refused

\* What a run committed so far is one chain: it grows from the parent anchor, block
\* by block, to the height before next_height, and the checkpoint is its top.
CommittedIsChain ==
    pc \in {"fill", "join", "drain"} /\ nextHeight > FromBlock =>
        \E c \in Chains :
            /\ c[nextHeight - 1] = anchor
            /\ \A h \in FromBlock..nextHeight - 1 : c[h] \in rows
            /\ checkpoint = anchor

\* All runs together leave one unbroken chain from the start of the range, also
\* when the provider's chain changed between them: a run on the other branch
\* either gets no further than the fork or finds nothing above it.
RowsOneChain ==
    rows # {} =>
        \E c \in Chains, top \in FromBlock..ToBlock :
            rows = {c[h] : h \in FromBlock..top}

\* A run that reports success left a complete chain over the range, ending in the
\* captured head if the range reaches it.  With --verify-reference the logs are
\* complete too, as far as the reference was on that chain when it was asked: logs
\* lost because the provider moved during a fetch do not go unnoticed.
DoneIsComplete ==
    pc = "done" =>
        \E c \in Chains :
            /\ \A h \in FromBlock..ToBlock : c[h] \in rows
            /\ checkpoint = c[ToBlock]
            /\ ToIsHead => c[ToBlock] = captured
            /\ \A i \in DOMAIN reference :
                   reference[i] \in rows \cap HasLogs => reference[i] \in logged

\* A run ends, successfully or not: a reorganisation below what is committed makes
\* every refetch mismatch, and then the request budget is what stops the loop.
RunEnds == pc = "fill" ~> pc \in {"done", "failed"}

\* "validates parent continuity and log block hashes": a committed block that has
\* logs has them stored.
CommittedBlocksHaveLogs == rows \cap HasLogs \subseteq logged
=============================================================================
