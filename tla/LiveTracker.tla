---------------------------- MODULE LiveTracker ----------------------------
(***************************************************************************)
(* LiveTracker::run_with_cancellation as the runtime drives it            *)
(* (reconcile_once): read the provider's head, compare it with the durable *)
(* checkpoint, then catch up block by block or hand the head to a fresh    *)
(* ChainState.  The provider's chain moves between any two calls, the      *)
(* process may die between any two steps, and every write is one           *)
(* transaction of PostgresWriter (an atomic step here; its statements and  *)
(* crash points are that module's subject).                                *)
(***************************************************************************)
EXTENDS ChainState

CONSTANTS
    Heads,          \* blocks the provider may report as its latest
    ExplicitStart,  \* --start-block, or None
    FinalizedHeights,  \* LiveConfig::finalized_height; 0 is None
    Overhang,       \* rows an interrupted second backfill left above the checkpoint
    MaxMoves,       \* bound on the provider's head changes
    MaxFaults       \* bound on failed calls and process deaths

ASSUME HeadsAssumption == Heads \subseteq Blocks
ASSUME StartAssumption == ExplicitStart \in Nat \cup {None}
ASSUME LiveBoundsAssumption ==
    {Overhang, MaxMoves, MaxFaults} \cup FinalizedHeights \subseteq Nat

VARIABLES
    remote,         \* the provider's latest block
    moves,
    boundary,       \* LiveConfig::finalized_height
    faults,
    blind,          \* history: a sink read failed in this run
    checkpoint,     \* durable: the block table checkpoint names
    pc,             \* where run_with_cancellation stands
    number,         \* poll_head: the height it read
    observed,       \* head
    again,          \* in reconcile_current_head
    sinkAnchor,     \* BlockingPostgresLiveSink::parent_anchor
    next,           \* OrderedCommitCoordinator::next_height
    anchor,         \* OrderedCommitCoordinator::parent_anchor
    disagree,       \* the verifier contradicted the head
    report          \* outcome of the last run: readiness or halt reason

tracker == <<number, observed, again, sinkAnchor, next, anchor, disagree>>
durable == <<canonical, checkpoint>>
world == <<remote, moves, boundary>>
trouble == <<faults, blind>>
liveVars == <<chainVars, durable, world, trouble, pc, tracker, report>>

Halts == {"MaxReorgDepth", "FinalizedBoundary", "MissingExplicitStart"}

\* The chain that ends in a block.
Ancestry[b \in Blocks] ==
    {b} \cup IF Parent[b] = None THEN {} ELSE Ancestry[Parent[b]]

\* What the provider has at a height now: one block or none.
AtHeight(n) == {b \in Blocks \cap Ancestry[remote] : Height[b] = n}

\* canonical_header_at_height.
LocalAt(n) ==
    LET here == {b \in canonical : Height[b] = n}
    IN  IF here = {} THEN None ELSE CHOOSE b \in here : TRUE

NoChainState ==
    /\ tip = None
    /\ known = {}
    /\ cache = <<>>
    /\ finalized = 0
    /\ phase = "idle"
    /\ head = None
    /\ cursor = None
    /\ replacement = <<>>
    /\ rollbacks = <<>>
    /\ ancestor = None
    /\ result = None

\* A database no one has written, or one that holds the chain from some height up
\* to its checkpoint (a backfill need not start at block 0), or beyond it: a second
\* backfill of the range moves the checkpoint back and then forward again.
LiveInit ==
    /\ remote \in Heads
    /\ moves = 0
    /\ boundary \in FinalizedHeights
    /\ faults = 0
    /\ blind = FALSE
    /\ \/ checkpoint = None /\ canonical = {}
       \/ /\ canonical \in SUBSET (Blocks \cap Ancestry[remote])
          /\ OneChain(canonical)
          /\ checkpoint \in canonical
          /\ \A b \in canonical :
                 /\ Height[b] <= Height[checkpoint] + Overhang
                 /\ Height[b] > 0 => Links(b, Parent[b])
    /\ NoChainState
    /\ pc = "idle"
    /\ number = 0
    /\ observed = None
    /\ again = FALSE
    /\ sinkAnchor = None
    /\ next = 0
    /\ anchor = None
    /\ disagree = FALSE
    /\ report = None
-----------------------------------------------------------------------------
(* Leaving a run. *)

\* Everything but the database is dropped.
Forget ==
    /\ Drop
    /\ number' = 0
    /\ again' = FALSE
    /\ sinkAnchor' = None
    /\ next' = 0
    /\ anchor' = None
    /\ disagree' = FALSE

Leave(where, outcome) ==
    /\ pc' = where
    /\ report' = outcome
    /\ Forget
    /\ UNCHANGED observed

\* mark_ready_if_healthy, from the readiness `now`.
Finish(now) == Leave("idle", IF disagree THEN now ELSE "Ready")

\* An error, or a halt: tracker_task returns, the supervisor stops the process.
Stop(outcome) == Leave("stopped", outcome)

\* A read of the sink: an error is swallowed, and the answer taken for None.
SinkAnswers == UNCHANGED trouble
SinkFails ==
    /\ faults < MaxFaults
    /\ faults' = faults + 1
    /\ blind' = TRUE
-----------------------------------------------------------------------------
(* The head. *)

\* reconcile_once reads the checkpoint for the sink's parent anchor.
Start ==
    /\ pc = "idle"
    /\ pc' = "number"
    /\ sinkAnchor' = checkpoint
    /\ blind' = FALSE
    /\ UNCHANGED <<chainVars, durable, world, faults, report,
                   number, observed, again, next, anchor, disagree>>

\* poll_head asks for the latest number and then for the header at that number.
ReadNumber ==
    /\ pc = "number"
    /\ pc' = "header"
    /\ number' = Height[remote]
    /\ UNCHANGED <<chainVars, durable, world, trouble, report,
                   observed, again, sinkAnchor, next, anchor, disagree>>

\* verify_recent is asked about the first head only.
ReadHeader ==
    /\ pc = "header"
    /\ \E b \in AtHeight(number) : observed' = b
    /\ pc' = IF again THEN "seed" ELSE "compare"
    /\ disagree' \in IF again THEN {disagree} ELSE BOOLEAN
    /\ UNCHANGED <<chainVars, durable, world, trouble, report,
                   number, again, sinkAnchor, next, anchor>>

\* No checkpoint: catch_up_from_start, whose coordinator wants a parent anchor for
\* every start but 0.
CompareNoCheckpoint ==
    /\ pc = "compare"
    /\ IF checkpoint = None THEN SinkAnswers ELSE SinkFails
    /\ CASE ExplicitStart = None -> Stop("MissingExplicitStart")
         [] ExplicitStart \notin {None, 0} -> Stop("error")
         [] OTHER ->
              /\ pc' = "fromStart"
              /\ next' = 0
              /\ anchor' = None
              /\ UNCHANGED <<chainVars, report, number, observed, again,
                             sinkAnchor, disagree>>
    /\ UNCHANGED <<durable, world>>

CompareSame ==
    /\ pc = "compare"
    /\ checkpoint # None
    /\ observed = checkpoint
    /\ Finish("Degraded")
    /\ UNCHANGED <<durable, world, trouble>>

Compare ==
    /\ pc = "compare"
    /\ checkpoint # None
    /\ observed # checkpoint
    /\ pc' = CASE Height[observed] < Height[checkpoint] -> "behind"
               [] Height[observed] = Height[checkpoint] -> "seed"
               [] Height[observed] > Height[checkpoint] -> "catchUp"
    /\ next' = Height[checkpoint] + 1
    /\ anchor' = checkpoint
    /\ UNCHANGED <<chainVars, durable, world, trouble, report, number, observed,
                   again, sinkAnchor, disagree>>

\* Variant: a lagging provider counts as caught up.
CompareBehindReady ==
    /\ pc = "behind"
    /\ \E there \in AtHeight(Height[observed]) :
        \/ /\ LocalAt(Height[observed]) = there
           /\ SinkAnswers
           /\ Finish("Degraded")
        \/ /\ IF LocalAt(Height[observed]) = there THEN SinkFails ELSE SinkAnswers
           /\ pc' = "seed"
           /\ UNCHANGED <<chainVars, tracker, report>>
    /\ UNCHANGED <<durable, world>>

\* The head is below the checkpoint: a lagging provider if it still has our block
\* at that height.  This is a second read; the head handed on is the first one.
CompareBehind ==
    /\ pc = "behind"
    /\ \E there \in AtHeight(Height[observed]) :
        \/ /\ LocalAt(Height[observed]) = there
           /\ SinkAnswers
           /\ Leave("idle", "Degraded")
        \/ /\ IF LocalAt(Height[observed]) = there THEN SinkFails ELSE SinkAnswers
           /\ pc' = "seed"
           /\ UNCHANGED <<chainVars, tracker, report>>
    /\ UNCHANGED <<durable, world>>
-----------------------------------------------------------------------------
(* Catch-up: fetch_and_push_height for one height. *)

\* apply_batch of one apply event: the unique index has the last word.
WriterTakes(b) == \A c \in canonical \ {b} : Height[c] # Height[b]

\* Variant: the sink trusts the tracker and has no coordinator of its own.
SinkTakesAny(b) == WriterTakes(b)

\* commit_one_block: a coordinator of its own checks the block against the sink's
\* anchor.
SinkTakes(b) ==
    /\ IF Height[b] = 0 THEN sinkAnchor = None
       ELSE sinkAnchor # None /\ Links(b, sinkAnchor)
    /\ WriterTakes(b)

CommitBlock(b) ==
    /\ canonical' = canonical \cup {b}
    /\ checkpoint' = b
    /\ IF next = Height[observed]
       THEN Finish("Degraded")
       ELSE /\ next' = next + 1
            /\ anchor' = b
            /\ sinkAnchor' = b
            /\ UNCHANGED <<chainVars, pc, report, number, observed, again, disagree>>

\* Variant: a block that does not follow the anchor is an error like any other.
ReconcileFails == Stop("error") /\ UNCHANGED durable

\* The block does not follow the anchor, or its logs are gone with it: report
\* Degraded, read the head once more and let ChainState find the way.
ReconcileCurrentHead ==
    /\ pc' = "number"
    /\ again' = TRUE
    /\ UNCHANGED <<chainVars, durable, report, number, observed, sinkAnchor, next,
                   anchor, disagree>>

PushHeight(b) ==
    IF anchor # None /\ ~Links(b, anchor)
    THEN IF pc = "catchUp" THEN ReconcileCurrentHead
         ELSE Stop("error") /\ UNCHANGED durable
    ELSE IF SinkTakes(b) THEN CommitBlock(b)
    ELSE Stop("error") /\ UNCHANGED durable

FetchAndPushHeight ==
    /\ pc \in {"catchUp", "fromStart"}
    /\ \E b \in AtHeight(next) : PushHeight(b)
    /\ UNCHANGED <<world, trouble>>

\* eth_getLogs by hash no longer knows the block: a source error of kind Reconcile.
LogsGone ==
    /\ pc = "catchUp"
    /\ faults < MaxFaults
    /\ faults' = faults + 1
    /\ ReconcileCurrentHead
    /\ UNCHANGED <<world, blind>>
-----------------------------------------------------------------------------
(* apply_chain_state. *)

SeedChainState ==
    /\ pc = "seed"
    /\ checkpoint # None
    /\ Seed(<<checkpoint>>, boundary)
    /\ pc' = "apply"
    /\ UNCHANGED <<walk, durable, world, trouble, tracker, report>>

\* No checkpoint is read: apply_chain_state returns Ok at once.
SeedNothing ==
    /\ pc = "seed"
    /\ IF checkpoint = None THEN SinkAnswers ELSE SinkFails
    /\ Finish("Degraded")
    /\ UNCHANGED <<durable, world>>

\* Variant: the error is reported as it came.
HaltVerbatim(e) == e

\* Which errors are correctness halts.
Halt(e) ==
    CASE e = "MaxDepthExceeded" -> "MaxReorgDepth"
      [] e = "FinalizedBoundary" -> "FinalizedBoundary"
      [] OTHER -> "error"

\* Where a step of ChainState::apply leaves the tracker.
AfterApply ==
    /\ pc' = CASE phase' = "returned" -> "commit"
               [] phase' = "idle" -> "stopped"
               [] OTHER -> "walk"
    /\ report' = IF phase' = "idle" THEN Halt(result') ELSE report
    /\ UNCHANGED <<durable, world, tracker>>

ApplyHead ==
    /\ pc = "apply"
    /\ Apply(observed)
    /\ AfterApply
    /\ UNCHANGED trouble

\* LiveResolver: canonical lookups go to the sink, header_by_hash to the provider,
\* which need not have kept a block that left its chain.
Walk ==
    /\ pc = "walk"
    /\ \/ AncestorFound(cursor \in canonical)
       \/ AncestorStep(cursor \in canonical, Parent[cursor])
       \/ RollbackStep(Parent[cursor])
       \/ RollbackDone
    /\ AfterApply
    /\ SinkAnswers

\* A canonical header is not found because the read failed: the walk goes past it.
WalkBlind ==
    /\ pc = "walk"
    /\ cursor \in canonical
    /\ AncestorStep(FALSE, Parent[cursor])
    /\ AfterApply
    /\ SinkFails

\* The provider no longer has the block that is asked for.
WalkPruned ==
    /\ pc = "walk"
    /\ faults < MaxFaults
    /\ \/ AncestorStep(cursor \in canonical, None)
       \/ RollbackStep(None)
    /\ phase' = "idle"
    /\ pc' = "stopped"
    /\ report' = Halt(result')
    /\ faults' = faults + 1
    /\ UNCHANGED <<durable, world, tracker, blind>>

\* What the writer checks on a batch.
BatchFits ==
    /\ Range(rollbacks) \subseteq canonical
    /\ \A b \in canonical \ Range(rollbacks), c \in Range(replacement) :
           b # c => Height[b] # Height[c]

\* All payloads were fetched; one transaction.  An empty batch is not written.  A
\* batch the writer refuses is a sink error.
CommitBatch ==
    /\ pc = "commit"
    /\ IF BatchFits
       THEN /\ canonical' = CanonicalAfter
            /\ checkpoint' = IF replacement # <<>> THEN Last(replacement)
                             ELSE IF rollbacks # <<>> THEN ancestor ELSE checkpoint
            /\ Finish("Degraded")
       ELSE Stop("error") /\ UNCHANGED durable
    /\ UNCHANGED <<world, trouble>>
-----------------------------------------------------------------------------
(* The environment. *)

\* A call fails, a shutdown is requested, or the process dies.
Fail ==
    /\ pc \notin {"idle", "stopped"}
    /\ faults < MaxFaults
    /\ faults' = faults + 1
    /\ Stop("error")
    /\ UNCHANGED <<durable, world, blind>>

\* The provider does not have the height it is asked for: an RPC error.
HeightGone ==
    /\ \/ pc = "header" /\ AtHeight(number) = {}
       \/ pc = "behind" /\ AtHeight(Height[observed]) = {}
       \/ pc \in {"catchUp", "fromStart"} /\ AtHeight(next) = {}
    /\ Stop("error")
    /\ UNCHANGED <<durable, world, trouble>>

\* The operator, or a process manager, starts the process again.
Restart ==
    /\ pc = "stopped"
    /\ pc' = "idle"
    /\ Forget
    /\ UNCHANGED <<durable, world, trouble, observed, report>>

\* The provider's chain grows, shrinks or switches to another branch.
Move ==
    /\ moves < MaxMoves
    /\ moves' = moves + 1
    /\ remote' \in Heads \ {remote}
    /\ UNCHANGED <<boundary, chainVars, durable, trouble, pc, tracker, report>>

Step ==
    \/ Start \/ ReadNumber \/ ReadHeader
    \/ CompareNoCheckpoint \/ CompareSame \/ Compare \/ CompareBehind
    \/ FetchAndPushHeight
    \/ SeedChainState \/ SeedNothing \/ ApplyHead \/ Walk
    \/ CommitBatch
    \/ HeightGone

LiveNext == Step \/ Restart \/ Move \/ LogsGone \/ WalkPruned \/ WalkBlind \/ Fail

LiveSpec == LiveInit /\ [][LiveNext]_liveVars

\* The poll task wakes the tracker for ever, a started run goes on, and something
\* restarts the process; nothing is assumed of the provider or of the faults.
FairLiveSpec == LiveSpec /\ WF_liveVars(Step) /\ WF_liveVars(Restart)
-----------------------------------------------------------------------------
\* Every variable has its type.
LiveTypeOK ==
    /\ ChainTypeOK
    /\ remote \in Heads
    /\ boundary \in FinalizedHeights
    /\ moves \in 0..MaxMoves /\ faults \in 0..MaxFaults
    /\ {checkpoint, observed, sinkAnchor, anchor} \subseteq Blocks \cup {None}
    /\ pc \in {"idle", "stopped", "number", "header", "compare", "behind", "catchUp",
               "fromStart", "seed", "apply", "walk", "commit"}
    /\ {number, next} \subseteq Nat
    /\ {again, disagree, blind} \subseteq BOOLEAN
    /\ report \in {None, "Ready", "Degraded", "error"} \cup Halts

\* The durable canonical rows are one unbroken chain whose top the checkpoint
\* names, whatever the provider did between two calls and wherever the process
\* died: no fork, no hole, no row left above the checkpoint.
CanonicalIsChain ==
    IF checkpoint = None THEN canonical = {}
    ELSE OneChain(canonical) /\ IsTop(checkpoint, canonical)

\* The batch handed to the writer leads from the checkpoint to the observed head
\* and is one the writer takes, even if a failed sink read made the walk go past
\* the block where the branches part.
BatchLeadsToHead ==
    pc = "commit" =>
        BatchIsPath(checkpoint) /\ BatchFits /\ head = observed

\* A run that ends Ready left the checkpoint at the height of the head it saw
\* last, however the provider moved meanwhile; after ChainState took over, at that
\* very block.  (A swallowed read error of the sink can make a run Ready that did
\* nothing; the next one makes up for it.)
ReadyIsCaughtUp ==
    [][pc \notin {"idle", "stopped"} /\ pc' = "idle" /\ report' = "Ready" /\ ~blind'
        => /\ checkpoint' # None
           /\ Height[checkpoint'] = Height[observed]
           /\ pc = "commit" => checkpoint' = observed]_liveVars

\* No block at or below the finalized height ever stops being canonical.
LiveFinalizedStays ==
    [][\A b \in canonical : Height[b] <= boundary => b \in canonical']_liveVars

Ledger == INSTANCE CanonicalLedger WITH rows <- canonical, top <- checkpoint,
                                        floor <- boundary

\* To its readers the database the tracker writes is a ledger, however the provider
\* moves, whichever reads fail and wherever the process dies: the rows and the
\* checkpoint change together, a catch-up block extends the chain at the checkpoint,
\* a batch replaces what is above one canonical block, and nothing that is final
\* is replaced.
ImplementsLedger == Ledger!Spec

\* The provider went to a chain that shares no stored block with the database.
Foreign == canonical # {} /\ Ancestry[remote] \cap canonical = {}

\* Once the provider stops moving and the faults stop, its head becomes and stays
\* canonical: no order of moves, crashes and half-done catch-ups leaves a state
\* that later runs cannot get out of.
Converges == <>[](remote \in canonical \/ Foreign)

\* "Restart resumes by reading the durable checkpoint and reconciling to current
\* primary head": the same, started on what an interrupted backfill left.
ResumesFromCheckpoint == Converges

\* "if it differs, pass that fetched head through `ChainState`; never reorg on
\* height alone": rows are rolled back only together with a replacement.
NeverReorgOnHeightAlone ==
    pc = "commit" /\ rollbacks # <<>> => replacement # <<>>
=============================================================================
