----------------------------- MODULE LiveRuntime -----------------------------
(***************************************************************************)
(* The live process: run_live brings the connections up one after another  *)
(* and spawns four tasks; the supervisor waits for the first one that ends *)
(* and stops the rest.  The websocket and poll tasks wake the tracker task *)
(* through a channel of capacity 1; the tracker reconciles and publishes   *)
(* its readiness in the health state, which the websocket task also        *)
(* writes.  What one reconciliation does to the rows is LiveTracker's      *)
(* subject: here the rows are the height of the checkpoint and whether the *)
(* provider shows another branch, and a reconciliation is its path through *)
(* run_with_cancellation, the reads that the sink answers with None when   *)
(* the database fails included.                                            *)
(***************************************************************************)
EXTENDS Naturals

CONSTANTS
    None,               \* no correctness stop reason
    MaxHead,            \* bound: height of the provider's last head
    MaxFaults           \* bound: failures and changes of branch in one behaviour

ASSUME RuntimeAssumption ==
    /\ MaxHead \in Nat
    /\ MaxFaults \in Nat
    /\ None # "ok"

VARIABLES
    config,             \* is the primary a websocket, is there a verifier
    stage,              \* how far run_live is
    requested,          \* SIGINT or SIGTERM has arrived
    shutdown,           \* the cancellation token
    task,               \* LiveTask -> absent, running, or how it ended
    result,             \* what run_live returns
    health,             \* the shared HealthState
    reconnect,          \* the tracker's ReconnectLoop
    tracker,            \* where tracker_task is
    lastHead,           \* RpcReconciliationSource::last_head
    disputed,           \* verifier_disagreements is not 0
    checkpoint,         \* durable: height of the checkpoint
    forked,             \* the rows are on no branch the provider has shown this run
    unread,             \* sink.checkpoint() reads of this reconciliation that failed
    socket,             \* where websocket_wakeup_task and its subscription are
    notified,           \* the subscription holds a header not yet read
    pending,            \* the wakeup channel holds its one item
    chainHead,          \* height of the provider's head
    halted,             \* history: a correctness stop has been marked
    faults              \* failures so far

process == <<config, stage, requested, shutdown, task, result>>
track == <<reconnect, tracker, lastHead, disputed, checkpoint, forked, unread>>
wake == <<socket, notified, pending>>
vars == <<process, track, wake, health, chainHead, halted, faults>>

LiveTask == {"HealthServer", "Wakeups", "Poll", "Tracker"}
\* The variants of LiveTaskError that a task can end with here.
LiveTaskError == {"rpc", "database", "chain", "cancelled", "panicked", "failed"}
Running(t) == task[t] = "running"
Exited(t) == task[t] \notin {"absent", "running"}

\* Every failure counts against the bound.
Fault == faults < MaxFaults /\ faults' = faults + 1
NoFault == UNCHANGED faults
-----------------------------------------------------------------------------
(* HealthState: each call takes the lock once and writes a whole snapshot. *)

Snapshot(healthy, ready, state, components, reason) ==
    [healthy |-> healthy, ready |-> ready, state |-> state,
     components |-> components, reason |-> reason]

MarkDegraded(component) ==
    health' = Snapshot(TRUE, FALSE, "degraded",
                       health.components \cup {component}, None)

\* Variant: a correctness stop leaves readiness as it was.
MarkStopOnly(reason) ==
    /\ health' = Snapshot(FALSE, health.ready, "correctness-stop", {}, reason)
    /\ halted' = TRUE

MarkCorrectnessStop(reason) ==
    /\ health' = Snapshot(FALSE, FALSE, "correctness-stop", {}, reason)
    /\ halted' = TRUE

\* Variant: a publication leaves a degraded snapshot alone.
KeepDegraded(healthy, ready, readiness) ==
    health' = IF health.components # {} THEN health
              ELSE Snapshot(healthy, ready, readiness, {}, None)

UpdateLiveStatus(healthy, ready, readiness) ==
    health' = Snapshot(healthy, ready,
                       IF healthy THEN readiness ELSE "unavailable", {}, None)
-----------------------------------------------------------------------------
(* ReconnectLoop.  The delay its failures compute is dropped by the caller. *)

Disconnected == [reconnect EXCEPT !.ready = FALSE, !.subscribed = FALSE]

RecordDisconnect == reconnect' = Disconnected

RecordSubscribedForWakeups ==
    reconnect' = [reconnect EXCEPT !.ready = FALSE, !.subscribed = TRUE]

\* record_reconciled_to_head and record_ready_after_reconnect_at, which the
\* tracker calls one after the other.
RecordReadyAfterReconnect ==
    reconnect' = [reconnect EXCEPT !.ready = ~reconnect.halted,
                                   !.subscribed = FALSE]

RecordAvailabilityFailure ==
    reconnect' = IF reconnect.halted THEN reconnect
                 ELSE [Disconnected EXCEPT !.attempt = @ + 1]

RecordCorrectnessError ==
    reconnect' = [Disconnected EXCEPT !.halted = TRUE]

\* Variant: the verifier's disagreements are left out.
ReadyDespiteVerifier(gap) == reconnect.ready /\ gap = 0

\* Variant: the gap is left out.
ReadyDespiteGap(gap) == reconnect.ready /\ ~disputed

\* readiness_from_reconnect.
ReadyNow(gap) == reconnect.ready /\ ~disputed /\ gap = 0

Readiness(gap) ==
    IF ReadyNow(gap) THEN "ready"
    ELSE IF reconnect.ready THEN "degraded" ELSE "unavailable"

\* The gap published is that of report.final_checkpoint: 0 when the head is below
\* it, and 0 when it could not be read.
Gap ==
    IF lastHead > checkpoint /\ "final" \notin unread THEN lastHead - checkpoint ELSE 0

PublishStatus(gap) ==
    UpdateLiveStatus(~reconnect.halted, ReadyNow(gap), Readiness(gap))
-----------------------------------------------------------------------------
Init ==
    /\ config \in [ws : BOOLEAN, verifier : BOOLEAN]
    /\ stage = "primary"
    /\ requested = FALSE
    /\ shutdown = FALSE
    /\ task = [t \in LiveTask |-> IF t = "HealthServer" THEN "running" ELSE "absent"]
    /\ result = None
    /\ health = Snapshot(FALSE, FALSE, "unavailable", {}, None)
    /\ reconnect = [ready |-> FALSE, halted |-> FALSE, subscribed |-> FALSE,
                    attempt |-> 0]
    /\ tracker = "off"
    /\ lastHead = 0
    /\ disputed = FALSE
    /\ checkpoint = 0
    /\ forked = FALSE
    /\ unread = {}
    /\ socket = "off"
    /\ notified = FALSE
    /\ pending = FALSE
    /\ chainHead = 0
    /\ halted = FALSE
    /\ faults = 0
-----------------------------------------------------------------------------
(* run_live up to the supervisor.  An early return drops the supervisor, and *)
(* with it the health server.                                                *)

AfterStage ==
    [primary |-> IF config.verifier THEN "verifier" ELSE "database",
     verifier |-> "database",
     database |-> "spawn"]

\* Connected and, for a provider, of the expected identity.
StartupOk ==
    /\ stage \in {"primary", "verifier", "database"}
    /\ stage' = AfterStage[stage]
    /\ NoFault
    /\ UNCHANGED <<config, requested, shutdown, task, result, track, wake,
                   health, chainHead, halted>>

EarlyReturn(error) ==
    /\ stage' = "ended"
    /\ result' = error
    /\ task' = [t \in LiveTask |-> "absent"]
    /\ Fault
    /\ UNCHANGED <<config, requested, shutdown, track, wake, chainHead>>

\* connect_rpc or capture_target_head_with_retry gives up.
StartupRpcFails ==
    /\ stage \in {"primary", "verifier"}
    /\ EarlyReturn("rpc")
    /\ MarkDegraded("rpc")
    /\ UNCHANGED halted

\* The provider, the verifier or the database belongs to another chain.
StartupWrongChain ==
    /\ stage \in {"primary", "verifier", "database"}
    /\ EarlyReturn("identity")
    /\ MarkCorrectnessStop("chain_identity_mismatch")

\* The database cannot be reached or migrated, or there is nothing to start from.
StartupDatabaseFails ==
    /\ stage = "database"
    /\ EarlyReturn("database")
    /\ UNCHANGED <<health, halted>>

SpawnTasks ==
    /\ stage = "spawn"
    /\ stage' = "running"
    /\ task' = [t \in LiveTask |->
                   CASE t = "HealthServer" -> task[t]
                     [] t = "Wakeups" /\ ~config.ws -> "absent"
                     [] OTHER -> "running"]
    /\ tracker' = "begin"
    /\ socket' = IF config.ws THEN "connecting" ELSE "off"
    /\ NoFault
    /\ UNCHANGED <<config, requested, shutdown, result, reconnect, lastHead,
                   disputed, checkpoint, forked, unread, notified, pending,
                   health, chainHead, halted>>
-----------------------------------------------------------------------------
(* Signals, the supervisor and the health server. *)

\* Once the token is cancelled a signal changes nothing.
Signal ==
    /\ stage # "ended"
    /\ ~shutdown
    /\ requested' = TRUE
    /\ shutdown' = TRUE
    /\ NoFault
    /\ UNCHANGED <<config, stage, task, result, track, wake, health, chainHead,
                   halted>>

\* A task's future is over: the supervisor may join it.
Exit(t, how) == task' = [task EXCEPT ![t] = how]

ExitVerdict(t) ==
    IF task[t] # "ok" THEN task[t]
    ELSE IF shutdown THEN "ok" ELSE "exited early"

\* Variant: the supervisor does not cancel the other tasks.
JoinFirstAlone(t) ==
    /\ stage = "running"
    /\ Exited(t)
    /\ result' = ExitVerdict(t)
    /\ stage' = "draining"
    /\ NoFault
    /\ UNCHANGED <<config, requested, shutdown, task, track, wake, health,
                   chainHead, halted>>

\* run_until_first_exit: the first task joined decides the result.
JoinFirst(t) ==
    /\ stage = "running"
    /\ Exited(t)
    /\ result' = ExitVerdict(t)
    /\ shutdown' = TRUE
    /\ stage' = "draining"
    /\ NoFault
    /\ UNCHANGED <<config, requested, task, track, wake, health, chainHead, halted>>

\* Variant: the last task joined decides the result.
JoinRestDecides ==
    /\ stage = "draining"
    /\ \A t \in LiveTask : ~Running(t)
    /\ \E t \in LiveTask : Exited(t) /\ result' = ExitVerdict(t)
    /\ stage' = "ended"
    /\ NoFault
    /\ UNCHANGED <<config, requested, shutdown, task, track, wake, health,
                   chainHead, halted>>

JoinRest ==
    /\ stage = "draining"
    /\ \A t \in LiveTask : ~Running(t)
    /\ stage' = "ended"
    /\ NoFault
    /\ UNCHANGED <<config, requested, shutdown, task, result, track, wake,
                   health, chainHead, halted>>

\* The server stops on shutdown, or serve fails.
HealthServerEnds ==
    /\ Running("HealthServer")
    /\ \/ shutdown /\ Exit("HealthServer", "ok") /\ NoFault
       \/ Exit("HealthServer", "failed") /\ Fault
    /\ UNCHANGED <<config, stage, requested, shutdown, result, track, wake,
                   health, chainHead, halted>>
-----------------------------------------------------------------------------
(* The wakeup tasks.  The channel coalesces: a second wakeup is dropped. *)

TryWake == pending' = (pending \/ Running("Tracker"))

\* A new head; a live subscription is told of it.  Heads after the token is
\* cancelled are left out: nothing reads them.
NewHead ==
    /\ chainHead < MaxHead
    /\ ~shutdown
    /\ chainHead' = chainHead + 1
    /\ notified' = (notified \/ socket = "up")
    /\ NoFault
    /\ UNCHANGED <<process, track, socket, pending, health, halted>>

Subscribe ==
    /\ socket = "connecting"
    /\ socket' = "up"
    /\ NoFault
    /\ UNCHANGED <<process, track, notified, pending, health, chainHead, halted>>

SocketWake ==
    /\ socket = "up"
    /\ notified
    /\ notified' = FALSE
    /\ TryWake
    /\ NoFault
    /\ UNCHANGED <<process, track, socket, health, chainHead, halted>>

\* The connection is refused or lost, with whatever it had not delivered.
SubscriptionEnds ==
    /\ socket \in {"connecting", "up"}
    /\ socket' = "ended"
    /\ notified' = FALSE
    /\ Fault
    /\ UNCHANGED <<process, track, pending, health, chainHead, halted>>

\* The task sees the end, marks the service degraded and sleeps a second.
MarkSocketDown ==
    /\ socket = "ended"
    /\ socket' = "sleeping"
    /\ MarkDegraded("rpc")
    /\ NoFault
    /\ UNCHANGED <<process, track, notified, pending, chainHead, halted>>

Resubscribe ==
    /\ socket = "sleeping"
    /\ socket' = "connecting"
    /\ NoFault
    /\ UNCHANGED <<process, track, notified, pending, health, chainHead, halted>>

\* The sleep does not watch the token.
WakeupsStop ==
    /\ socket \in {"connecting", "up", "ended"}
    /\ shutdown
    /\ socket' = "off"
    /\ notified' = FALSE
    /\ Exit("Wakeups", "ok")
    /\ NoFault
    /\ UNCHANGED <<config, stage, requested, shutdown, result, track, pending,
                   health, chainHead, halted>>

\* Variant: only the first poll queues a wakeup.
PollOnce ==
    /\ Running("Poll")
    /\ tracker = "begin"
    /\ TryWake
    /\ NoFault
    /\ UNCHANGED <<process, track, socket, notified, health, chainHead, halted>>

PollTick ==
    /\ Running("Poll")
    /\ TryWake
    /\ NoFault
    /\ UNCHANGED <<process, track, socket, notified, health, chainHead, halted>>

PollStops ==
    /\ Running("Poll")
    /\ shutdown
    /\ Exit("Poll", "ok")
    /\ NoFault
    /\ UNCHANGED <<config, stage, requested, shutdown, result, track, wake,
                   health, chainHead, halted>>
-----------------------------------------------------------------------------
(* The tracker task. *)

\* Inside reconcile_once, at a call that can fail.
Reconciling == tracker \in {"head", "compare", "catchup", "reread", "chain"}

\* tracker_task reconciles once before it waits for a wakeup.
TrackerStarts ==
    /\ tracker = "begin"
    /\ tracker' = "head"
    /\ RecordSubscribedForWakeups
    /\ NoFault
    /\ UNCHANGED <<process, lastHead, disputed, checkpoint, forked, unread, wake,
                   health, chainHead, halted>>

TrackerWakes ==
    /\ tracker = "waiting"
    /\ pending
    /\ pending' = FALSE
    /\ tracker' = "head"
    /\ RecordSubscribedForWakeups
    /\ NoFault
    /\ UNCHANGED <<process, lastHead, disputed, checkpoint, forked, unread, socket,
                   notified, health, chainHead, halted>>

\* current_head and the verifier's opinion of it.  A head that is new may be on
\* another branch than the one before; the provider may also change its mind
\* about an old one, or answer with it again.  The verifier may contradict the
\* head or not answer, which verify_head counts as well.
HeadAnswer ==
    \/ /\ lastHead' = chainHead
       /\ forked' \in IF chainHead > lastHead THEN BOOLEAN ELSE {forked}
       /\ NoFault
       /\ UNCHANGED disputed
    \/ /\ lastHead' \in {h \in 0..MaxHead : h <= chainHead}
       /\ forked' \in BOOLEAN
       /\ lastHead' # chainHead \/ forked' # forked
       /\ Fault
       /\ UNCHANGED disputed
    \/ /\ config.verifier
       /\ lastHead' = chainHead
       /\ disputed' = TRUE
       /\ Fault
       /\ UNCHANGED forked

ReadHead ==
    /\ tracker = "head"
    /\ tracker' = "compare"
    /\ unread' = {}
    /\ HeadAnswer
    /\ UNCHANGED <<process, reconnect, checkpoint, wake, health, chainHead, halted>>

\* A head below the checkpoint is no reorganisation when a second read, by number,
\* finds the block that the rows hold.  It may contradict the first read either
\* way; when it differs, or the row cannot be read, the first head is handed on.
Compare ==
    /\ tracker = "compare"
    /\ \/ /\ lastHead > checkpoint
          /\ tracker' = "catchup"
          /\ NoFault
          /\ UNCHANGED forked
       \/ /\ lastHead = checkpoint
          /\ tracker' = IF forked THEN "chain" ELSE "report"
          /\ NoFault
          /\ UNCHANGED forked
       \/ /\ lastHead < checkpoint
          /\ tracker' = "lagging"
          /\ forked' = FALSE
          /\ IF forked THEN Fault ELSE NoFault
       \/ /\ lastHead < checkpoint
          /\ tracker' = "chain"
          /\ IF forked THEN NoFault ELSE Fault
          /\ UNCHANGED forked
    /\ UNCHANGED <<process, reconnect, lastHead, disputed, checkpoint, unread, wake,
                   health, chainHead, halted>>

\* Variant: off by one at the head.
CommitPastHead ==
    /\ tracker = "catchup"
    /\ checkpoint' = checkpoint + 1
    /\ tracker' = IF checkpoint' <= lastHead THEN "catchup" ELSE "report"
    /\ forked' = FALSE
    /\ IF forked THEN Fault ELSE NoFault
    /\ UNCHANGED <<process, reconnect, lastHead, disputed, unread, wake, health,
                   chainHead, halted>>

\* One height fetched by number, found to continue the rows, and committed: the
\* provider shows a branch that the rows are on, also if its head was not.
CommitNext ==
    /\ tracker = "catchup"
    /\ checkpoint' = checkpoint + 1
    /\ tracker' = IF checkpoint' < lastHead THEN "catchup" ELSE "report"
    /\ forked' = FALSE
    /\ IF forked THEN Fault ELSE NoFault
    /\ UNCHANGED <<process, reconnect, lastHead, disputed, unread, wake, health,
                   chainHead, halted>>

\* The block fetched does not continue the rows, or its logs belong to another
\* block: FetchedSuffixInvalidated and Reconcile.
CatchUpBreaks ==
    /\ tracker = "catchup"
    /\ IF forked THEN NoFault ELSE Fault
    /\ tracker' = "reread"
    /\ UNCHANGED <<process, reconnect, lastHead, disputed, checkpoint, forked,
                   unread, wake, health, chainHead, halted>>

\* reconcile_current_head.
RereadHead ==
    /\ tracker = "reread"
    /\ tracker' = "chain"
    /\ HeadAnswer
    /\ UNCHANGED <<process, reconnect, checkpoint, unread, wake, health, chainHead,
                   halted>>

\* apply_chain_state commits the batch that leads from the checkpoint to the head.
ChainStateCommits ==
    /\ tracker = "chain"
    /\ checkpoint' = lastHead
    /\ forked' = FALSE
    /\ tracker' = "report"
    /\ NoFault
    /\ UNCHANGED <<process, reconnect, lastHead, disputed, unread, wake, health,
                   chainHead, halted>>

\* apply_chain_state reads no checkpoint: it returns Ok and nothing is written.
ChainStateSkipped ==
    /\ tracker = "chain"
    /\ unread' = unread \cup {"checkpoint"}
    /\ tracker' = "report"
    /\ Fault
    /\ UNCHANGED <<process, reconnect, lastHead, disputed, checkpoint, forked, wake,
                   health, chainHead, halted>>

\* The report is back, whatever it found: its readiness is not used, and its
\* final checkpoint is read again, except after a lagging head.
Reconciled ==
    /\ \/ tracker \in {"lagging", "report"} /\ NoFault /\ UNCHANGED unread
       \/ tracker = "report" /\ Fault /\ unread' = unread \cup {"final"}
    /\ tracker' = "publishing"
    /\ RecordReadyAfterReconnect
    /\ UNCHANGED <<process, lastHead, disputed, checkpoint, forked, wake, health,
                   chainHead, halted>>

TrackerExit(how) ==
    /\ tracker' = "off"
    /\ Exit("Tracker", how)
    /\ UNCHANGED <<config, stage, requested, shutdown, result, lastHead, disputed,
                   checkpoint, forked, unread, wake, chainHead>>

\* reconcile_and_publish gives an error up: only an RPC error touches health.
ReconcileFails(error) ==
    /\ Reconciling
    /\ TrackerExit(error)
    /\ IF error = "rpc"
       THEN RecordAvailabilityFailure /\ MarkDegraded("rpc")
       ELSE UNCHANGED <<reconnect, health>>
    /\ UNCHANGED halted

TrackerFails ==
    /\ \E error \in {"rpc", "database", "chain"} : ReconcileFails(error)
    /\ Fault

\* The token ends the call under way: an RPC call with an error that counts as
\* an RPC failure, a commit with a database error, the check between two
\* heights with Cancelled.
TrackerCancelled ==
    /\ shutdown
    /\ \E error \in {"rpc", "database", "cancelled"} : ReconcileFails(error)
    /\ NoFault

\* The report says halted: no checkpoint could be read and no start is given, or
\* ChainState met its depth limit.  The tracker may not write any more.
TrackerHalts ==
    /\ \/ tracker = "compare" /\ MarkCorrectnessStop("correctness_stop")
       \/ tracker = "chain" /\ MarkCorrectnessStop("unresolved_ancestry")
    /\ RecordCorrectnessError
    /\ TrackerExit("failed")
    /\ Fault

Publish ==
    /\ tracker = "publishing"
    /\ PublishStatus(Gap)
    /\ tracker' = "waiting"
    /\ NoFault
    /\ UNCHANGED <<process, reconnect, lastHead, disputed, checkpoint, forked,
                   unread, wake, chainHead, halted>>

\* shutdown.cancelled() in the select: the wakeup in the channel is left.
TrackerCloses ==
    /\ tracker = "waiting"
    /\ shutdown
    /\ tracker' = "closing"
    /\ RecordDisconnect
    /\ NoFault
    /\ UNCHANGED <<process, lastHead, disputed, checkpoint, forked, unread, wake,
                   health, chainHead, halted>>

TrackerStops ==
    /\ tracker = "closing"
    /\ PublishStatus(0)
    /\ TrackerExit("ok")
    /\ NoFault
    /\ UNCHANGED <<reconnect, halted>>

\* publish_status reads the checkpoint first.
PublishFails ==
    /\ tracker \in {"publishing", "closing"}
    /\ TrackerExit("database")
    /\ Fault
    /\ UNCHANGED <<reconnect, health, halted>>

\* catch_unwind around every task.
TaskPanics(t) ==
    /\ Running(t)
    /\ Exit(t, "panicked")
    /\ tracker' = IF t = "Tracker" THEN "off" ELSE tracker
    /\ socket' = IF t = "Wakeups" THEN "off" ELSE socket
    /\ Fault
    /\ UNCHANGED <<config, stage, requested, shutdown, result, reconnect, lastHead,
                   disputed, checkpoint, forked, unread, notified, pending,
                   health, chainHead, halted>>
-----------------------------------------------------------------------------
Startup == StartupOk \/ StartupRpcFails \/ StartupWrongChain \/ StartupDatabaseFails
Wakeups ==
    \/ Subscribe \/ SocketWake \/ SubscriptionEnds
    \/ MarkSocketDown \/ Resubscribe \/ WakeupsStop
Poll == PollTick \/ PollStops
Tracker ==
    \/ TrackerStarts \/ TrackerWakes \/ ReadHead \/ Compare
    \/ CommitNext \/ CatchUpBreaks \/ RereadHead
    \/ ChainStateCommits \/ ChainStateSkipped \/ Reconciled
    \/ TrackerFails \/ TrackerCancelled \/ TrackerHalts
    \/ Publish \/ PublishFails \/ TrackerCloses \/ TrackerStops

Next ==
    \/ Startup \/ SpawnTasks \/ Signal
    \/ \E t \in LiveTask : JoinFirst(t)
    \/ JoinRest \/ HealthServerEnds
    \/ NewHead \/ Wakeups \/ Poll \/ Tracker
    \/ \E t \in LiveTask : TaskPanics(t)

Spec == Init /\ [][Next]_vars

\* Every task is polled again when it can go on, and a timer fires.  Failures,
\* signals and new heads are not promised.
Fairness ==
    /\ WF_vars(StartupOk) /\ WF_vars(SpawnTasks)
    /\ \A t \in LiveTask : WF_vars(JoinFirst(t))
    /\ WF_vars(JoinRest)
    /\ WF_vars(shutdown /\ HealthServerEnds)
    /\ WF_vars(Subscribe) /\ WF_vars(MarkSocketDown) /\ WF_vars(Resubscribe)
    /\ WF_vars(WakeupsStop)
    /\ WF_vars(PollTick) /\ WF_vars(PollStops)
    /\ WF_vars(Tracker)

FairSpec == Spec /\ Fairness
-----------------------------------------------------------------------------
Configs == [ws : BOOLEAN, verifier : BOOLEAN]
Stages == {"primary", "verifier", "database", "spawn", "running", "draining",
           "ended"}
TaskStates == {"absent", "running", "ok"} \cup LiveTaskError
Results == {None, "ok", "exited early", "identity"} \cup LiveTaskError
Snapshots ==
    [healthy : BOOLEAN, ready : BOOLEAN,
     state : {"unavailable", "degraded", "ready", "correctness-stop"},
     components : SUBSET {"rpc"},
     reason : {None, "chain_identity_mismatch", "unresolved_ancestry",
               "correctness_stop"}]
Unread == SUBSET {"checkpoint", "final"}
ReconnectLoops ==
    [ready : BOOLEAN, halted : BOOLEAN, subscribed : BOOLEAN, attempt : 0..1]

\* Every variable has its type; in particular no block beyond the head of the
\* chain is committed, and a ReconnectLoop counts one failure at most.
TypeOK ==
    /\ config \in Configs
    /\ stage \in Stages
    /\ requested \in BOOLEAN /\ shutdown \in BOOLEAN
    /\ task \in [LiveTask -> TaskStates]
    /\ result \in Results
    /\ health \in Snapshots
    /\ reconnect \in ReconnectLoops
    /\ tracker \in {"off", "begin", "head", "compare", "catchup", "reread", "chain",
                    "lagging", "report", "publishing", "waiting", "closing"}
    /\ socket \in {"off", "connecting", "up", "ended", "sleeping"}
    /\ notified \in BOOLEAN /\ pending \in BOOLEAN
    /\ disputed \in BOOLEAN /\ halted \in BOOLEAN /\ forked \in BOOLEAN
    /\ unread \in Unread
    /\ chainHead \in 0..MaxHead /\ lastHead \in 0..MaxHead
    /\ checkpoint \in 0..MaxHead
    /\ faults \in 0..MaxFaults

\* The readiness the process reports was earned, as far as the code can tell.
\* While the tracker rests a ready service was never contradicted by the verifier
\* and has every block up to the head it last read, on a branch the provider showed
\* this reconciliation: every way through run_with_cancellation leads there, or the
\* gap test of readiness_from_reconnect says no.  A sink read that fails is answered None and weakens
\* this: after apply_chain_state read no checkpoint the rows may be on another
\* branch, and when the final read fails as well they may be behind.  A head below
\* the checkpoint, of a lagging provider, counts as reached.  The service is never
\* ready after the tracker gave up on the provider.
ReadyIsEarned ==
    health.ready =>
        /\ task["Tracker"] # "rpc"
        /\ tracker = "waiting" =>
               /\ ~disputed
               /\ unread # {"checkpoint", "final"} => checkpoint >= lastHead
               /\ "checkpoint" \notin unread => ~forked

\* A correctness stop fails closed: from the moment reconcile_and_publish marks
\* it no block is committed and the service is not reported ready again,
\* whatever the websocket task still writes while the process is stopping.
CorrectnessStopIsFinal ==
    [][halted => checkpoint' = checkpoint /\ ~health'.ready]_vars

\* run_live returns Ok only to an operator who asked for the end: no failure,
\* panic or early exit of a task is reported as success, also when other tasks
\* have ended cleanly because of it (run_until_first_exit).
OkOnlyOnRequest == result = "ok" => requested

\* However many announcements are coalesced, lost with a connection or sent while
\* a reconciliation runs, every head becomes durable unless the process ends.
HeadsBecomeDurable ==
    \A h \in 1..MaxHead :
        (stage = "running" /\ chainHead >= h) ~> (checkpoint >= h \/ stage = "ended")

\* One task that ends, or a signal, ends the whole process: no task is left
\* waiting for another (run_until_first_exit cancels and drains the rest).
EveryExitEndsTheProcess ==
    (requested \/ \E t \in LiveTask : Exited(t)) ~> stage = "ended"

\* A degraded report does not stick when the websocket task writes it after the
\* tracker's last publication: the next poll publishes again.  Only a verifier
\* that has contradicted the provider keeps the service from being ready.
DegradationHeals ==
    health.state = "degraded" ~> (health.ready \/ disputed \/ stage = "ended")

\* Readiness stays away while the subscription is known to be down.
ReadyMeansSubscribed == socket = "sleeping" => ~health.ready
=============================================================================
