--------------------------- MODULE LiveRuntimeProofs ---------------------------
(***************************************************************************)
(* Proofs about the live process: every variable keeps its type, a         *)
(* reported readiness was earned, a correctness stop is final and success  *)
(* is returned only on request.  The inductive invariant adds what the     *)
(* code relies on without saying it: the tracker's position in its loop    *)
(* against the state of its task and of run_live, what each way through a  *)
(* reconciliation leaves behind, its single failure, and who can have      *)
(* cancelled the token before the first task was joined.                   *)
(***************************************************************************)
EXTENDS LiveRuntime, TLAPS

\* run_live has not spawned the tasks yet.
Starting == stage \in {"primary", "verifier", "database", "spawn"}

\* The tracker loop is under way exactly while its task runs, between the spawn
\* and the join of the last task.
TrackerHasTask ==
    /\ tracker # "off" <=> task["Tracker"] = "running"
    /\ tracker # "off" => stage \in {"running", "draining"}

\* reconcile_and_publish gives up at its first RPC failure, so the attempts of
\* the ReconnectLoop never pass 1.
FirstFailureEnds == tracker # "off" \/ Starting => reconnect.attempt = 0

\* Until the supervisor joins a task only a signal cancels the token.
CancelledByRequest == Starting \/ stage = "running" => (shutdown => requested)

\* After a correctness stop there is no tracker and there will be none.
HaltedForGood ==
    halted => /\ ~health.ready
              /\ tracker = "off"
              /\ stage \in {"running", "draining", "ended"}

\* The tracker leaves its loop by the token only after it dropped its readiness.
ClosingIsNotReady == tracker = "closing" => ~reconnect.ready

\* run_with_cancellation compares nothing at its end: that the rows have reached
\* the head, on a branch the provider showed, is the outcome of every way through it but the one on
\* which apply_chain_state reads no checkpoint.
EveryWayArrives ==
    /\ tracker \in {"compare", "catchup", "reread", "chain", "lagging"} => unread = {}
    /\ tracker = "catchup" => checkpoint < lastHead
    /\ tracker = "lagging" => checkpoint > lastHead /\ ~forked
    /\ tracker \in {"report", "publishing"} /\ "checkpoint" \notin unread =>
           checkpoint >= lastHead /\ ~forked

\* What holds beside the types.
Control ==
    /\ TrackerHasTask /\ FirstFailureEnds /\ CancelledByRequest
    /\ EveryWayArrives /\ HaltedForGood /\ ClosingIsNotReady /\ ReadyIsEarned /\ OkOnlyOnRequest

RuntimeInv == TypeOK /\ Control
-----------------------------------------------------------------------------
(* What the calls on HealthState and ReconnectLoop leave behind. *)

\* update_live_status publishes a whole snapshot; it is ready exactly when
\* readiness_from_reconnect says so.
LEMMA PublishedSnapshot ==
    ASSUME TypeOK, NEW gap, PublishStatus(gap)
    PROVE  health' \in Snapshots /\ (health'.ready <=> ReadyNow(gap))
<1>1. ReadyNow(gap) \in BOOLEAN /\ reconnect.halted \in BOOLEAN
      BY DEF TypeOK, ReadyNow, ReconnectLoops
<1>2. Readiness(gap) \in {"ready", "degraded", "unavailable"}
      BY DEF Readiness
<1>. QED  BY <1>1, <1>2 DEF PublishStatus, UpdateLiveStatus, Snapshot, Snapshots

\* mark_degraded takes the readiness away.
LEMMA DegradedSnapshot ==
    ASSUME TypeOK, MarkDegraded("rpc")
    PROVE  health' \in Snapshots /\ ~health'.ready
<1>1. health.components \in SUBSET {"rpc"}
      BY DEF TypeOK, Snapshots
<1>2. health.components \cup {"rpc"} \in SUBSET {"rpc"}
      BY <1>1
<1>. QED  BY <1>2 DEF MarkDegraded, Snapshot, Snapshots

\* mark_correctness_stop takes the readiness away and is remembered.
LEMMA StoppedSnapshot ==
    ASSUME NEW reason \in {"chain_identity_mismatch", "unresolved_ancestry",
                           "correctness_stop"},
           MarkCorrectnessStop(reason)
    PROVE  /\ health' \in Snapshots /\ ~health'.ready
           /\ halted' /\ halted' \in BOOLEAN
BY DEF MarkCorrectnessStop, Snapshot, Snapshots

\* Every call on the ReconnectLoop keeps its type as long as the failure counted
\* is the first, and all but the failure keep the number of attempts.
LEMMA LoopCalls ==
    ASSUME TypeOK
    PROVE  /\ RecordDisconnect =>
                  /\ reconnect' \in ReconnectLoops /\ ~reconnect'.ready
                  /\ reconnect'.attempt = reconnect.attempt
           /\ RecordSubscribedForWakeups =>
                  /\ reconnect' \in ReconnectLoops /\ ~reconnect'.ready
                  /\ reconnect'.attempt = reconnect.attempt
           /\ RecordReadyAfterReconnect =>
                  /\ reconnect' \in ReconnectLoops
                  /\ reconnect'.attempt = reconnect.attempt
           /\ RecordCorrectnessError =>
                  reconnect' \in ReconnectLoops
           /\ RecordAvailabilityFailure /\ reconnect.attempt = 0 =>
                  reconnect' \in ReconnectLoops
<1>1. reconnect \in ReconnectLoops
      BY DEF TypeOK
<1>. USE DEF ReconnectLoops, Disconnected
<1>2. ASSUME RecordDisconnect
      PROVE  /\ reconnect' \in ReconnectLoops /\ ~reconnect'.ready
             /\ reconnect'.attempt = reconnect.attempt
      BY <1>1, <1>2 DEF RecordDisconnect
<1>3. ASSUME RecordSubscribedForWakeups
      PROVE  /\ reconnect' \in ReconnectLoops /\ ~reconnect'.ready
             /\ reconnect'.attempt = reconnect.attempt
      BY <1>1, <1>3 DEF RecordSubscribedForWakeups
<1>4. ASSUME RecordReadyAfterReconnect
      PROVE  /\ reconnect' \in ReconnectLoops
             /\ reconnect'.attempt = reconnect.attempt
      BY <1>1, <1>4 DEF RecordReadyAfterReconnect
<1>5. ASSUME RecordCorrectnessError
      PROVE  reconnect' \in ReconnectLoops
      BY <1>1, <1>5 DEF RecordCorrectnessError
<1>6. ASSUME RecordAvailabilityFailure, reconnect.attempt = 0
      PROVE  reconnect' \in ReconnectLoops
  <2>1. CASE reconnect.halted
        BY <1>1, <1>6, <2>1 DEF RecordAvailabilityFailure
  <2>2. CASE ~reconnect.halted
    <3>1. Disconnected \in ReconnectLoops /\ Disconnected.attempt = 0
          BY <1>1, <1>6
    <3>2. reconnect' = [Disconnected EXCEPT !.attempt = Disconnected.attempt + 1]
          BY <1>6, <2>2 DEF RecordAvailabilityFailure
    <3>3. ASSUME NEW d \in ReconnectLoops, d.attempt = 0
          PROVE  [d EXCEPT !.attempt = d.attempt + 1] \in ReconnectLoops
          BY <3>3
    <3>. QED  BY <3>1, <3>2, <3>3
  <2>. QED  BY <2>1, <2>2
<1>. QED  BY <1>2, <1>3, <1>4, <1>5, <1>6

\* run_live moves from one connection to the next.
LEMMA NextStage ==
    ASSUME stage \in {"primary", "verifier", "database"}
    PROVE  AfterStage[stage] \in {"verifier", "database", "spawn"}
<1>1. CASE stage = "primary"
      BY <1>1 DEF AfterStage
<1>2. CASE stage = "verifier"
      BY <1>2 DEF AfterStage
<1>3. CASE stage = "database"
      BY <1>3 DEF AfterStage
<1>. QED  BY <1>1, <1>2, <1>3

\* spawn starts the tasks that the configuration has.
LEMMA SpawnedTasks ==
    ASSUME TypeOK, SpawnTasks
    PROVE  /\ task' \in [LiveTask -> TaskStates]
           /\ task'["Tracker"] = "running"
<1>1. \A t \in LiveTask : task'[t] \in {task[t], "absent", "running"}
      BY DEF SpawnTasks, LiveTask
<1>. QED  BY <1>1 DEF SpawnTasks, TypeOK, LiveTask, TaskStates

\* The end of a task is recorded for that task alone (LiveTaskExit).
LEMMA ExitedTask ==
    ASSUME TypeOK, NEW t \in LiveTask, NEW how \in TaskStates, Exit(t, how)
    PROVE  /\ task' \in [LiveTask -> TaskStates]
           /\ task'[t] = how
           /\ \A u \in LiveTask \ {t} : task'[u] = task[u]
BY DEF TypeOK, Exit

\* An early return of run_live drops the supervisor with its tasks.
LEMMA Returned ==
    ASSUME TypeOK, NEW error \in {"rpc", "identity", "database"}, EarlyReturn(error)
    PROVE  /\ stage' = "ended" /\ stage' \in Stages
           /\ result' = error /\ result' \in Results
           /\ task' \in [LiveTask -> TaskStates] /\ task'["Tracker"] = "absent"
<1>1. "absent" \in TaskStates /\ error \in Results /\ "Tracker" \in LiveTask
      BY DEF TaskStates, Results, LiveTaskError, LiveTask
<1>. QED  BY <1>1 DEF EarlyReturn, Stages

\* What run_until_first_exit returns for the first task joined: success only when
\* the token had been cancelled before.
LEMMA Verdict ==
    ASSUME TypeOK, NEW t \in LiveTask, Exited(t)
    PROVE  /\ ExitVerdict(t) \in Results
           /\ ExitVerdict(t) = "ok" => shutdown
<1>1. task[t] \in {"ok"} \cup LiveTaskError
      BY DEF TypeOK, TaskStates, Exited
<1>. QED  BY <1>1 DEF ExitVerdict, Results

\* The failures of a behaviour stay within their bound.
LEMMA FaultCounted ==
    ASSUME TypeOK, Fault
    PROVE  faults' \in 0..MaxFaults
BY RuntimeAssumption DEF TypeOK, Fault

\* Whatever the provider and the verifier answer is a head of the chain
\* (current_head, verify_head).
LEMMA HeadAnswered ==
    ASSUME TypeOK, HeadAnswer
    PROVE  /\ lastHead' \in 0..MaxHead /\ faults' \in 0..MaxFaults
           /\ disputed' \in BOOLEAN /\ forked' \in BOOLEAN
<1>1. lastHead' \in 0..MaxHead /\ faults' \in 0..MaxFaults
      BY FaultCounted DEF TypeOK, HeadAnswer, NoFault
<1>2. disputed' \in BOOLEAN /\ forked' \in BOOLEAN
      BY DEF TypeOK, HeadAnswer
<1>. QED  BY <1>1, <1>2

\* A reconciliation that gives up does so with its first RPC failure
\* (reconcile_and_publish).
LEMMA GivenUp ==
    ASSUME TypeOK, Control, NEW error \in {"rpc", "database", "chain", "cancelled"},
           ReconcileFails(error)
    PROVE  /\ task' \in [LiveTask -> TaskStates]
           /\ task'["Tracker"] = error
           /\ health' \in Snapshots /\ (health'.ready => health.ready /\ error # "rpc")
           /\ reconnect' \in ReconnectLoops
<1>1. error \in TaskStates /\ "Tracker" \in LiveTask
      BY DEF TaskStates, LiveTaskError, LiveTask
<1>2. Exit("Tracker", error) /\ tracker # "off"
      BY DEF ReconcileFails, TrackerExit, Reconciling
<1>3. task' \in [LiveTask -> TaskStates] /\ task'["Tracker"] = error
      BY <1>1, <1>2, ExitedTask
<1>4. reconnect.attempt = 0
      BY <1>2 DEF Control, FirstFailureEnds
<1>5. CASE error = "rpc"
      BY <1>3, <1>4, <1>5, LoopCalls, DegradedSnapshot DEF ReconcileFails
<1>6. CASE error # "rpc"
      BY <1>3, <1>6 DEF ReconcileFails, TypeOK
<1>. QED  BY <1>5, <1>6
-----------------------------------------------------------------------------
(* The inductive invariant. *)

\* The process starts with no tracker, no signal and no readiness (run_live).
LEMMA RuntimeInit == Init => RuntimeInv
<1>. SUFFICES ASSUME Init PROVE RuntimeInv
     OBVIOUS
<1>1. health \in Snapshots /\ reconnect \in ReconnectLoops
      BY DEF Init, Snapshot, Snapshots, ReconnectLoops
<1>2. task \in [LiveTask -> TaskStates]
      BY DEF Init, TaskStates
<1>3. stage \in Stages /\ result \in Results
      BY DEF Init, Stages, Results
<1>4. /\ chainHead \in 0..MaxHead /\ lastHead \in 0..MaxHead
      /\ checkpoint \in 0..MaxHead /\ faults \in 0..MaxFaults
      BY RuntimeAssumption DEF Init
<1>5. TypeOK
      BY <1>1, <1>2, <1>3, <1>4 DEF Init, TypeOK, Configs, Unread
<1>6. Control
      BY RuntimeAssumption DEF Init, Control, Snapshot, LiveTask,
          TrackerHasTask, FirstFailureEnds, CancelledByRequest,
          EveryWayArrives, HaltedForGood, ClosingIsNotReady, ReadyIsEarned,
          OkOnlyOnRequest, Starting
<1>. QED  BY <1>5, <1>6 DEF RuntimeInv

\* Every step keeps the types: in particular the tracker never commits past the
\* head it read, and never fails twice (tracker_task).
LEMMA TypeStep ==
    ASSUME RuntimeInv, [Next]_vars
    PROVE  TypeOK'
<1>f. Fault => faults' \in 0..MaxFaults
      BY FaultCounted DEF RuntimeInv
<1>. USE RuntimeAssumption, <1>f DEF RuntimeInv, TypeOK, process, track, wake, NoFault
<1>1. CASE StartupOk
      BY <1>1, NextStage DEF StartupOk, Stages
<1>2. CASE StartupRpcFails
      BY <1>2, Returned, DegradedSnapshot DEF StartupRpcFails, EarlyReturn
<1>3. CASE StartupWrongChain
      BY <1>3, Returned, StoppedSnapshot DEF StartupWrongChain, EarlyReturn
<1>4. CASE StartupDatabaseFails
      BY <1>4, Returned DEF StartupDatabaseFails, EarlyReturn
<1>5. CASE SpawnTasks
      BY <1>5, SpawnedTasks DEF SpawnTasks, Stages, TaskStates, LiveTaskError
<1>6. CASE Signal
      BY <1>6 DEF Signal
<1>7. CASE \E t \in LiveTask : JoinFirst(t)
      BY <1>7, Verdict DEF JoinFirst, Stages
<1>8. CASE JoinRest
      BY <1>8 DEF JoinRest, Running, Stages
<1>9. CASE HealthServerEnds
      BY <1>9, ExitedTask DEF HealthServerEnds, Running, TaskStates, LiveTaskError, LiveTask
<1>10. CASE NewHead
      BY <1>10 DEF NewHead
<1>11. CASE Subscribe
      BY <1>11 DEF Subscribe
<1>12. CASE SocketWake
      BY <1>12 DEF SocketWake, TryWake
<1>13. CASE SubscriptionEnds
  <2>1. faults' \in 0..MaxFaults /\ socket' = "ended" /\ notified' = FALSE
        BY <1>13 DEF SubscriptionEnds
  <2>2. UNCHANGED <<process, track, pending, health, chainHead, halted>>
        BY <1>13 DEF SubscriptionEnds
  <2>. QED  BY <2>1, <2>2
<1>14. CASE MarkSocketDown
      BY <1>14, DegradedSnapshot DEF MarkSocketDown
<1>15. CASE Resubscribe
      BY <1>15 DEF Resubscribe
<1>16. CASE WakeupsStop
  <2>1. task' \in [LiveTask -> TaskStates]
        BY <1>16, ExitedTask DEF WakeupsStop, TaskStates, LiveTaskError, LiveTask
  <2>2. socket' = "off" /\ notified' = FALSE
        BY <1>16 DEF WakeupsStop
  <2>3. UNCHANGED <<config, stage, requested, shutdown, result, track, pending,
                    health, chainHead, halted, faults>>
        BY <1>16 DEF WakeupsStop
  <2>. QED  BY <2>1, <2>2, <2>3
<1>17. CASE PollTick
      BY <1>17 DEF PollTick, TryWake
<1>18. CASE PollStops
      BY <1>18, ExitedTask DEF PollStops, Running, TaskStates, LiveTaskError, LiveTask
<1>19. CASE TrackerStarts
      BY <1>19, LoopCalls DEF TrackerStarts
<1>20. CASE TrackerWakes
  <2>1. reconnect' \in ReconnectLoops /\ tracker' = "head" /\ pending' = FALSE
        BY <1>20, LoopCalls DEF TrackerWakes
  <2>. QED  BY <1>20, <2>1 DEF TrackerWakes
<1>21. CASE ReadHead
  <2>1. UNCHANGED <<process, reconnect, checkpoint, wake, health, chainHead, halted>>
        BY <1>21 DEF ReadHead
  <2>2. tracker' = "compare" /\ unread' \in Unread
        BY <1>21 DEF ReadHead, Unread
  <2>. QED  BY <1>21, <2>1, <2>2, HeadAnswered DEF ReadHead
<1>22. CASE Compare
  <2>1. UNCHANGED <<process, reconnect, lastHead, disputed, checkpoint, unread, wake,
                    health, chainHead, halted>>
        BY <1>22 DEF Compare
  <2>2. faults' \in 0..MaxFaults
        BY <1>22 DEF Compare
  <2>3. tracker' \in {"catchup", "chain", "report", "lagging"}
        BY <1>22 DEF Compare
  <2>4. forked' \in BOOLEAN
        BY <1>22 DEF Compare
  <2>. QED  BY <2>1, <2>2, <2>3, <2>4
<1>23. CASE CommitNext
  <2>1. checkpoint < lastHead
        BY <1>23 DEF CommitNext, Control, EveryWayArrives
  <2>2. checkpoint' \in 0..MaxHead
        BY <1>23, <2>1 DEF CommitNext
  <2>3. faults' \in 0..MaxFaults
        BY <1>23 DEF CommitNext
  <2>4. tracker' \in {"catchup", "report"} /\ forked' = FALSE
        BY <1>23 DEF CommitNext
  <2>5. UNCHANGED <<process, reconnect, lastHead, disputed, unread, wake, health,
                    chainHead, halted>>
        BY <1>23 DEF CommitNext
  <2>. QED  BY <2>2, <2>3, <2>4, <2>5
<1>24. CASE CatchUpBreaks
      BY <1>24 DEF CatchUpBreaks
<1>25. CASE RereadHead
  <2>1. UNCHANGED <<process, reconnect, checkpoint, unread, wake, health, chainHead,
                    halted>>
        BY <1>25 DEF RereadHead
  <2>2. tracker' = "chain"
        BY <1>25 DEF RereadHead
  <2>. QED  BY <1>25, <2>1, <2>2, HeadAnswered DEF RereadHead
<1>26. CASE ChainStateCommits
      BY <1>26 DEF ChainStateCommits
<1>27. CASE ChainStateSkipped
  <2>1. unread' \in Unread
        BY <1>27 DEF ChainStateSkipped, Unread
  <2>. QED  BY <1>27, <2>1 DEF ChainStateSkipped
<1>28. CASE Reconciled
  <2>1. unread' \in Unread
        BY <1>28 DEF Reconciled, Unread
  <2>2. faults' \in 0..MaxFaults /\ reconnect' \in ReconnectLoops
        BY <1>28, LoopCalls DEF Reconciled
  <2>. QED  BY <1>28, <2>1, <2>2 DEF Reconciled
<1>29. CASE TrackerFails
      BY <1>29, GivenUp DEF TrackerFails, ReconcileFails, TrackerExit
<1>30. CASE TrackerCancelled
      BY <1>30, GivenUp DEF TrackerCancelled, ReconcileFails, TrackerExit
<1>31. CASE TrackerHalts
      BY <1>31, ExitedTask, LoopCalls, StoppedSnapshot DEF TrackerHalts, TrackerExit, TaskStates, LiveTaskError, LiveTask
<1>32. CASE Publish
      BY <1>32, PublishedSnapshot DEF Publish
<1>33. CASE PublishFails
      BY <1>33, ExitedTask DEF PublishFails, TrackerExit, TaskStates, LiveTaskError, LiveTask
<1>34. CASE TrackerCloses
      BY <1>34, LoopCalls DEF TrackerCloses
<1>35. CASE TrackerStops
      BY <1>35, ExitedTask, PublishedSnapshot DEF TrackerStops, TrackerExit, TaskStates, LiveTaskError, LiveTask
<1>36. CASE \E t \in LiveTask : TaskPanics(t)
      BY <1>36, ExitedTask DEF TaskPanics, Running, TaskStates, LiveTaskError, LiveTask
<1>37. CASE UNCHANGED vars
      BY <1>37 DEF vars
<1>. QED
  BY <1>1, <1>2, <1>3, <1>4, <1>5, <1>6, <1>7, <1>8, <1>9, <1>10,
     <1>11, <1>12, <1>13, <1>14, <1>15, <1>16, <1>17, <1>18, <1>19, <1>20,
     <1>21, <1>22, <1>23, <1>24, <1>25, <1>26, <1>27, <1>28, <1>29, <1>30,
     <1>31, <1>32, <1>33, <1>34, <1>35, <1>36, <1>37
  DEF Next, Startup, Wakeups, Poll, Tracker

\* Every step of every task, of the supervisor and of a signal keeps the
\* control invariant, and none after a correctness stop commits or reports
\* readiness (run_live, run_until_first_exit, tracker_task, websocket_wakeup_task).
LEMMA ControlStep ==
    ASSUME RuntimeInv, [Next]_vars
    PROVE  Control' /\ (halted => checkpoint' = checkpoint /\ ~health'.ready)
<1>t. TypeOK
      BY DEF RuntimeInv
<1>c. Control
      BY DEF RuntimeInv
<1>l. checkpoint \in Nat /\ lastHead \in Nat /\ "Tracker" \in DOMAIN task
      BY <1>t DEF TypeOK, LiveTask
<1>. USE RuntimeAssumption DEF Control, process, track, wake, TrackerHasTask, FirstFailureEnds, CancelledByRequest,
          EveryWayArrives, HaltedForGood, ClosingIsNotReady, ReadyIsEarned,
          OkOnlyOnRequest, Starting
<1>1. CASE StartupOk
      BY <1>1, <1>t, <1>c, <1>l, NextStage DEF StartupOk
<1>2. CASE StartupRpcFails
      BY <1>2, <1>t, <1>c, <1>l, Returned, DegradedSnapshot DEF StartupRpcFails, EarlyReturn, LiveTask
<1>3. CASE StartupWrongChain
      BY <1>3, <1>t, <1>c, <1>l, Returned, StoppedSnapshot DEF StartupWrongChain, EarlyReturn, LiveTask, MarkCorrectnessStop
<1>4. CASE StartupDatabaseFails
      BY <1>4, <1>t, <1>c, <1>l, Returned DEF StartupDatabaseFails, EarlyReturn, LiveTask
<1>5. CASE SpawnTasks
      BY <1>5, <1>t, <1>c, <1>l, SpawnedTasks DEF SpawnTasks, LiveTask
<1>6. CASE Signal
      BY <1>6, <1>t, <1>c, <1>l DEF Signal
<1>7. CASE \E t \in LiveTask : JoinFirst(t)
      BY <1>7, <1>t, <1>c, <1>l, Verdict DEF JoinFirst
<1>8. CASE JoinRest
      BY <1>8, <1>t, <1>c, <1>l DEF JoinRest, Running, LiveTask
<1>9. CASE HealthServerEnds
      BY <1>9, <1>t, <1>c, <1>l DEF HealthServerEnds, Exit, Running, LiveTask
<1>10. CASE NewHead
      BY <1>10, <1>t, <1>c, <1>l DEF NewHead
<1>11. CASE Subscribe
      BY <1>11, <1>t, <1>c, <1>l DEF Subscribe
<1>12. CASE SocketWake
      BY <1>12, <1>t, <1>c, <1>l DEF SocketWake, TryWake
<1>13. CASE SubscriptionEnds
      BY <1>13, <1>t, <1>c, <1>l DEF SubscriptionEnds
<1>14. CASE MarkSocketDown
      BY <1>14, <1>t, <1>c, <1>l, DegradedSnapshot DEF MarkSocketDown
<1>15. CASE Resubscribe
      BY <1>15, <1>t, <1>c, <1>l DEF Resubscribe
<1>16. CASE WakeupsStop
      BY <1>16, <1>t, <1>c, <1>l DEF WakeupsStop, Exit, LiveTask
<1>17. CASE PollTick
      BY <1>17, <1>t, <1>c, <1>l DEF PollTick, TryWake
<1>18. CASE PollStops
      BY <1>18, <1>t, <1>c, <1>l DEF PollStops, Exit, Running, LiveTask
<1>19. CASE TrackerStarts
      BY <1>19, <1>t, <1>c, <1>l, LoopCalls DEF TrackerStarts
<1>20. CASE TrackerWakes
      BY <1>20, <1>t, <1>c, <1>l, LoopCalls DEF TrackerWakes
<1>21. CASE ReadHead
      BY <1>21, <1>t, <1>c, <1>l DEF ReadHead
<1>22. CASE Compare
      BY <1>22, <1>t, <1>c, <1>l DEF Compare
<1>23. CASE CommitNext
      BY <1>23, <1>t, <1>c, <1>l DEF CommitNext
<1>24. CASE CatchUpBreaks
      BY <1>24, <1>t, <1>c, <1>l DEF CatchUpBreaks
<1>25. CASE RereadHead
      BY <1>25, <1>t, <1>c, <1>l DEF RereadHead
<1>26. CASE ChainStateCommits
      BY <1>26, <1>t, <1>c, <1>l DEF ChainStateCommits
<1>27. CASE ChainStateSkipped
      BY <1>27, <1>t, <1>c, <1>l DEF ChainStateSkipped
<1>28. CASE Reconciled
      BY <1>28, <1>t, <1>c, <1>l, LoopCalls DEF Reconciled
<1>29. CASE TrackerFails
      BY <1>29, <1>t, <1>c, <1>l, LoopCalls, DegradedSnapshot DEF TrackerFails, ReconcileFails, Reconciling, TrackerExit, Exit, LiveTask
<1>30. CASE TrackerCancelled
      BY <1>30, <1>t, <1>c, <1>l, LoopCalls, DegradedSnapshot DEF TrackerCancelled, ReconcileFails, Reconciling, TrackerExit, Exit, LiveTask
<1>31. CASE TrackerHalts
      BY <1>31, <1>t, <1>c, <1>l, LoopCalls, StoppedSnapshot DEF TrackerHalts, TrackerExit, Exit, LiveTask, MarkCorrectnessStop
<1>32. CASE Publish
  <2>1. health'.ready => ~disputed /\ Gap = 0
        BY <1>32, <1>t, PublishedSnapshot DEF Publish, ReadyNow
  <2>2. unread # {"checkpoint", "final"} =>
            "checkpoint" \notin unread \/ "final" \notin unread
        BY <1>t DEF TypeOK, Unread
  <2>3. Gap = 0 /\ unread # {"checkpoint", "final"} => checkpoint >= lastHead
        BY <1>32, <1>c, <1>l, <2>2 DEF Publish, Gap
  <2>4. "checkpoint" \notin unread => ~forked
        BY <1>32, <1>c DEF Publish
  <2>. QED  BY <1>32, <1>c, <2>1, <2>3, <2>4 DEF Publish
<1>33. CASE PublishFails
      BY <1>33, <1>t, <1>c, <1>l DEF PublishFails, TrackerExit, Exit, LiveTask
<1>34. CASE TrackerCloses
      BY <1>34, <1>t, <1>c, <1>l, LoopCalls DEF TrackerCloses
<1>35. CASE TrackerStops
      BY <1>35, <1>t, <1>c, <1>l, PublishedSnapshot DEF TrackerStops, TrackerExit, Exit, LiveTask, ReadyNow
<1>36. CASE \E t \in LiveTask : TaskPanics(t)
      BY <1>36, <1>t, <1>c, <1>l DEF TaskPanics, Exit, Running, LiveTask
<1>37. CASE UNCHANGED vars
      BY <1>37, <1>t, <1>c, <1>l DEF vars
<1>. QED
  BY <1>1, <1>2, <1>3, <1>4, <1>5, <1>6, <1>7, <1>8, <1>9, <1>10,
     <1>11, <1>12, <1>13, <1>14, <1>15, <1>16, <1>17, <1>18, <1>19, <1>20,
     <1>21, <1>22, <1>23, <1>24, <1>25, <1>26, <1>27, <1>28, <1>29, <1>30,
     <1>31, <1>32, <1>33, <1>34, <1>35, <1>36, <1>37
  DEF Next, Startup, Wakeups, Poll, Tracker

\* No execution leaves the inductive invariant.
LEMMA RuntimeSafe == Spec => []RuntimeInv
<1>1. RuntimeInv /\ [Next]_vars => RuntimeInv'
      BY TypeStep, ControlStep DEF RuntimeInv
<1>. QED  BY <1>1, RuntimeInit, PTL DEF Spec
-----------------------------------------------------------------------------
(* What the process promises. *)

\* Whatever the number of heads and failures, every variable keeps its type: no
\* block past the chain's head is committed and a ReconnectLoop never counts a
\* second failure (tracker_task, reconcile_and_publish).
THEOREM TypeCorrect == Spec => []TypeOK
BY RuntimeSafe, PTL DEF RuntimeInv

\* A readiness the process reports was earned, although three tasks write the
\* HealthState without coordination (readiness_from_reconnect, mark_degraded,
\* update_live_status).
THEOREM ReadinessEarned == Spec => []ReadyIsEarned
BY RuntimeSafe, PTL DEF RuntimeInv, Control

\* run_live reports success only to an operator who asked for the end
\* (run_until_first_exit).
THEOREM SuccessIsRequested == Spec => []OkOnlyOnRequest
BY RuntimeSafe, PTL DEF RuntimeInv, Control

\* After a correctness stop no block is committed and the service is not reported
\* ready again, whatever the other tasks do while the process ends
\* (mark_correctness_stop, TrackerHalts).
THEOREM StopIsFinal == Spec => CorrectnessStopIsFinal
<1>1. RuntimeInv /\ [Next]_vars =>
          [halted => checkpoint' = checkpoint /\ ~health'.ready]_vars
      BY ControlStep
<1>. QED  BY <1>1, RuntimeSafe, PTL DEF Spec, CorrectnessStopIsFinal
=============================================================================
