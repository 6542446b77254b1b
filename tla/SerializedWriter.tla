-------------------------- MODULE SerializedWriter --------------------------
(***************************************************************************)
(* SerializedWriter: a bounded queue of batches in front of one task that  *)
(* applies them.  A caller submits through the handle, or through a clone  *)
(* of the sender (spawn_with_receiver takes one it was given); shutdown    *)
(* cancels, drops the handle's sender and waits for the task until a       *)
(* timeout.  apply_batch is atomic (module PostgresWriter); a failed one   *)
(* may have been committed all the same.                                   *)
(***************************************************************************)
EXTENDS Naturals, Sequences

CONSTANTS
    Batch,              \* the batches callers submit
    Capacity,           \* capacity of the channel
    MaxBatches          \* bound: batches accepted in one behaviour

ASSUME WriterAssumption ==
    /\ Capacity \in Nat \ {0}
    /\ MaxBatches \in Nat

VARIABLES
    queue,              \* the channel
    closed,             \* receiver.close() was called, or the receiver dropped
    cancelled,          \* the cancellation token
    handle,             \* the SerializedWriter value: held, dropped, or where
                        \* its shutdown is
    clone,              \* a clone of the sender is alive
    loop,               \* where writer_loop is
    batch,              \* the batch writer_loop is applying (or applied last)
    failed,             \* history: the loop ended on an error
    accepted,           \* history: batches whose submission succeeded
    applied             \* durable: batches applied, in order

vars == <<queue, closed, cancelled, handle, clone, loop, batch, failed,
          accepted, applied>>

Init ==
    /\ queue = <<>>
    /\ closed = FALSE
    /\ cancelled = FALSE
    /\ handle = "held"
    /\ clone \in BOOLEAN
    /\ loop = "select"
    /\ batch \in Batch
    /\ failed = FALSE
    /\ accepted = <<>>
    /\ applied = <<>>
-----------------------------------------------------------------------------
(* Callers.  A send waits for room; a closed channel refuses it. *)

\* Variant: a channel without a bound.
SendUnbounded(b) ==
    /\ Len(accepted) < MaxBatches
    /\ ~closed
    /\ queue' = Append(queue, b)
    /\ accepted' = Append(accepted, b)
    /\ UNCHANGED <<closed, cancelled, handle, clone, loop, batch, failed, applied>>

Send(b) ==
    /\ Len(accepted) < MaxBatches
    /\ ~closed
    /\ Len(queue) < Capacity
    /\ queue' = Append(queue, b)
    /\ accepted' = Append(accepted, b)
    /\ UNCHANGED <<closed, cancelled, handle, clone, loop, batch, failed, applied>>

Submit(b) ==
    /\ handle = "held"
    /\ ~cancelled
    /\ Send(b)

SendThroughClone(b) ==
    /\ clone
    /\ Send(b)

DropClone ==
    /\ clone
    /\ clone' = FALSE
    /\ UNCHANGED <<queue, closed, cancelled, handle, loop, batch, failed,
                   accepted, applied>>

\* Dropping the handle does not cancel: the loop ends when the queue is empty.
DropHandle ==
    /\ handle = "held"
    /\ handle' = "dropped"
    /\ UNCHANGED <<queue, closed, cancelled, clone, loop, batch, failed,
                   accepted, applied>>

Shutdown ==
    /\ handle = "held"
    /\ cancelled' = TRUE
    /\ handle' = "waiting"
    /\ UNCHANGED <<queue, closed, clone, loop, batch, failed, accepted, applied>>

ShutdownReturns ==
    /\ handle = "waiting"
    /\ \/ loop = "done" /\ handle' = "ok"
       \/ loop # "done" /\ handle' = "timeout"
    /\ UNCHANGED <<queue, closed, cancelled, clone, loop, batch, failed,
                   accepted, applied>>
-----------------------------------------------------------------------------
(* writer_loop.  When both branches of its select are ready either is taken. *)

Take(next) ==
    /\ queue # <<>>
    /\ batch' = Head(queue)
    /\ queue' = Tail(queue)
    /\ loop' = next
    /\ UNCHANGED <<closed, cancelled, handle, clone, failed, accepted, applied>>

Recv == loop = "select" /\ Take("applying")

\* recv returns None: every sender is gone and the queue is empty.
RecvNone ==
    /\ loop = "select"
    /\ queue = <<>>
    /\ handle # "held"
    /\ ~clone
    /\ loop' = "done"
    /\ closed' = TRUE
    /\ UNCHANGED <<queue, cancelled, handle, clone, batch, failed, accepted, applied>>

\* Variant: the loop drains without closing the channel.
SeeCancelledOpen ==
    /\ loop = "select"
    /\ cancelled
    /\ loop' = "drain"
    /\ UNCHANGED <<queue, closed, cancelled, handle, clone, batch, failed,
                   accepted, applied>>

SeeCancelled ==
    /\ loop = "select"
    /\ cancelled
    /\ closed' = TRUE
    /\ loop' = "drain"
    /\ UNCHANGED <<queue, cancelled, handle, clone, batch, failed, accepted, applied>>

DrainRecv == loop = "drain" /\ Take("draining")

\* Variant: cancellation drops what is queued.
StopAtOnce ==
    /\ loop = "drain"
    /\ loop' = "done"
    /\ UNCHANGED <<queue, closed, cancelled, handle, clone, batch, failed,
                   accepted, applied>>

DrainDone ==
    /\ loop = "drain"
    /\ queue = <<>>
    /\ loop' = "done"
    /\ UNCHANGED <<queue, closed, cancelled, handle, clone, batch, failed,
                   accepted, applied>>

Applying == loop \in {"applying", "draining"}

\* Variant: a batch already seen is taken for a duplicate and skipped.
ApplyOnce ==
    /\ Applying
    /\ applied' = IF \E i \in DOMAIN applied : applied[i] = batch
                  THEN applied ELSE Append(applied, batch)
    /\ loop' = IF loop = "applying" THEN "select" ELSE "drain"
    /\ UNCHANGED <<queue, closed, cancelled, handle, clone, batch, failed, accepted>>

ApplyOk ==
    /\ Applying
    /\ applied' = Append(applied, batch)
    /\ loop' = IF loop = "applying" THEN "select" ELSE "drain"
    /\ UNCHANGED <<queue, closed, cancelled, handle, clone, batch, failed, accepted>>

\* The loop breaks; the receiver is dropped with what it holds.
ApplyFails ==
    /\ Applying
    /\ applied' \in {applied, Append(applied, batch)}
    /\ loop' = "done"
    /\ failed' = TRUE
    /\ closed' = TRUE
    /\ queue' = <<>>
    /\ UNCHANGED <<cancelled, handle, clone, batch, accepted>>
-----------------------------------------------------------------------------
Callers ==
    \/ \E b \in Batch : Submit(b) \/ SendThroughClone(b)
    \/ DropClone \/ DropHandle \/ Shutdown \/ ShutdownReturns

WriterLoop ==
    \/ Recv \/ RecvNone \/ SeeCancelled
    \/ DrainRecv \/ DrainDone \/ ApplyOk \/ ApplyFails

Next == Callers \/ WriterLoop

Spec == Init /\ [][Next]_vars

\* The task is polled while it can go on; a caller owes nothing.
FairSpec == Spec /\ WF_vars(WriterLoop)
-----------------------------------------------------------------------------
\* Every variable has its type, and the channel holds no more than its capacity.
TypeOK ==
    /\ queue \in Seq(Batch) /\ Len(queue) <= Capacity
    /\ closed \in BOOLEAN /\ cancelled \in BOOLEAN
    /\ clone \in BOOLEAN /\ failed \in BOOLEAN
    /\ handle \in {"held", "dropped", "waiting", "ok", "timeout"}
    /\ loop \in {"select", "applying", "drain", "draining", "done"}
    /\ batch \in Batch
    /\ accepted \in Seq(Batch)
    /\ applied \in Seq(Batch)

Outcome ==
    IF loop # "done" THEN "open" ELSE IF failed THEN "failed" ELSE "drained"

Journal == INSTANCE BatchJournal WITH accepted <- accepted,
                                      applied <- applied,
                                      outcome <- Outcome

\* The queue, the select, the drain and the ways to end implement the journal:
\* every accepted batch is applied once and in order; without an error the loop
\* ends only when nothing accepted is left, also when a send races with
\* receiver.close(), and after an error nothing more is accepted or applied.
ImplementsBatchJournal == Journal!Spec

\* A batch that was accepted is applied in the end unless an earlier one fails,
\* whatever the handle does: shutdown, a shutdown that timed out, or a drop.
EveryAcceptedBatchIsApplied ==
    \A k \in 1..MaxBatches :
        Len(accepted) >= k ~> (Len(applied) >= k \/ failed)

\* What writer_loop holds, the batch in its hands before the queued ones.
Owed == (IF Applying THEN <<batch>> ELSE <<>>) \o queue

\* No batch is lost between send, recv and apply_batch: what was accepted is what
\* was applied followed by what is owed, and after an error what was applied is
\* still a beginning of it.  A channel that is closed stays closed, and writer_loop
\* never ends with a batch in it.
NothingSkipped ==
    /\ ~failed => accepted = applied \o Owed
    /\ failed => /\ loop = "done"
                 /\ Len(applied) <= Len(accepted)
                 /\ applied = SubSeq(accepted, 1, Len(applied))
    /\ closed <=> loop \in {"drain", "draining", "done"}
    /\ loop = "done" => queue = <<>>
=============================================================================
