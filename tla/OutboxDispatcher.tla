-------------------------- MODULE OutboxDispatcher --------------------------
(***************************************************************************)
(* From committed outbox rows to a consumer's view of them.  Writers of    *)
(* several chains share the table outbox_events and its identity sequence; *)
(* KafkaOutboxDispatcher processes publish one row at a time and mark it   *)
(* after the broker's acknowledgement; the demo consumer deduplicates by   *)
(* event_id.  Any process may die, the database connection of a dispatcher *)
(* may break while it publishes, and a publish that failed may still reach *)
(* the broker, at once or much later.                                      *)
(***************************************************************************)
EXTENDS Naturals, Sequences, FiniteSets

CONSTANTS
    Chains,         \* chains indexed into this database, one writer each
    Dispatchers,    \* kafka-dispatch processes
    None,
    MaxMessages,    \* the demo consumer's --max-messages
    MaxEvents,      \* bound: ids drawn from the identity sequence
    MaxFaults       \* bound: failed publishes, lost connections, deaths

ASSUME NoneAssumption == None \notin Nat
ASSUME OutboxBoundsAssumption == {MaxMessages, MaxEvents, MaxFaults} \subseteq Nat

Ids == 1..MaxEvents

VARIABLES
    nextId,     \* the identity sequence; it does not roll back
    owner,      \* chain_id of each row, by event_id
    open,       \* per chain, the ids inserted by its open transaction
    committed,  \* ids of the committed rows
    published,  \* those with published_at set
    dpc,        \* where each dispatcher stands
    snap,       \* per dispatcher, unpublished rows its SELECT has yet to visit
    row,        \* per dispatcher, the row it took with FOR UPDATE
    conn,       \* per dispatcher, whether its transaction is still alive
    log,        \* the topic: event_ids in the order the broker appended them
    late,       \* failed publishes the broker may still append
    offset,     \* the consumer group's committed offset
    seen,       \* the consumer's in-memory set
    handled,    \* the consumer handled the message after offset, not committed yet
    printed,    \* what the consumer printed, over all its lives
    session,    \* how much of it was printed before the consumer last started
    faults

table == <<nextId, owner, open, committed>>
dispatch == <<dpc, snap, row, conn>>
consumer == <<offset, seen, handled, printed, session>>
vars == <<table, published, dispatch, log, late, consumer, faults>>

Init ==
    /\ nextId = 1
    /\ owner = [i \in Ids |-> None]
    /\ open = [c \in Chains |-> {}]
    /\ committed = {}
    /\ published = {}
    /\ dpc = [d \in Dispatchers |-> "idle"]
    /\ snap = [d \in Dispatchers |-> {}]
    /\ row = [d \in Dispatchers |-> None]
    /\ conn = [d \in Dispatchers |-> TRUE]
    /\ log = <<>>
    /\ late = {}
    /\ offset = 0
    /\ seen = {}
    /\ handled = FALSE
    /\ printed = <<>>
    /\ session = 0
    /\ faults = 0
-----------------------------------------------------------------------------
(* The writers. *)

\* append_outbox, inside the transaction of apply_batch.
AppendOutbox(c) ==
    /\ nextId <= MaxEvents
    /\ nextId' = nextId + 1
    /\ owner' = [owner EXCEPT ![nextId] = c]
    /\ open' = [open EXCEPT ![c] = @ \cup {nextId}]
    /\ UNCHANGED <<committed, published, dispatch, log, late, consumer, faults>>

CommitTransaction(c) ==
    /\ open[c] # {}
    /\ committed' = committed \cup open[c]
    /\ open' = [open EXCEPT ![c] = {}]
    /\ UNCHANGED <<nextId, owner, published, dispatch, log, late, consumer, faults>>

\* The rows vanish, their ids are not used again.
AbortTransaction(c) ==
    /\ open[c] # {}
    /\ open' = [open EXCEPT ![c] = {}]
    /\ UNCHANGED <<nextId, owner, committed, published, dispatch, log, late,
                   consumer, faults>>
-----------------------------------------------------------------------------
(* dispatch_once_inner. *)

\* Variant: a cursor on event_id in place of published_at.
UnpublishedAfterLast == {i \in committed : \A j \in published : j < i}

\* published_at IS NULL.
Unpublished == committed \ published

\* The snapshot of SELECT ... WHERE published_at IS NULL ORDER BY event_id.  With
\* no row the call returns Idle.
SelectRows(d) ==
    /\ dpc[d] = "idle"
    /\ Unpublished # {}
    /\ snap' = [snap EXCEPT ![d] = Unpublished]
    /\ dpc' = [dpc EXCEPT ![d] = "locking"]
    /\ UNCHANGED <<table, published, row, conn, log, late, consumer, faults>>

\* Variant: FOR UPDATE SKIP LOCKED.
CandidateSkipLocked(d) ==
    LET taken == {row[e] : e \in {f \in Dispatchers \ {d} : conn[f]}}
        free == IF snap[d] \subseteq taken THEN snap[d] ELSE snap[d] \ taken
    IN  CHOOSE i \in free : \A j \in free : i <= j

\* The row the scan visits next.
Candidate(d) == CHOOSE i \in snap[d] : \A j \in snap[d] : i <= j

\* FOR UPDATE: held until the transaction ends, and that is when its connection
\* breaks at the latest.
LockedByOther(d, i) ==
    \E e \in Dispatchers \ {d} : row[e] = i /\ conn[e]

Visit(d) ==
    /\ dpc[d] = "locking"
    /\ snap[d] # {}
    /\ ~LockedByOther(d, Candidate(d))
    /\ snap' = [snap EXCEPT ![d] = @ \ {Candidate(d)}]

LockRow(d) ==
    /\ Visit(d)
    /\ Candidate(d) \notin published
    /\ row' = [row EXCEPT ![d] = Candidate(d)]
    /\ dpc' = [dpc EXCEPT ![d] = "publishing"]
    /\ UNCHANGED <<table, published, conn, log, late, consumer, faults>>

\* Its condition is evaluated again on the version the lock was waited for.
SkipRow(d) ==
    /\ Visit(d)
    /\ Candidate(d) \in published
    /\ UNCHANGED <<table, published, dpc, row, conn, log, late, consumer, faults>>

SelectEmpty(d) ==
    /\ dpc[d] = "locking"
    /\ snap[d] = {}
    /\ dpc' = [dpc EXCEPT ![d] = "idle"]
    /\ UNCHANGED <<table, published, snap, row, conn, log, late, consumer, faults>>

\* Variant: the message is in the producer's queue, not with the broker.
Enqueued(d) ==
    /\ dpc[d] = "publishing"
    /\ late' = late \cup {row[d]}
    /\ dpc' = [dpc EXCEPT ![d] = "marking"]
    /\ UNCHANGED <<table, published, snap, row, conn, log, consumer, faults>>

\* producer.publish returned Ok: the broker appended the message.
Acknowledged(d) ==
    /\ dpc[d] = "publishing"
    /\ log' = Append(log, row[d])
    /\ dpc' = [dpc EXCEPT ![d] = "marking"]
    /\ UNCHANGED <<table, published, snap, row, conn, late, consumer, faults>>

\* The loop ends and with it the transaction.
Halt(d) ==
    /\ dpc' = [dpc EXCEPT ![d] = "stopped"]
    /\ snap' = [snap EXCEPT ![d] = {}]
    /\ row' = [row EXCEPT ![d] = None]
    /\ conn' = [conn EXCEPT ![d] = TRUE]

\* UPDATE ... SET published_at, COMMIT.
MarkPublished(d) ==
    /\ dpc[d] = "marking"
    /\ conn[d]
    /\ published' = published \cup {row[d]}
    /\ row' = [row EXCEPT ![d] = None]
    /\ snap' = [snap EXCEPT ![d] = {}]
    /\ dpc' = [dpc EXCEPT ![d] = "idle"]
    /\ UNCHANGED <<table, conn, log, late, consumer, faults>>

MarkFails(d) ==
    /\ dpc[d] = "marking"
    /\ ~conn[d]
    /\ Halt(d)
    /\ UNCHANGED <<table, published, log, late, consumer, faults>>

\* producer.publish returned an error, or the process dies meanwhile.  The request
\* may be on its way.
PublishFails(d) ==
    /\ faults < MaxFaults
    /\ faults' = faults + 1
    /\ dpc[d] = "publishing"
    /\ late' \in {late, late \cup {row[d]}}
    /\ Halt(d)
    /\ UNCHANGED <<table, published, log, consumer>>

\* The process dies while it is not publishing.
Crash(d) ==
    /\ faults < MaxFaults
    /\ faults' = faults + 1
    /\ dpc[d] \in {"locking", "marking"}
    /\ Halt(d)
    /\ UNCHANGED <<table, published, log, late, consumer>>

\* The server ends the session, and releases the lock, while the dispatcher waits
\* for the broker.
LoseConnection(d) ==
    /\ faults < MaxFaults
    /\ faults' = faults + 1
    /\ dpc[d] \in {"publishing", "marking"}
    /\ conn[d]
    /\ conn' = [conn EXCEPT ![d] = FALSE]
    /\ UNCHANGED <<table, published, dpc, snap, row, log, late, consumer>>

\* The operator starts the dispatcher again.
RestartDispatcher(d) ==
    /\ dpc[d] = "stopped"
    /\ dpc' = [dpc EXCEPT ![d] = "idle"]
    /\ UNCHANGED <<table, published, snap, row, conn, log, late, consumer, faults>>

\* The broker appends a message whose sender gave up on it.
LateAppend(i) ==
    /\ i \in late
    /\ late' = late \ {i}
    /\ log' = Append(log, i)
    /\ UNCHANGED <<table, published, dispatch, consumer, faults>>
-----------------------------------------------------------------------------
(* run_kafka_demo_consumer. *)

\* A message is printed unless its event_id was seen.
HandleMessage ==
    /\ Cardinality(seen) < MaxMessages
    /\ ~handled
    /\ offset < Len(log)
    /\ LET i == log[offset + 1] IN
       /\ printed' = IF i \in seen THEN printed ELSE Append(printed, i)
       /\ seen' = seen \cup {i}
    /\ handled' = TRUE
    /\ UNCHANGED <<table, published, dispatch, log, late, offset, session, faults>>

\* Variant: the offset runs ahead of the messages.
CommitAhead ==
    /\ offset' = offset + 1
    /\ handled' = FALSE
    /\ UNCHANGED <<table, published, dispatch, log, late, seen, printed, session, faults>>

\* The offset of a handled message is committed.
CommitOffset ==
    /\ handled
    /\ offset' = offset + 1
    /\ handled' = FALSE
    /\ UNCHANGED <<table, published, dispatch, log, late, seen, printed, session, faults>>

\* Variant: the consumer starts at the end of the topic.
RestartAtEnd ==
    /\ faults < MaxFaults
    /\ faults' = faults + 1
    /\ seen' = {}
    /\ handled' = FALSE
    /\ offset' = Len(log)
    /\ session' = Len(printed)
    /\ UNCHANGED <<table, published, dispatch, log, late, printed>>

\* The consumer dies, or is stopped, and starts at the committed offset.
RestartConsumer ==
    /\ faults < MaxFaults
    /\ faults' = faults + 1
    /\ seen' = {}
    /\ handled' = FALSE
    /\ session' = Len(printed)
    /\ UNCHANGED <<table, published, dispatch, log, late, offset, printed>>
-----------------------------------------------------------------------------
Work(d) ==
    \/ SelectRows(d) \/ LockRow(d) \/ SkipRow(d) \/ SelectEmpty(d)
    \/ Acknowledged(d) \/ MarkPublished(d) \/ MarkFails(d) \/ RestartDispatcher(d)

Consume == HandleMessage \/ CommitOffset

Next ==
    \/ \E c \in Chains : AppendOutbox(c) \/ CommitTransaction(c) \/ AbortTransaction(c)
    \/ \E d \in Dispatchers :
           Work(d) \/ PublishFails(d) \/ Crash(d) \/ LoseConnection(d)
    \/ \E i \in late : LateAppend(i)
    \/ Consume
    \/ RestartConsumer

Spec == Init /\ [][Next]_vars

\* Dispatchers and the consumer loop for ever and are restarted when they stop; a
\* publish that does not fail is acknowledged.  The writers owe nothing, nor does
\* the broker for a message whose sender gave up.
FairSpec ==
    /\ Spec
    /\ \A d \in Dispatchers : WF_vars(Work(d))
    /\ WF_vars(Consume)
-----------------------------------------------------------------------------
\* Every variable has its type.
TypeOK ==
    /\ nextId \in 1..MaxEvents + 1
    /\ owner \in [Ids -> Chains \cup {None}]
    /\ open \in [Chains -> SUBSET Ids]
    /\ committed \subseteq Ids /\ published \subseteq committed
    /\ dpc \in [Dispatchers -> {"idle", "locking", "publishing", "marking", "stopped"}]
    /\ snap \in [Dispatchers -> SUBSET Ids]
    /\ row \in [Dispatchers -> Ids \cup {None}]
    /\ conn \in [Dispatchers -> BOOLEAN]
    /\ log \in Seq(Ids)
    /\ late \subseteq Ids
    /\ offset \in 0..Len(log)
    /\ seen \subseteq Ids
    /\ handled \in BOOLEAN
    /\ printed \in Seq(Ids)
    /\ session \in 0..Len(printed)
    /\ faults \in 0..MaxFaults

\* In a sequence of event ids, every event comes after all earlier committed events
\* of its chain came up for the first time.
NoGapPerChain(s) ==
    \A k \in 1..Len(s) :
        \A i \in committed :
            owner[i] = owner[s[k]] /\ i < s[k] => \E j \in 1..k - 1 : s[j] = i

\* What reaches the topic is committed, and per chain the first deliveries are a
\* prefix of the outbox in event_id order: a failed, retried or late publish, two
\* dispatchers at once, a broken lock, or ids that commit out of order never let
\* event N+1 of a chain overtake event N (dispatch_once_inner).
DeliveredInChainOrder ==
    /\ \A k \in 1..Len(log) : log[k] \in committed
    /\ NoGapPerChain(log)

\* published_at is set only on rows the broker has: nothing is lost by marking
\* (the order of publish and UPDATE in dispatch_once_inner).
PublishedIsDelivered == \A i \in published : \E k \in 1..Len(log) : log[k] = i

\* What the demo consumer prints has no gap per chain over all its lives, and no
\* event twice within one: offsets are committed after printing, and `seen` absorbs
\* the duplicates of retried and late publishes.
ViewHasNoGap ==
    /\ NoGapPerChain(printed)
    /\ \A k, l \in session + 1..Len(printed) : printed[k] = printed[l] => k = l

\* At-least-once delivery: every committed row is published, marked and reaches the
\* consumer's view in the end, whatever failed, died or was late on the way.
EveryRowIsPrinted ==
    \A i \in Ids : i \in committed ~>
        i \in published /\ \E k \in 1..Len(printed) : printed[k] = i
=============================================================================
