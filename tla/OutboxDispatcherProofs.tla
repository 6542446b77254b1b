----------------------- MODULE OutboxDispatcherProofs -----------------------
(***************************************************************************)
(* Proofs about delivery: for any number of chains, dispatchers, events    *)
(* and failures, nothing is marked that the broker does not have, and      *)
(* neither the topic nor the consumer's view of it has a gap in a chain.   *)
(* The argument follows an event: the ids of a chain commit in the order   *)
(* in which they were drawn, so a snapshot, a locked row and a late        *)
(* message keep all their predecessors behind them while rows go on being  *)
(* committed.                                                              *)
(***************************************************************************)
EXTENDS OutboxDispatcher, WellFoundedInduction, TLAPS

\* The broker has the event.
Delivered(i) == \E k \in 1..Len(log) : log[k] = i

\* The consumer has printed it, in this life or an earlier one.
Printed(i) == \E k \in 1..Len(printed) : printed[k] = i

\* A committed event that overtakes nobody: all earlier events of its chain are
\* with the broker.
Deliverable(i) ==
    /\ i \in committed
    /\ \A j \in committed : owner[j] = owner[i] /\ j < i => Delivered(j)

\* The sequence is ahead of every id in use, and an open transaction of a chain
\* holds ids above everything the chain has committed: one writer per chain
\* inserts and commits in turn.
IdsAreFresh ==
    /\ \A i \in committed : i < nextId
    /\ \A c \in Chains : \A i \in open[c] :
           /\ i < nextId
           /\ owner[i] = c
           /\ \A j \in committed : owner[j] = c => j < i

\* The rows that a SELECT has yet to visit are closed downwards per chain, except
\* for what was published meanwhile.
ScanIsClosed(d) ==
    \A i \in snap[d] :
        /\ i \in committed
        /\ \A j \in committed :
               owner[j] = owner[i] /\ j < i => j \in snap[d] \cup published

\* The row a dispatcher took overtakes nobody, and one about to be marked is with
\* the broker.
HoldingsInOrder ==
    \A d \in Dispatchers :
        /\ dpc[d] = "locking" => ScanIsClosed(d)
        /\ dpc[d] \in {"publishing", "marking"} => Deliverable(row[d])
        /\ dpc[d] = "marking" => Delivered(row[d])

\* A message whose sender gave up overtakes nobody either.
LateInOrder == \A i \in late : Deliverable(i)

\* The offset stands behind what was printed; the consumer's set is what this life
\* of the consumer printed.
OffsetBehindView ==
    /\ handled => offset < Len(log)
    /\ \A k \in 1..Len(printed) : printed[k] \in committed
    /\ \A k \in 1..Len(log) :
           k <= offset \/ (handled /\ k = offset + 1) => Printed(log[k])
    /\ \A i \in seen : Printed(i)
    /\ \A k \in session + 1..Len(printed) : printed[k] \in seen

OutboxInv ==
    /\ TypeOK /\ IdsAreFresh /\ HoldingsInOrder /\ LateInOrder
    /\ PublishedIsDelivered /\ DeliveredInChainOrder
    /\ OffsetBehindView /\ ViewHasNoGap
-----------------------------------------------------------------------------
(* The scan of the SELECT. *)

\* A set of ids that is not empty has a least one.
LEMMA LeastId ==
    ASSUME NEW S \in SUBSET Ids, S # {}
    PROVE  \E i \in S : \A j \in S : i <= j
<1>1. S \subseteq Nat
      BY OutboxBoundsAssumption DEF Ids
<1>2. \E i \in S : \A j \in S : ~(<<j, i>> \in OpToRel(<, Nat))
      BY <1>1, NatLessThanWellFounded, WFMin, Zenon
<1>3. \A i, j \in S : ~(<<j, i>> \in OpToRel(<, Nat)) => i <= j
      BY <1>1 DEF OpToRel
<1>. QED  BY <1>2, <1>3, Zenon

\* ORDER BY event_id: the scan visits the least row it has not visited.
LEMMA CandidateIsLeast ==
    ASSUME TypeOK, NEW d \in Dispatchers, snap[d] # {}
    PROVE  /\ Candidate(d) \in snap[d]
           /\ \A j \in snap[d] : Candidate(d) <= j
<1>1. snap[d] \in SUBSET Ids
      BY DEF TypeOK
<1>2. \E i \in snap[d] : \A j \in snap[d] : i <= j
      BY <1>1, LeastId
<1>. QED  BY <1>2 DEF Candidate
-----------------------------------------------------------------------------
(* What rows committed meanwhile do to an event on its way. *)

\* Rows are only added, an id keeps its chain, and what a chain adds lies above
\* what it had.
Grows ==
    /\ committed \subseteq committed'
    /\ \A i \in committed : owner'[i] = owner[i]
    /\ \A i \in committed : \A j \in committed' \ committed :
           owner'[j] = owner[i] => i < j

\* The topic is only appended to.
LogGrows == log' = log \/ \E i \in Ids : log' = Append(log, i)

\* The writers' transactions, one after the other per chain, keep the ids fresh
\* (append_outbox within apply_batch).
LEMMA WritersKeepOrder ==
    ASSUME TypeOK, IdsAreFresh, NEW c \in Chains,
           AppendOutbox(c) \/ CommitTransaction(c) \/ AbortTransaction(c)
    PROVE  IdsAreFresh' /\ Grows
<1>. USE OutboxBoundsAssumption DEF Ids
<1>1. CASE AppendOutbox(c)
      BY <1>1 DEF TypeOK, IdsAreFresh, AppendOutbox, Grows
<1>2. CASE CommitTransaction(c)
      BY <1>2 DEF TypeOK, IdsAreFresh, CommitTransaction, Grows
<1>3. CASE AbortTransaction(c)
      BY <1>3 DEF TypeOK, IdsAreFresh, AbortTransaction, Grows
<1>. QED  BY <1>1, <1>2, <1>3

\* Steps that leave the table alone.
LEMMA SameTable ==
    ASSUME TypeOK, IdsAreFresh, UNCHANGED table
    PROVE  IdsAreFresh' /\ Grows
BY DEF TypeOK, IdsAreFresh, Grows, table

\* An event the broker has stays, at its place.
LEMMA DeliveredStays ==
    ASSUME TypeOK, LogGrows
    PROVE  /\ Len(log) <= Len(log')
           /\ \A k \in 1..Len(log) : log'[k] = log[k]
           /\ \A i : Delivered(i) => Delivered(i)'
<1>1. CASE log' = log
      BY <1>1 DEF Delivered, TypeOK
<1>2. ASSUME NEW i \in Ids, log' = Append(log, i)
      PROVE  Len(log) <= Len(log') /\ \A k \in 1..Len(log) : log'[k] = log[k]
      BY <1>2 DEF TypeOK
<1>3. Len(log) \in Nat /\ Len(log) <= Len(log') /\ \A k \in 1..Len(log) : log'[k] = log[k]
      BY <1>1, <1>2 DEF LogGrows, TypeOK
<1>4. Len(log') \in Nat
      BY <1>2 DEF LogGrows, TypeOK
<1>. QED  BY <1>3, <1>4 DEF Delivered

\* An event that overtook nobody still overtakes nobody.
LEMMA DeliverableStays ==
    ASSUME TypeOK, Grows, LogGrows, NEW i, Deliverable(i)
    PROVE  Deliverable(i)'
<1>1. \A j : Delivered(j) => Delivered(j)'
      BY DeliveredStays
<1>2. i \in committed /\ i \in Nat /\ \A j \in committed' : j \in committed \/ ~(owner'[j] = owner[i]) \/ i < j
      BY OutboxBoundsAssumption DEF Deliverable, Grows, TypeOK, Ids
<1>3. ASSUME NEW j \in committed', owner'[j] = owner'[i], j < i
      PROVE  Delivered(j)'
  <2>1. owner'[i] = owner[i] /\ j \in committed
        BY <1>2, <1>3 DEF Grows
  <2>2. owner'[j] = owner[j]
        BY <2>1 DEF Grows
  <2>. QED  BY <1>1, <1>3, <2>1, <2>2 DEF Deliverable
<1>. QED  BY <1>2, <1>3 DEF Deliverable, Grows
-----------------------------------------------------------------------------
(* The inductive invariant, part by part. *)

\* Nothing is committed, held or printed at the start.
LEMMA OutboxInit == Init => OutboxInv
<1>. SUFFICES ASSUME Init PROVE OutboxInv
     OBVIOUS
<1>. USE OutboxBoundsAssumption DEF Init
<1>a. <<>> \in Seq(Ids) /\ Len(<<>>) = 0
      OBVIOUS
<1>b. 1 \in 1..MaxEvents + 1 /\ 0 \in 0..MaxFaults /\ 0 \in 0..0
      OBVIOUS
<1>1. TypeOK
      BY <1>a, <1>b DEF TypeOK
<1>2. IdsAreFresh /\ HoldingsInOrder /\ LateInOrder
      BY DEF IdsAreFresh, HoldingsInOrder, LateInOrder
<1>3. PublishedIsDelivered /\ DeliveredInChainOrder
      BY DEF PublishedIsDelivered, DeliveredInChainOrder, NoGapPerChain
<1>4. OffsetBehindView /\ ViewHasNoGap
      BY DEF OffsetBehindView, ViewHasNoGap, NoGapPerChain
<1>. QED  BY <1>1, <1>2, <1>3, <1>4 DEF OutboxInv

\* The row of a dispatcher that publishes or marks is a committed one.
LEMMA HeldRow ==
    ASSUME TypeOK, HoldingsInOrder, NEW d \in Dispatchers,
           dpc[d] \in {"publishing", "marking"}
    PROVE  row[d] \in committed /\ row[d] \in Ids
BY DEF TypeOK, HoldingsInOrder, Deliverable

\* Every step keeps the types.
LEMMA OutboxTypeStep ==
    ASSUME OutboxInv, [Next]_vars
    PROVE  TypeOK'
<1>. USE DEF OutboxInv, TypeOK, table, dispatch, consumer
<1>n. MaxEvents \in Nat /\ MaxFaults \in Nat /\ Len(log) \in Nat /\ Len(printed) \in Nat
      BY OutboxBoundsAssumption
<1>1. ASSUME NEW c \in Chains, AppendOutbox(c)
      PROVE  TypeOK'
  <2>1. nextId \in Ids /\ nextId' \in 1..MaxEvents + 1
        BY <1>1, <1>n DEF AppendOutbox, Ids
  <2>. QED  BY <1>1, <2>1 DEF AppendOutbox
<1>2. ASSUME NEW c \in Chains, CommitTransaction(c) \/ AbortTransaction(c)
      PROVE  TypeOK'
      BY <1>2 DEF CommitTransaction, AbortTransaction
<1>3. ASSUME NEW d \in Dispatchers,
             SelectRows(d) \/ SelectEmpty(d) \/ RestartDispatcher(d)
      PROVE  TypeOK'
      BY <1>3 DEF SelectRows, SelectEmpty, RestartDispatcher, Unpublished
<1>4. ASSUME NEW d \in Dispatchers, LockRow(d) \/ SkipRow(d)
      PROVE  TypeOK'
  <2>1. Candidate(d) \in snap[d]
        BY <1>4, CandidateIsLeast DEF LockRow, SkipRow, Visit
  <2>2. snap' \in [Dispatchers -> SUBSET Ids]
        BY <1>4 DEF LockRow, SkipRow, Visit
  <2>3. CASE LockRow(d)
    <3>1. /\ row' \in [Dispatchers -> Ids \cup {None}]
          /\ conn' \in [Dispatchers -> BOOLEAN]
          /\ dpc' \in [Dispatchers -> {"idle", "locking", "publishing", "marking", "stopped"}]
          BY <2>1, <2>3 DEF LockRow
    <3>. QED  BY <2>2, <2>3, <3>1 DEF LockRow
  <2>4. CASE SkipRow(d)
        BY <2>2, <2>4 DEF SkipRow
  <2>. QED  BY <1>4, <2>3, <2>4
<1>5. ASSUME NEW d \in Dispatchers, Acknowledged(d)
      PROVE  TypeOK'
  <2>1. row[d] \in Ids
        BY <1>5, HeldRow DEF Acknowledged
  <2>2. log' \in Seq(Ids) /\ Len(log') = Len(log) + 1
        BY <1>5, <2>1 DEF Acknowledged
  <2>3. offset \in 0..Len(log')
        BY <1>n, <2>2
  <2>. QED  BY <1>5, <2>2, <2>3 DEF Acknowledged
<1>6. ASSUME NEW d \in Dispatchers, MarkPublished(d)
      PROVE  TypeOK'
      BY <1>6, HeldRow DEF MarkPublished
<1>7. ASSUME NEW d \in Dispatchers, MarkFails(d) \/ Crash(d)
      PROVE  TypeOK'
  <2>1. faults' \in 0..MaxFaults
        BY <1>7, <1>n DEF MarkFails, Crash
  <2>. QED  BY <1>7, <2>1 DEF MarkFails, Crash, Halt
<1>8. ASSUME NEW d \in Dispatchers, PublishFails(d)
      PROVE  TypeOK'
  <2>1. faults' \in 0..MaxFaults
        BY <1>8, <1>n DEF PublishFails
  <2>2. late' \subseteq Ids
        BY <1>8, HeldRow DEF PublishFails
  <2>. QED  BY <1>8, <2>1, <2>2 DEF PublishFails, Halt
<1>9. ASSUME NEW d \in Dispatchers, LoseConnection(d)
      PROVE  TypeOK'
  <2>1. faults' \in 0..MaxFaults
        BY <1>9, <1>n DEF LoseConnection
  <2>. QED  BY <1>9, <2>1 DEF LoseConnection
<1>10. ASSUME NEW i \in late, LateAppend(i)
       PROVE  TypeOK'
  <2>1. log' \in Seq(Ids) /\ Len(log') = Len(log) + 1
        BY <1>10 DEF LateAppend
  <2>2. offset \in 0..Len(log')
        BY <1>n, <2>1
  <2>. QED  BY <1>10, <2>1, <2>2 DEF LateAppend
<1>11. CASE HandleMessage
  <2>1. log[offset + 1] \in Ids
        BY <1>11, <1>n DEF HandleMessage
  <2>2. Append(printed, log[offset + 1]) \in Seq(Ids)
        BY <2>1
  <2>3. Len(Append(printed, log[offset + 1])) = Len(printed) + 1
        BY <2>1
  <2>4. printed' \in Seq(Ids) /\ session \in 0..Len(printed')
        BY <1>11, <1>n, <2>2, <2>3 DEF HandleMessage
  <2>5. seen' \subseteq Ids
        BY <1>11, <2>1 DEF HandleMessage
  <2>. QED  BY <1>11, <2>4, <2>5 DEF HandleMessage
<1>12. CASE CommitOffset
  <2>1. offset' \in 0..Len(log)
        BY <1>12, <1>n DEF CommitOffset, OffsetBehindView
  <2>. QED  BY <1>12, <2>1 DEF CommitOffset
<1>13. CASE RestartConsumer
  <2>1. faults' \in 0..MaxFaults /\ Len(printed) \in 0..Len(printed)
        BY <1>13, <1>n DEF RestartConsumer
  <2>. QED  BY <1>13, <2>1 DEF RestartConsumer
<1>14. CASE UNCHANGED vars
       BY <1>14 DEF vars
<1>. QED
  BY <1>1, <1>2, <1>3, <1>4, <1>5, <1>6, <1>7, <1>8, <1>9, <1>10, <1>11, <1>12,
     <1>13, <1>14
  DEF Next, Work, Consume

\* Whoever takes a step, the table grows in order, the topic is appended to and
\* published_at is not taken back.
LEMMA EveryStepGrows ==
    ASSUME OutboxInv, [Next]_vars
    PROVE  IdsAreFresh' /\ Grows /\ LogGrows /\ published \subseteq published'
<1>t. TypeOK /\ IdsAreFresh
      BY DEF OutboxInv
<1>1. ASSUME NEW c \in Chains,
             AppendOutbox(c) \/ CommitTransaction(c) \/ AbortTransaction(c)
      PROVE  IdsAreFresh' /\ Grows /\ UNCHANGED <<log, published>>
  <2>1. UNCHANGED <<log, published>>
        BY <1>1 DEF AppendOutbox, CommitTransaction, AbortTransaction
  <2>. QED  BY <1>1, <1>t, <2>1, WritersKeepOrder
<1>2. ASSUME NEW d \in Dispatchers,
             Work(d) \/ PublishFails(d) \/ Crash(d) \/ LoseConnection(d)
      PROVE  UNCHANGED table /\ LogGrows /\ published \subseteq published'
  <2>1. CASE Acknowledged(d)
    <3>1. row[d] \in Ids
          BY <2>1, HeldRow DEF OutboxInv, Acknowledged
    <3>. QED  BY <2>1, <3>1 DEF Acknowledged, LogGrows
  <2>2. CASE ~Acknowledged(d)
        BY <1>2, <2>2
        DEF Work, SelectRows, LockRow, SkipRow, SelectEmpty, MarkPublished, MarkFails,
            RestartDispatcher, PublishFails, Crash, LoseConnection, LogGrows
  <2>. QED  BY <2>1, <2>2
<1>3. ASSUME NEW i \in late, LateAppend(i)
      PROVE  UNCHANGED table /\ LogGrows /\ published' = published
      BY <1>3, <1>t DEF LateAppend, LogGrows, TypeOK
<1>4. ASSUME UNCHANGED table PROVE IdsAreFresh' /\ Grows
      BY <1>4, <1>t, SameTable
<1>5. (Consume \/ RestartConsumer \/ UNCHANGED vars) => UNCHANGED <<table, published, log>>
      BY DEF Consume, HandleMessage, CommitOffset, RestartConsumer, vars
<1>. QED  BY <1>1, <1>2, <1>3, <1>4, <1>5 DEF Next, LogGrows

\* Rows committed or published meanwhile leave a scan closed.
LEMMA ScanStays ==
    ASSUME TypeOK, TypeOK', Grows, published \subseteq published',
           NEW d \in Dispatchers, ScanIsClosed(d), snap'[d] = snap[d]
    PROVE  ScanIsClosed(d)'
<1>1. ASSUME NEW i \in snap[d], NEW j \in committed', owner'[j] = owner'[i], j < i
      PROVE  j \in snap[d] \cup published'
  <2>1. i \in committed /\ i \in Nat /\ j \in Nat
        BY OutboxBoundsAssumption DEF ScanIsClosed, TypeOK, Ids
  <2>2. j \in committed
        BY <1>1, <2>1 DEF Grows
  <2>. QED  BY <1>1, <2>1, <2>2 DEF ScanIsClosed, Grows
<1>. QED  BY <1>1 DEF ScanIsClosed, Grows

\* A locked row, and one about to be marked, is held for as long as its dispatcher
\* publishes and marks it; the rows still to be visited stay closed downwards
\* (dispatch_once_inner).
LEMMA HoldingsStep ==
    ASSUME OutboxInv, [Next]_vars
    PROVE  HoldingsInOrder'
<1>g. IdsAreFresh' /\ Grows /\ LogGrows /\ published \subseteq published'
      BY EveryStepGrows
<1>t. TypeOK /\ TypeOK' /\ HoldingsInOrder /\ PublishedIsDelivered
      BY OutboxTypeStep DEF OutboxInv
<1>d. /\ \A i : Deliverable(i) => Deliverable(i)'
      /\ \A i : Delivered(i) => Delivered(i)'
      BY <1>g, <1>t, DeliverableStays, DeliveredStays
<1>. DEFINE Holds(e) == /\ dpc[e] = "locking" => ScanIsClosed(e)
                        /\ dpc[e] \in {"publishing", "marking"} => Deliverable(row[e])
                        /\ dpc[e] = "marking" => Delivered(row[e])
<1>1. ASSUME NEW e \in Dispatchers,
             dpc'[e] = dpc[e], row'[e] = row[e], snap'[e] = snap[e]
      PROVE  Holds(e)'
  <2>1. dpc[e] = "locking" => ScanIsClosed(e)'
        BY <1>1, <1>t, <1>g, ScanStays DEF HoldingsInOrder
  <2>2. Deliverable(row[e]) => Deliverable(row[e])'
        BY <1>1, <1>d DEF Deliverable, Delivered
  <2>3. Delivered(row[e]) => Delivered(row[e])'
        BY <1>1, <1>d DEF Delivered
  <2>. QED  BY <1>1, <1>t, <2>1, <2>2, <2>3 DEF HoldingsInOrder
<1>2. ASSUME NEW e \in Dispatchers, dpc'[e] \in {"idle", "stopped"}
      PROVE  Holds(e)'
      BY <1>2
<1>3. ASSUME NEW e \in Dispatchers, SelectRows(e)
      PROVE  Holds(e)'
      BY <1>3, <1>t DEF SelectRows, Unpublished, ScanIsClosed, TypeOK, table
<1>4. ASSUME NEW e \in Dispatchers, LockRow(e)
      PROVE  Holds(e)'
  <2>1. /\ Candidate(e) \in snap[e]
        /\ \A j \in snap[e] : Candidate(e) <= j
        BY <1>4, <1>t, CandidateIsLeast DEF LockRow, Visit
  <2>2. ScanIsClosed(e)
    <3>1. dpc[e] = "locking"
          BY <1>4 DEF LockRow, Visit
    <3>. QED  BY <1>t, <3>1 DEF HoldingsInOrder
  <2>3. Candidate(e) \in committed /\ committed \subseteq Nat
    <3>1. committed \subseteq Ids
          BY <1>t DEF TypeOK
    <3>2. Ids \subseteq Nat
          BY OutboxBoundsAssumption DEF Ids
    <3>. QED  BY <2>1, <2>2, <3>1, <3>2 DEF ScanIsClosed
  <2>4. \A j \in committed : owner[j] = owner[Candidate(e)] /\ j < Candidate(e) =>
            j \in published
    <3>. SUFFICES ASSUME NEW j \in committed, owner[j] = owner[Candidate(e)],
                         j < Candidate(e)
                  PROVE  j \in published
         OBVIOUS
    <3>1. j \in Nat /\ Candidate(e) \in Nat
          BY <2>3
    <3>2. j \notin snap[e]
          BY <2>1, <3>1
    <3>. QED  BY <2>1, <2>2, <3>2 DEF ScanIsClosed
  <2>5. Deliverable(Candidate(e))
        BY <1>t, <2>3, <2>4 DEF Deliverable, Delivered, PublishedIsDelivered
  <2>6. row'[e] = Candidate(e) /\ dpc'[e] = "publishing"
        BY <1>4, <1>t DEF LockRow, TypeOK
  <2>. QED  BY <1>d, <2>5, <2>6 DEF Deliverable, Delivered
<1>5. ASSUME NEW e \in Dispatchers, SkipRow(e)
      PROVE  Holds(e)'
  <2>1. ScanIsClosed(e) /\ dpc'[e] = "locking"
        BY <1>5, <1>t DEF SkipRow, Visit, HoldingsInOrder
  <2>2. snap'[e] = snap[e] \ {Candidate(e)} /\ Candidate(e) \in published
        BY <1>5, <1>t DEF SkipRow, Visit, TypeOK
  <2>3. UNCHANGED <<committed, owner, published>>
        BY <1>5 DEF SkipRow, table
  <2>. QED  BY <2>1, <2>2, <2>3 DEF ScanIsClosed
<1>6. ASSUME NEW e \in Dispatchers, Acknowledged(e)
      PROVE  Holds(e)'
  <2>1. row[e] \in Ids /\ Deliverable(row[e])
        BY <1>6, <1>t, HeldRow DEF Acknowledged, HoldingsInOrder
  <2>2. log' = Append(log, row[e]) /\ dpc'[e] = "marking" /\ row'[e] = row[e]
        BY <1>6, <1>t DEF Acknowledged, TypeOK
  <2>3. Len(log') = Len(log) + 1 /\ log'[Len(log) + 1] = row[e] /\ Len(log) \in Nat
        BY <1>t, <2>1, <2>2 DEF TypeOK
  <2>4. Delivered(row[e])'
        BY <2>2, <2>3 DEF Delivered
  <2>. QED  BY <1>d, <2>1, <2>2, <2>4 DEF Deliverable, Delivered
<1>7. ASSUME NEW d \in Dispatchers,
             Work(d) \/ PublishFails(d) \/ Crash(d) \/ LoseConnection(d),
             NEW e \in Dispatchers
      PROVE  Holds(e)'
  <2>1. CASE e # d \/ LoseConnection(d)
    <3>1. dpc'[e] = dpc[e] /\ row'[e] = row[e] /\ snap'[e] = snap[e]
          BY <1>7, <1>t, <2>1
          DEF Work, SelectRows, LockRow, SkipRow, Visit, SelectEmpty, Acknowledged,
              MarkPublished, MarkFails, Halt, RestartDispatcher, PublishFails, Crash,
              LoseConnection, TypeOK
    <3>. QED  BY <1>1, <3>1
  <2>2. CASE /\ e = d
             /\ \/ SelectEmpty(d) \/ MarkPublished(d) \/ MarkFails(d)
                \/ RestartDispatcher(d) \/ PublishFails(d) \/ Crash(d)
    <3>1. dpc'[e] \in {"idle", "stopped"}
          BY <1>t, <2>2 DEF SelectEmpty, MarkPublished, MarkFails, Halt, RestartDispatcher,
                PublishFails, Crash, TypeOK
    <3>. QED  BY <1>2, <3>1
  <2>. QED  BY <1>3, <1>4, <1>5, <1>6, <1>7, <2>1, <2>2 DEF Work
<1>8. ASSUME UNCHANGED dispatch, NEW e \in Dispatchers
      PROVE  Holds(e)'
      BY <1>1, <1>8 DEF dispatch
<1>9. \A e \in Dispatchers : Holds(e)'
      BY <1>7, <1>8
      DEF Next, AppendOutbox, CommitTransaction, AbortTransaction, LateAppend, Consume,
          HandleMessage, CommitOffset, RestartConsumer, vars
<1>. QED  BY <1>9 DEF HoldingsInOrder

\* What the producer gave up on was the row its dispatcher held.
LEMMA LateStep ==
    ASSUME OutboxInv, [Next]_vars
    PROVE  LateInOrder'
<1>t. TypeOK /\ HoldingsInOrder /\ LateInOrder
      BY DEF OutboxInv
<1>d. \A i : Deliverable(i) => Deliverable(i)'
      BY <1>t, EveryStepGrows, DeliverableStays
<1>1. ASSUME NEW i \in late'
      PROVE  i \in late \/ \E d \in Dispatchers : dpc[d] = "publishing" /\ i = row[d]
      BY <1>1
      DEF Next, Work, AppendOutbox, CommitTransaction, AbortTransaction, SelectRows,
          LockRow, SkipRow, SelectEmpty, Acknowledged, MarkPublished, MarkFails,
          RestartDispatcher, PublishFails, Crash, LoseConnection, LateAppend, Consume,
          HandleMessage, CommitOffset, RestartConsumer, vars
<1>2. \A i \in late' : Deliverable(i)
      BY <1>1, <1>t DEF LateInOrder, HoldingsInOrder
<1>. QED  BY <1>2, <1>d DEF LateInOrder

\* published_at is set by MarkPublished alone, on the row it has delivered.
LEMMA PublishedStep ==
    ASSUME OutboxInv, [Next]_vars
    PROVE  PublishedIsDelivered'
<1>t. TypeOK /\ HoldingsInOrder /\ PublishedIsDelivered
      BY DEF OutboxInv
<1>d. \A i : Delivered(i) => Delivered(i)'
      BY <1>t, EveryStepGrows, DeliveredStays
<1>1. ASSUME NEW i \in published'
      PROVE  i \in published \/ \E d \in Dispatchers : dpc[d] = "marking" /\ i = row[d]
      BY <1>1
      DEF Next, Work, AppendOutbox, CommitTransaction, AbortTransaction, SelectRows,
          LockRow, SkipRow, SelectEmpty, Acknowledged, MarkPublished, MarkFails,
          RestartDispatcher, PublishFails, Crash, LoseConnection, LateAppend, Consume,
          HandleMessage, CommitOffset, RestartConsumer, vars
<1>2. \A i \in published' : Delivered(i)
      BY <1>1, <1>t DEF PublishedIsDelivered, HoldingsInOrder, Delivered
<1>. QED  BY <1>2, <1>d DEF PublishedIsDelivered, Delivered

\* A sequence of committed events without a gap keeps having none while its chains
\* grow.
LEMMA NoGapStays ==
    ASSUME TypeOK, TypeOK', Grows, NEW s \in Seq(Ids),
           \A k \in 1..Len(s) : s[k] \in committed,
           NoGapPerChain(s)
    PROVE  /\ \A k \in 1..Len(s) : s[k] \in committed'
           /\ \A k \in 1..Len(s) : \A i \in committed' :
                  owner'[i] = owner'[s[k]] /\ i < s[k] => \E j \in 1..k - 1 : s[j] = i
<1>1. ASSUME NEW k \in 1..Len(s), NEW i \in committed',
             owner'[i] = owner'[s[k]], i < s[k]
      PROVE  \E j \in 1..k - 1 : s[j] = i
  <2>1. s[k] \in committed /\ s[k] \in Nat /\ i \in Nat
    <3>1. committed \subseteq Nat /\ committed' \subseteq Nat
      <4>1. Ids \subseteq Nat
            BY OutboxBoundsAssumption DEF Ids
      <4>2. committed \subseteq Ids /\ committed' \subseteq Ids
            BY DEF TypeOK
      <4>. QED  BY <4>1, <4>2
    <3>. QED  BY <3>1
  <2>2. i \in committed
        BY <1>1, <2>1 DEF Grows
  <2>3. owner[i] = owner[s[k]]
        BY <1>1, <2>1, <2>2 DEF Grows
  <2>. QED  BY <1>1, <2>2, <2>3 DEF NoGapPerChain
<1>. QED  BY <1>1 DEF Grows

\* A committed event appended behind all its predecessors leaves no gap.
LEMMA AppendNoGap ==
    ASSUME NEW s \in Seq(Ids), NEW x \in Ids, NoGapPerChain(s),
           \A i \in committed : owner[i] = owner[x] /\ i < x =>
               \E j \in 1..Len(s) : s[j] = i
    PROVE  NoGapPerChain(Append(s, x))
<1>1. /\ Len(s) \in Nat /\ Len(Append(s, x)) = Len(s) + 1
      /\ \A k \in 1..Len(s) : Append(s, x)[k] = s[k]
      /\ Append(s, x)[Len(s) + 1] = x
      OBVIOUS
<1>. DEFINE t == Append(s, x)
<1>. HIDE DEF t
<1>2. ASSUME NEW k \in 1..Len(t), NEW i \in committed, owner[i] = owner[t[k]], i < t[k]
      PROVE  \E j \in 1..k - 1 : t[j] = i
  <2>1. CASE k = Len(s) + 1
    <3>1. PICK j \in 1..Len(s) : s[j] = i
          BY <1>1, <1>2, <2>1 DEF t
    <3>2. t[j] = i /\ j \in 1..k - 1
          BY <1>1, <2>1, <3>1 DEF t
    <3>. QED  BY <3>2
  <2>2. CASE k \in 1..Len(s)
    <3>1. t[k] = s[k]
          BY <1>1, <2>2 DEF t
    <3>2. PICK j \in 1..k - 1 : s[j] = i
          BY <1>2, <2>2, <3>1 DEF NoGapPerChain
    <3>3. t[j] = i
          BY <1>1, <2>2, <3>2 DEF t
    <3>. QED  BY <3>2, <3>3
  <2>. QED  BY <1>1, <1>2, <2>1, <2>2 DEF t
<1>. QED  BY <1>2 DEF NoGapPerChain, t

\* What is appended to the topic is a held row or a late one.
LEMMA DeliveryStep ==
    ASSUME OutboxInv, [Next]_vars
    PROVE  DeliveredInChainOrder'
<1>t. TypeOK /\ TypeOK' /\ HoldingsInOrder /\ LateInOrder /\ DeliveredInChainOrder /\ Grows
      BY OutboxTypeStep, EveryStepGrows DEF OutboxInv
<1>1. CASE log' = log
  <2>1. log \in Seq(Ids) /\ NoGapPerChain(log) /\ \A k \in 1..Len(log) : log[k] \in committed
        BY <1>t DEF DeliveredInChainOrder, TypeOK
  <2>2. /\ \A k \in 1..Len(log) : log[k] \in committed'
        /\ \A k \in 1..Len(log) : \A i \in committed' :
               owner'[i] = owner'[log[k]] /\ i < log[k] => \E j \in 1..k - 1 : log[j] = i
        BY <1>t, <2>1, NoGapStays
  <2>. QED  BY <1>1, <2>2 DEF DeliveredInChainOrder, NoGapPerChain
<1>2. ASSUME NEW x, log' = Append(log, x), Deliverable(x), UNCHANGED table
      PROVE  DeliveredInChainOrder'
  <2>1. x \in Ids /\ x \in committed /\ log \in Seq(Ids)
        BY <1>t, <1>2 DEF Deliverable, TypeOK
  <2>2. NoGapPerChain(log')
        BY <1>t, <1>2, <2>1, AppendNoGap DEF DeliveredInChainOrder, Deliverable, Delivered
  <2>3. \A k \in 1..Len(log') : log'[k] \in committed
        BY <1>t, <1>2, <2>1 DEF DeliveredInChainOrder
  <2>. QED  BY <1>2, <2>2, <2>3 DEF DeliveredInChainOrder, NoGapPerChain, table
<1>3. \/ log' = log
      \/ /\ UNCHANGED table
         /\ \E d \in Dispatchers : dpc[d] = "publishing" /\ log' = Append(log, row[d])
      \/ /\ UNCHANGED table
         /\ \E i \in late : log' = Append(log, i)
      BY DEF Next, Work, AppendOutbox, CommitTransaction, AbortTransaction, SelectRows,
          LockRow, SkipRow, SelectEmpty, Acknowledged, MarkPublished, MarkFails,
          RestartDispatcher, PublishFails, Crash, LoseConnection, LateAppend, Consume,
          HandleMessage, CommitOffset, RestartConsumer, vars
<1>. QED  BY <1>1, <1>2, <1>3, <1>t DEF HoldingsInOrder, LateInOrder

\* Printing: what the consumer prints next has its predecessors printed, and it has
\* not been printed in this life (run_kafka_demo_consumer).
LEMMA HandledInOrder ==
    ASSUME OutboxInv, HandleMessage
    PROVE  OffsetBehindView' /\ ViewHasNoGap'
<1>. DEFINE x == log[offset + 1]
<1>t. TypeOK /\ DeliveredInChainOrder /\ OffsetBehindView /\ ViewHasNoGap
      BY DEF OutboxInv
<1>n. /\ Len(log) \in Nat /\ Len(printed) \in Nat /\ offset \in Nat /\ session \in Nat
      /\ offset + 1 \in 1..Len(log) /\ x \in Ids /\ x \in committed
      /\ printed \in Seq(Ids) /\ session <= Len(printed)
      BY <1>t DEF TypeOK, HandleMessage, DeliveredInChainOrder
<1>u. /\ UNCHANGED <<committed, owner, log, offset, session>>
      /\ handled' = TRUE /\ seen' = seen \cup {x} /\ ~handled
      /\ printed' = IF x \in seen THEN printed ELSE Append(printed, x)
      BY DEF HandleMessage, table
<1>. HIDE DEF x
<1>1. \A i \in committed : owner[i] = owner[x] /\ i < x => Printed(i)
  <2>1. ASSUME NEW i \in committed, owner[i] = owner[x], i < x
        PROVE  Printed(i)
    <3>1. PICK j \in 1..offset : log[j] = i
          BY <1>t, <1>n, <2>1 DEF DeliveredInChainOrder, NoGapPerChain, x
    <3>. QED  BY <1>t, <1>n, <3>1 DEF OffsetBehindView
  <2>. QED  BY <2>1
<1>2. CASE x \in seen
  <2>1. printed' = printed /\ seen' = seen
        BY <1>u, <1>2
  <2>2. Printed(x)
        BY <1>t, <1>2 DEF OffsetBehindView
  <2>3. OffsetBehindView'
        BY <1>t, <1>n, <1>u, <2>1, <2>2 DEF OffsetBehindView, Printed, x
  <2>. QED  BY <1>t, <1>u, <2>1, <2>3 DEF ViewHasNoGap, NoGapPerChain
<1>3. CASE x \notin seen
  <2>1. printed' = Append(printed, x)
        BY <1>u, <1>3
  <2>2. /\ Len(printed') = Len(printed) + 1 /\ printed'[Len(printed) + 1] = x
        /\ \A k \in 1..Len(printed) : printed'[k] = printed[k]
        BY <1>n, <2>1
  <2>3. \A i : Printed(i) \/ i = x => Printed(i)'
        BY <1>n, <2>2 DEF Printed
  <2>4. OffsetBehindView'
    <3>1. \A k \in 1..Len(printed') : printed'[k] \in committed'
          BY <1>t, <1>n, <1>u, <2>2 DEF OffsetBehindView
    <3>2. \A k \in 1..Len(log') : k <= offset' \/ (handled' /\ k = offset' + 1) =>
              Printed(log[k])'
          BY <1>t, <1>n, <1>u, <2>3 DEF OffsetBehindView, x
    <3>3. \A i \in seen' : Printed(i)'
          BY <1>t, <1>u, <2>3 DEF OffsetBehindView
    <3>4. \A k \in session' + 1..Len(printed') : printed'[k] \in seen'
          BY <1>t, <1>n, <1>u, <2>2 DEF OffsetBehindView
    <3>5. offset' < Len(log')
          BY <1>n, <1>u
    <3>. QED  BY <3>1, <3>2, <3>3, <3>4, <3>5 DEF OffsetBehindView
  <2>5. NoGapPerChain(printed')
        BY <1>t, <1>n, <1>1, <2>1, AppendNoGap DEF ViewHasNoGap, Printed
  <2>6. \A k, l \in session' + 1..Len(printed') : printed'[k] = printed'[l] => k = l
        BY <1>t, <1>n, <1>u, <1>3, <2>2 DEF ViewHasNoGap, OffsetBehindView
  <2>. QED  BY <1>u, <2>4, <2>5, <2>6 DEF ViewHasNoGap, NoGapPerChain
<1>. QED  BY <1>2, <1>3

\* The table and the topic grow behind the consumer; its offset follows what it has
\* handled, and a restart forgets only what `seen` holds.
LEMMA ViewStep ==
    ASSUME OutboxInv, [Next]_vars
    PROVE  OffsetBehindView' /\ ViewHasNoGap'
<1>t. /\ TypeOK /\ TypeOK' /\ OffsetBehindView /\ ViewHasNoGap /\ DeliveredInChainOrder
      /\ Grows /\ LogGrows
      BY OutboxTypeStep, EveryStepGrows DEF OutboxInv
<1>n. /\ Len(log) \in Nat /\ Len(log') \in Nat /\ Len(printed) \in Nat
      /\ offset \in Nat /\ session \in Nat /\ offset <= Len(log)
      /\ Len(log) <= Len(log') /\ \A k \in 1..Len(log) : log'[k] = log[k]
      BY <1>t, DeliveredStays DEF TypeOK
<1>1. ASSUME printed' = printed
      PROVE  /\ \A k \in 1..Len(printed) : printed[k] \in committed'
             /\ NoGapPerChain(printed)'
  <2>1. /\ printed \in Seq(Ids) /\ NoGapPerChain(printed)
        /\ \A k \in 1..Len(printed) : printed[k] \in committed
        BY <1>t DEF TypeOK, ViewHasNoGap, OffsetBehindView
  <2>2. /\ \A k \in 1..Len(printed) : printed[k] \in committed'
        /\ \A k \in 1..Len(printed) : \A i \in committed' :
               owner'[i] = owner'[printed[k]] /\ i < printed[k] =>
                   \E j \in 1..k - 1 : printed[j] = i
        BY <1>t, <2>1, NoGapStays
  <2>. QED  BY <1>1, <2>2 DEF NoGapPerChain
<1>2. CASE UNCHANGED consumer
  <2>1. OffsetBehindView'
    <3>1. \A k \in 1..Len(log') : k <= offset \/ (handled /\ k = offset + 1) =>
              k \in 1..Len(log)
          BY <1>t, <1>n DEF OffsetBehindView
    <3>. QED  BY <1>1, <1>2, <1>t, <1>n, <3>1 DEF OffsetBehindView, Printed, consumer
  <2>. QED  BY <1>1, <1>2, <1>t, <2>1 DEF ViewHasNoGap, consumer
<1>3. CASE HandleMessage
      BY <1>3, HandledInOrder
<1>4. CASE CommitOffset
  <2>1. OffsetBehindView'
        BY <1>1, <1>4, <1>t, <1>n DEF CommitOffset, OffsetBehindView, Printed, table
  <2>. QED  BY <1>1, <1>4, <1>t, <2>1 DEF CommitOffset, ViewHasNoGap
<1>5. CASE RestartConsumer
  <2>1. OffsetBehindView'
        BY <1>1, <1>5, <1>t, <1>n DEF RestartConsumer, OffsetBehindView, Printed, table
  <2>. QED  BY <1>1, <1>5, <1>t, <1>n, <2>1 DEF RestartConsumer, ViewHasNoGap
<1>6. UNCHANGED consumer \/ HandleMessage \/ CommitOffset \/ RestartConsumer
      BY DEF Next, Work, AppendOutbox, CommitTransaction, AbortTransaction, SelectRows,
          LockRow, SkipRow, SelectEmpty, Acknowledged, MarkPublished, MarkFails,
          RestartDispatcher, PublishFails, Crash, LoseConnection, LateAppend, Consume,
          vars
<1>. QED  BY <1>2, <1>3, <1>4, <1>5, <1>6

\* No execution leaves the inductive invariant.
LEMMA OutboxSafe == Spec => []OutboxInv
<1>1. OutboxInv /\ [Next]_vars => OutboxInv'
      BY OutboxTypeStep, EveryStepGrows, HoldingsStep, LateStep, PublishedStep,
         DeliveryStep, ViewStep
      DEF OutboxInv
<1>. QED  BY <1>1, OutboxInit, PTL DEF Spec
-----------------------------------------------------------------------------
(* What delivery promises. *)

\* Every variable keeps its type; published rows are committed ones.
THEOREM OutboxTypeCorrect == Spec => []TypeOK
BY OutboxSafe, PTL DEF OutboxInv

\* A row is marked only after the broker has it, however publishes, connections and
\* processes fail in between (dispatch_once_inner).
THEOREM MarkedIsDelivered == Spec => []PublishedIsDelivered
BY OutboxSafe, PTL DEF OutboxInv

\* Per chain the topic is a prefix of the outbox in the order of first delivery, for
\* any number of dispatchers at once, broken locks and late messages included
\* (dispatch_once_inner).
THEOREM TopicInChainOrder == Spec => []DeliveredInChainOrder
BY OutboxSafe, PTL DEF OutboxInv

\* What the consumer prints over all its lives has no gap in a chain, and no event
\* twice in one life (run_kafka_demo_consumer).
THEOREM ViewInChainOrder == Spec => []ViewHasNoGap
BY OutboxSafe, PTL DEF OutboxInv
=============================================================================
