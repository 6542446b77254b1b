----------------------- MODULE SerializedWriterProofs -----------------------
(***************************************************************************)
(* For every set of batches, every capacity and every number of batches,   *)
(* the serialized writer implements BatchJournal.  The inductive invariant *)
(* is TypeOK and NothingSkipped.                                           *)
(***************************************************************************)
EXTENDS SerializedWriter, SequenceTheorems, TLAPS

-----------------------------------------------------------------------------
(* Facts about sequences. *)

\* Appending to the queue appends to what was accepted.
LEMMA AppendToOwed ==
    ASSUME NEW e \in Batch
    PROVE  \A p, o \in Seq(Batch) : Append(p \o o, e) = p \o Append(o, e)
<1>. TAKE p, o \in Seq(Batch)
<1>1. /\ p \o o \in Seq(Batch)
      /\ <<e>> \in Seq(Batch)
      BY ConcatProperties
<1>2. Append(p \o o, e) = (p \o o) \o <<e>>
      BY <1>1, AppendIsConcat
<1>3. (p \o o) \o <<e>> = p \o (o \o <<e>>)
      BY <1>1, ConcatAssociative
<1>4. o \o <<e>> = Append(o, e)
      BY AppendIsConcat
<1>. QED  BY <1>2, <1>3, <1>4

\* What is in hand, one batch or none, is a sequence.
LEMMA InHandIsSeq ==
    ASSUME NEW S, NEW e \in S
    PROVE  <<e>> \in Seq(S) /\ <<>> \in Seq(S)
BY EmptySeq

\* Taking the head of the queue in hand owes the same.
LEMMA HeadInHand ==
    ASSUME NEW S, NEW q \in Seq(S), q # <<>>
    PROVE  /\ Head(q) \in S
           /\ Tail(q) \in Seq(S)
           /\ Len(Tail(q)) = Len(q) - 1
           /\ <<Head(q)>> \o Tail(q) = q
<1>1. /\ Head(q) \in S /\ Tail(q) \in Seq(S) /\ Len(Tail(q)) = Len(q) - 1
      /\ \A i \in 1..Len(Tail(q)) : Tail(q)[i] = q[i + 1]
      BY HeadTailProperties
<1>2. <<Head(q)>> \in Seq(S) /\ Len(<<Head(q)>>) = 1 /\ <<Head(q)>>[1] = q[1]
      BY <1>1
<1>3. /\ <<Head(q)>> \o Tail(q) \in Seq(S)
      /\ Len(<<Head(q)>> \o Tail(q)) = Len(q)
      /\ \A i \in 1..Len(q) : (<<Head(q)>> \o Tail(q))[i] =
                                  IF i <= 1 THEN q[1] ELSE Tail(q)[i - 1]
      BY <1>1, <1>2, ConcatProperties
<1>4. \A i \in 1..Len(q) : (<<Head(q)>> \o Tail(q))[i] = q[i]
      BY <1>1, <1>3
<1>. QED  BY <1>1, <1>3, <1>4, SeqEqual

\* A batch applied moves from the front of what is owed to the end of what is done.
LEMMA AppliedInHand ==
    ASSUME NEW S, NEW p \in Seq(S), NEW q \in Seq(S), NEW e \in S
    PROVE  /\ Append(p, e) \in Seq(S)
           /\ Append(p, e) \o q = p \o (<<e>> \o q)
<1>1. <<e>> \in Seq(S)
      OBVIOUS
<1>2. Append(p, e) = p \o <<e>>
      BY AppendIsConcat
<1>3. (p \o <<e>>) \o q = p \o (<<e>> \o q)
      BY <1>1, ConcatAssociative
<1>. QED  BY <1>2, <1>3, AppendProperties

\* The batch in hand is the next one accepted.
LEMMA InHandIsNext ==
    ASSUME NEW S, NEW p \in Seq(S), NEW q \in Seq(S), NEW e \in S
    PROVE  /\ (p \o (<<e>> \o q))[Len(p) + 1] = e
           /\ Len(p) < Len(p \o (<<e>> \o q))
<1>1. /\ <<e>> \in Seq(S) /\ Len(<<e>>) = 1 /\ <<e>>[1] = e
      /\ Len(p) \in Nat /\ Len(q) \in Nat
      OBVIOUS
<1>2. /\ <<e>> \o q \in Seq(S)
      /\ Len(<<e>> \o q) = 1 + Len(q)
      /\ (<<e>> \o q)[1] = e
      BY <1>1, ConcatProperties
<1>3. /\ Len(p \o (<<e>> \o q)) = Len(p) + (1 + Len(q))
      /\ (p \o (<<e>> \o q))[Len(p) + 1] = (<<e>> \o q)[1]
      BY <1>1, <1>2, ConcatProperties
<1>. QED  BY <1>1, <1>2, <1>3

\* What has been applied is a beginning of the whole.
LEMMA AppliedIsPrefix ==
    ASSUME NEW S, NEW p \in Seq(S), NEW o \in Seq(S)
    PROVE  /\ Len(p) <= Len(p \o o)
           /\ p = SubSeq(p \o o, 1, Len(p))
<1>1. /\ p \o o \in Seq(S)
      /\ Len(p \o o) = Len(p) + Len(o)
      /\ \A i \in 1..Len(p) : (p \o o)[i] = p[i]
      /\ Len(p) \in Nat /\ Len(o) \in Nat
      BY ConcatProperties
<1>2. \A i \in 1..Len(p) : (p \o o)[i] \in S
      BY <1>1
<1>3. /\ SubSeq(p \o o, 1, Len(p)) \in Seq(S)
      /\ Len(SubSeq(p \o o, 1, Len(p))) = Len(p)
      /\ \A i \in 1..Len(p) : SubSeq(p \o o, 1, Len(p))[i] = (p \o o)[i]
      BY <1>1, <1>2, SubSeqProperties
<1>. QED  BY <1>1, <1>3, SeqEqual
-----------------------------------------------------------------------------
(* The inductive invariant. *)

IInv == TypeOK /\ NothingSkipped

LEMMA InitIInv ==
    ASSUME Init PROVE IInv
<1>0. /\ <<>> \in Seq(Batch) /\ Len(<<>>) = 0
      /\ Capacity \in Nat
      BY EmptySeq, WriterAssumption
<1>1. TypeOK
  <2>1. queue \in Seq(Batch) /\ accepted \in Seq(Batch) /\ applied \in Seq(Batch)
        BY <1>0, Zenon DEF Init
  <2>2. Len(queue) <= Capacity
        BY <1>0 DEF Init
  <2>. QED  BY <2>1, <2>2 DEF Init, TypeOK
<1>2. NothingSkipped
      BY <1>0, ConcatEmptySeq DEF Init, NothingSkipped, Owed, Applying
<1>. QED  BY <1>1, <1>2 DEF IInv

LEMMA SendIInv ==
    ASSUME IInv, NEW b \in Batch, Send(b)
    PROVE  IInv'
<1>. USE DEF IInv
<1> DEFINE hand == IF Applying THEN <<batch>> ELSE <<>>
<1>0. hand \in Seq(Batch)
      BY InHandIsSeq DEF TypeOK
<1>1. Owed \in Seq(Batch) /\ queue \in Seq(Batch)
      BY <1>0, ConcatProperties DEF TypeOK, Owed
<1>2. TypeOK'
  <2>1. queue' \in Seq(Batch) /\ Len(queue') = Len(queue) + 1 /\ accepted' \in Seq(Batch)
        BY AppendProperties DEF TypeOK, Send
  <2>2. Len(queue') <= Capacity
        BY <2>1, <1>1, LenProperties, WriterAssumption DEF Send
  <2>. QED  BY <2>1, <2>2 DEF TypeOK, Send
<1>3. loop \notin {"drain", "draining", "done"} /\ ~failed
      BY DEF NothingSkipped, TypeOK, Send
<1>4. accepted = applied \o Owed
      BY <1>3 DEF NothingSkipped
<1>5. \A h, q \in Seq(Batch) : Append(h \o q, b) = h \o Append(q, b)
      BY AppendToOwed, Zenon
<1>6. Owed' = Append(Owed, b)
  <2>1. Owed' = hand \o Append(queue, b) /\ Owed = hand \o queue
        BY DEF Owed, Applying, Send
  <2>. QED  BY <1>0, <1>1, <2>1, <1>5, Zenon
<1>7. Append(applied \o Owed, b) = applied \o Append(Owed, b)
  <2>1. applied \in Seq(Batch)
        BY DEF TypeOK
  <2>. QED  BY <2>1, <1>1, <1>5, Zenon
<1>8. accepted' = applied' \o Owed'
      BY <1>4, <1>6, <1>7 DEF Send
<1>9. NothingSkipped'
      BY <1>3, <1>8 DEF NothingSkipped, Send
<1>. QED  BY <1>2, <1>9

\* A step of a caller that only moves the handle or the clone.
LEMMA HandleIInv ==
    ASSUME IInv,
           UNCHANGED <<queue, closed, loop, batch, failed, accepted, applied>>,
           cancelled' \in BOOLEAN, clone' \in BOOLEAN,
           handle' \in {"held", "dropped", "waiting", "ok", "timeout"}
    PROVE  IInv'
BY DEF IInv, TypeOK, NothingSkipped, Owed, Applying

LEMMA TakeIInv ==
    ASSUME IInv, NEW next \in {"applying", "draining"}, Take(next),
           loop = IF next = "applying" THEN "select" ELSE "drain"
    PROVE  IInv'
<1>. USE DEF IInv
<1>1. /\ queue \in Seq(Batch) /\ queue # <<>>
      /\ Head(queue) \in Batch
      /\ Tail(queue) \in Seq(Batch)
      /\ Len(Tail(queue)) = Len(queue) - 1
      /\ <<Head(queue)>> \o Tail(queue) = queue
      BY HeadInHand DEF TypeOK, Take
<1>2. TypeOK'
      BY <1>1, WriterAssumption DEF TypeOK, Take
<1>3. ~failed
      BY DEF NothingSkipped
<1>4. <<>> \o queue = queue
      BY <1>1, ConcatEmptySeq
<1>5. Owed = queue /\ Owed' = queue
      BY <1>1, <1>4 DEF Owed, Applying, Take
<1>6. accepted' = applied' \o Owed'
      BY <1>3, <1>5 DEF NothingSkipped, Take
<1>7. NothingSkipped'
      BY <1>3, <1>6 DEF NothingSkipped, Take
<1>. QED  BY <1>2, <1>7

\* The loop moves on with an empty queue or closes the channel.
LEMMA LoopIInv ==
    ASSUME IInv, RecvNone \/ SeeCancelled \/ DrainDone
    PROVE  IInv'
<1>. USE DEF IInv
<1>1. TypeOK'
      BY DEF TypeOK, RecvNone, SeeCancelled, DrainDone
<1>2. ~failed /\ ~failed'
      BY DEF NothingSkipped, RecvNone, SeeCancelled, DrainDone
<1>3. Owed' = Owed
      BY DEF Owed, Applying, RecvNone, SeeCancelled, DrainDone
<1>4. accepted' = applied' \o Owed'
      BY <1>2, <1>3 DEF NothingSkipped, RecvNone, SeeCancelled, DrainDone
<1>5. NothingSkipped'
      BY <1>2, <1>4 DEF NothingSkipped, RecvNone, SeeCancelled, DrainDone
<1>. QED  BY <1>1, <1>5

LEMMA ApplyOkIInv ==
    ASSUME IInv, ApplyOk
    PROVE  IInv'
<1>. USE DEF IInv
<1>1. TypeOK'
  <2>1. applied' \in Seq(Batch)
        BY AppendProperties DEF TypeOK, ApplyOk
  <2>2. loop' \in {"select", "drain"}
        BY DEF ApplyOk
  <2>. QED  BY <2>1, <2>2 DEF TypeOK, ApplyOk
<1>2. ~failed /\ ~failed'
      BY DEF NothingSkipped, ApplyOk, Applying
<1>3. accepted = applied \o (<<batch>> \o queue)
      BY <1>2 DEF NothingSkipped, Owed, ApplyOk
<1>4. Owed' = queue
      BY ConcatEmptySeq DEF Owed, Applying, ApplyOk, TypeOK
<1>5. accepted' = applied' \o Owed'
  <2>1. applied \in Seq(Batch) /\ queue \in Seq(Batch) /\ batch \in Batch
        BY DEF TypeOK
  <2>2. accepted = Append(applied, batch) \o queue
        BY <1>3, <2>1, AppliedInHand
  <2>. QED  BY <1>4, <2>2 DEF ApplyOk
<1>6. NothingSkipped'
      BY <1>2, <1>5 DEF NothingSkipped, ApplyOk, Applying
<1>. QED  BY <1>1, <1>6

LEMMA ApplyFailsIInv ==
    ASSUME IInv, ApplyFails
    PROVE  IInv'
<1>. USE DEF IInv
<1>1. TypeOK'
  <2>1. /\ applied' \in Seq(Batch)
        /\ queue' \in Seq(Batch) /\ Len(queue') = 0
    <3>1. Append(applied, batch) \in Seq(Batch) /\ applied \in Seq(Batch)
          BY AppendProperties DEF TypeOK
    <3>2. <<>> \in Seq(Batch) /\ Len(<<>>) = 0
          BY EmptySeq
    <3>. QED  BY <3>1, <3>2, Zenon DEF ApplyFails
  <2>2. Len(queue') <= Capacity
        BY <2>1, WriterAssumption
  <2>. QED  BY <2>1, <2>2 DEF TypeOK, ApplyFails
<1>2. accepted = applied \o (<<batch>> \o queue)
      BY DEF NothingSkipped, Owed, ApplyFails, Applying
<1>3. /\ applied \in Seq(Batch) /\ queue \in Seq(Batch)
      /\ <<batch>> \o queue \in Seq(Batch)
      /\ Append(applied, batch) \in Seq(Batch)
  <2>1. <<batch>> \in Seq(Batch)
        BY InHandIsSeq DEF TypeOK
  <2>2. applied \in Seq(Batch) /\ queue \in Seq(Batch) /\ batch \in Batch
        BY DEF TypeOK
  <2>3. <<batch>> \o queue \in Seq(Batch)
        BY <2>1, <2>2, ConcatProperties
  <2>4. Append(applied, batch) \in Seq(Batch)
        BY <2>2, AppendProperties
  <2>. QED  BY <2>2, <2>3, <2>4
<1>4. accepted = Append(applied, batch) \o queue
  <2>1. batch \in Batch
        BY DEF TypeOK
  <2>. QED  BY <1>2, <1>3, <2>1, AppliedInHand
<1>5. /\ Len(applied') <= Len(accepted)
      /\ applied' = SubSeq(accepted, 1, Len(applied'))
  <2>1. CASE applied' = applied
        BY <2>1, <1>2, <1>3, AppliedIsPrefix
  <2>2. CASE applied' = Append(applied, batch)
    <3>1. /\ Len(Append(applied, batch)) <= Len(Append(applied, batch) \o queue)
          /\ Append(applied, batch) =
                SubSeq(Append(applied, batch) \o queue, 1, Len(Append(applied, batch)))
          BY <1>3, AppliedIsPrefix
    <3>. QED  BY <2>2, <3>1, <1>4
  <2>. QED  BY <2>1, <2>2 DEF ApplyFails
<1>6. NothingSkipped'
      BY <1>5 DEF NothingSkipped, ApplyFails
<1>. QED  BY <1>1, <1>6

LEMMA NextIInv ==
    ASSUME IInv, [Next]_vars
    PROVE  IInv'
<1>1. ASSUME NEW b \in Batch, Submit(b) \/ SendThroughClone(b) PROVE IInv'
      BY <1>1, SendIInv DEF Submit, SendThroughClone
<1>2. CASE DropClone \/ DropHandle \/ Shutdown \/ ShutdownReturns
      BY <1>2, HandleIInv
      DEF IInv, TypeOK, DropClone, DropHandle, Shutdown, ShutdownReturns
<1>3. CASE Recv \/ DrainRecv
      BY <1>3, TakeIInv DEF Recv, DrainRecv
<1>4. CASE RecvNone \/ SeeCancelled \/ DrainDone
      BY <1>4, LoopIInv
<1>5. CASE ApplyOk
      BY <1>5, ApplyOkIInv
<1>6. CASE ApplyFails
      BY <1>6, ApplyFailsIInv
<1>7. CASE UNCHANGED vars
      BY <1>7 DEF vars, IInv, TypeOK, NothingSkipped, Owed, Applying
<1>. QED  BY <1>1, <1>2, <1>3, <1>4, <1>5, <1>6, <1>7 DEF Next, Callers, WriterLoop

\* The variables of the serialized writer keep their types, and the channel never
\* holds more batches than its capacity.
THEOREM TypeCorrect == Spec => []TypeOK
<1>1. Init => IInv
      BY InitIInv
<1>2. IInv /\ [Next]_vars => IInv'
      BY NextIInv
<1>3. IInv => TypeOK
      BY DEF IInv
<1>. QED  BY <1>1, <1>2, <1>3, PTL DEF Spec

\* No accepted batch is lost or overtaken between the channel and apply_batch.
THEOREM NothingIsSkipped == Spec => []NothingSkipped
<1>1. Init => IInv
      BY InitIInv
<1>2. IInv /\ [Next]_vars => IInv'
      BY NextIInv
<1>3. IInv => NothingSkipped
      BY DEF IInv
<1>. QED  BY <1>1, <1>2, <1>3, PTL DEF Spec
-----------------------------------------------------------------------------
(* The refinement: every step is a step of the journal or leaves it alone. *)

\* A step that leaves the journal as it is.
LEMMA JournalStutters ==
    ASSUME UNCHANGED <<accepted, applied, failed>>,
           (loop = "done") <=> (loop' = "done")
    PROVE  UNCHANGED Journal!journalVars
BY DEF Journal!journalVars, Outcome

LEMMA SendAccepts ==
    ASSUME IInv, NEW b \in Batch, Send(b)
    PROVE  Journal!Next
<1>1. loop # "done"
      BY DEF IInv, NothingSkipped, Send
<1>2. Journal!Accept(b)
      BY <1>1 DEF Journal!Accept, Send, Outcome
<1>. QED  BY <1>2 DEF Journal!Next

\* The loop ends without an error only with everything applied.
LEMMA DoneDrains ==
    ASSUME IInv, RecvNone \/ DrainDone
    PROVE  Journal!Next
<1>1. /\ ~failed /\ loop # "done" /\ loop' = "done" /\ queue = <<>>
      /\ ~Applying
      /\ UNCHANGED <<accepted, applied, failed>>
      BY DEF IInv, NothingSkipped, RecvNone, DrainDone, Applying
<1>2. applied \in Seq(Batch) /\ <<>> \o <<>> = <<>> /\ applied \o <<>> = applied
      BY ConcatEmptySeq, EmptySeq DEF IInv, TypeOK
<1>3. Owed = <<>>
      BY <1>1, <1>2 DEF Owed
<1>4. applied = accepted
      BY <1>1, <1>2, <1>3 DEF IInv, NothingSkipped
<1>5. Journal!Drained
      BY <1>1, <1>4 DEF Journal!Drained, Outcome
<1>. QED  BY <1>5 DEF Journal!Next

\* The batch in hand is the one the journal applies next.
LEMMA InHandIsJournalNext ==
    ASSUME IInv, Applying
    PROVE  /\ ~failed /\ loop # "done"
           /\ Len(applied) < Len(accepted)
           /\ accepted[Len(applied) + 1] = batch
<1>1. ~failed /\ loop # "done"
      BY DEF IInv, NothingSkipped, Applying
<1>2. accepted = applied \o (<<batch>> \o queue)
      BY <1>1 DEF IInv, NothingSkipped, Owed
<1>. QED  BY <1>1, <1>2, InHandIsNext DEF IInv, TypeOK

LEMMA ApplyOkApplies ==
    ASSUME IInv, ApplyOk
    PROVE  Journal!Next
<1>1. Applying
      BY DEF ApplyOk
<1>2. Journal!HasNext /\ Journal!WithNext = Append(applied, batch)
      BY <1>1, InHandIsJournalNext DEF Journal!HasNext, Journal!WithNext, Outcome
<1>3. loop # "done" /\ loop' # "done"
      BY <1>1, InHandIsJournalNext DEF ApplyOk
<1>4. Journal!ApplyNext
      BY <1>2, <1>3 DEF Journal!ApplyNext, ApplyOk, Outcome
<1>. QED  BY <1>4 DEF Journal!Next

LEMMA ApplyFailsFails ==
    ASSUME IInv, ApplyFails
    PROVE  Journal!Next
<1>1. Applying
      BY DEF ApplyFails
<1>2. Journal!HasNext /\ Journal!WithNext = Append(applied, batch)
      BY <1>1, InHandIsJournalNext DEF Journal!HasNext, Journal!WithNext, Outcome
<1>3. Journal!Failed
      BY <1>2 DEF Journal!Failed, ApplyFails, Outcome
<1>. QED  BY <1>3 DEF Journal!Next

LEMMA StepRefines ==
    ASSUME IInv, [Next]_vars
    PROVE  [Journal!Next]_(Journal!journalVars)
<1>1. ASSUME NEW b \in Batch, Submit(b) \/ SendThroughClone(b)
      PROVE  Journal!Next
      BY <1>1, SendAccepts DEF Submit, SendThroughClone
<1>2. CASE DropClone \/ DropHandle \/ Shutdown \/ ShutdownReturns
      BY <1>2, JournalStutters DEF DropClone, DropHandle, Shutdown, ShutdownReturns
<1>3. CASE Recv \/ DrainRecv
      BY <1>3, JournalStutters DEF Recv, DrainRecv, Take
<1>4. CASE SeeCancelled
      BY <1>4, JournalStutters DEF SeeCancelled
<1>5. CASE RecvNone \/ DrainDone
      BY <1>5, DoneDrains
<1>6. CASE ApplyOk
      BY <1>6, ApplyOkApplies
<1>7. CASE ApplyFails
      BY <1>7, ApplyFailsFails
<1>8. CASE UNCHANGED vars
      BY <1>8, JournalStutters DEF vars
<1>. QED  BY <1>1, <1>2, <1>3, <1>4, <1>5, <1>6, <1>7, <1>8
          DEF Next, Callers, WriterLoop

\* The channel, the select between cancellation and recv, the drain, the clone and
\* the ways to end implement the journal, for every capacity: every accepted batch
\* is applied once and in order until one fails, and the loop ends without an
\* error only when nothing accepted is left.
THEOREM Refinement == Spec => ImplementsBatchJournal
<1>1. Init => IInv
      BY InitIInv
<1>2. IInv /\ [Next]_vars => IInv'
      BY NextIInv
<1>3. Init => Journal!Init
      BY DEF Init, Journal!Init, Outcome
<1>4. IInv /\ [Next]_vars => [Journal!Next]_(Journal!journalVars)
      BY StepRefines
<1>. QED  BY <1>1, <1>2, <1>3, <1>4, PTL DEF Spec, Journal!Spec, ImplementsBatchJournal
=============================================================================
