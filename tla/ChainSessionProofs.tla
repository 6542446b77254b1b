------------------------- MODULE ChainSessionProofs -------------------------
(***************************************************************************)
(* Proofs about ChainState, its caller and the startup reconciliation, for *)
(* every block tree, every answer of the source and any number of deaths:  *)
(* a returned batch is a path, the writer never has to refuse it, the tip  *)
(* in memory and the durable rows agree, nothing finalized is rolled back, *)
(* and a reconciliation replaces the top of the stored chain only; taken   *)
(* together, the rows are a ledger.                                        *)
(***************************************************************************)
EXTENDS StartupReconciliation, ChainStateProofs, FiniteSetTheorems, WellFoundedInduction, TLAPS

\* The types the argument needs, beside those of ChainState.
Shape ==
    /\ ChainShape
    /\ before \in Blocks \cup {None} /\ stale \in BOOLEAN
    /\ stage \in {"up", "down", "ancestor", "blocks", "reconciled"}
    /\ goal \in Nat /\ at \in Nat /\ walked \in 0..MaxWalkBack
    /\ common \in Blocks \cup {None} /\ fetched \in Seq(Blocks)

\* Between calls the memory is that of the rows.
MemoryFollows ==
    phase # "returned" =>
        /\ tip = None => canonical = {} /\ known = {}
        /\ tip # None =>
               /\ known \subseteq canonical
               /\ IF stale THEN tip \notin canonical ELSE IsTop(tip, canonical)

SessionOnRows ==
    /\ phase # "idle" => ~stale
    /\ phase \in {"ancestor", "rollback"} => before = tip
    /\ MemoryFollows /\ RollbackOnRows /\ BatchOnRows(before)

\* Without a process there is no ChainState.
NothingKept ==
    /\ tip = None /\ known = {} /\ finalized = 0
    /\ phase = "idle" /\ stale = FALSE

\* Rows at or below the head that was read lie at most `walked` above a height.
WalkedFrom(n) == \A b \in canonical : Height[b] <= goal => Height[b] <= n + walked

Base == IF common = None THEN 0 ELSE Height[common] + 1

\* What was fetched follows the common block, one height after the other.
FetchedFollows ==
    /\ at = Base + Len(fetched) /\ at <= goal + 1
    /\ \A i \in 1..Len(fetched) : Height[fetched[i]] = Base + i - 1
    /\ \A i \in 1..Len(fetched) - 1 : Parent[fetched[i + 1]] = fetched[i]
    /\ fetched # <<>> /\ common # None => Parent[fetched[1]] = common

ReconcileInOrder ==
    /\ stage \notin {"ancestor", "blocks"} =>
           walked = 0 /\ common = None /\ fetched = <<>>
    /\ stage = "ancestor" =>
           /\ canonical # {} /\ at <= goal /\ WalkedFrom(at)
           /\ common = None /\ fetched = <<>>
    /\ stage = "blocks" =>
           /\ common = None <=> canonical = {}
           /\ common # None => common \in canonical /\ WalkedFrom(Height[common])
           /\ FetchedFollows
    /\ stage = "reconciled" => canonical # {}

StartupInv ==
    /\ Shape /\ WalkInOrder /\ ReturnedBatchIsPath
    /\ RowsAreChain
    /\ IF stage = "up" THEN SessionOnRows ELSE NothingKept
    /\ ReconcileInOrder
-----------------------------------------------------------------------------
(* A step of the session. *)

\* What a session keeps true, with the durable rows.
SessionInv ==
    /\ Shape /\ WalkInOrder /\ ReturnedBatchIsPath /\ RowsAreChain /\ SessionOnRows

\* A session between two calls, or in one, is a call as ChainStateProofs has it.
LEMMA SessionCall ==
    ASSUME SessionInv, ~stale, NEW old, old = IF phase = "idle" THEN tip ELSE before
    PROVE  CallInv(old)
<1>1. ChainShape /\ WalkInOrder /\ RowsAreChain /\ RollbackOnRows
      BY DEF SessionInv, Shape, ChainShape, SessionOnRows
<1>2. BatchIsPath(old) /\ BatchOnRows(old) /\ MemoryOnRows(old)
      BY DEF SessionInv, Shape, ChainShape, SessionOnRows, MemoryFollows, ReturnedBatchIsPath,
             BatchIsPath, BatchOnRows, MemoryOnRows
<1>. QED  BY <1>1, <1>2 DEF CallInv

LEMMA CallSession ==
    ASSUME SessionInv, NEW old, CallInv(old)', before' = old, ~stale, UNCHANGED <<stale, startup>>
    PROVE  SessionInv'
<1>1. Shape' /\ WalkInOrder' /\ RowsAreChain'
  <2>1. ChainShape' /\ WalkInOrder' /\ RowsAreChain'
        BY DEF CallInv
  <2>2. old \in Blocks \cup {None}
        BY NoneAssumption DEF CallInv, ChainShape, MemoryOnRows, BatchOnRows, IsTop
  <2>. QED  BY <2>1, <2>2 DEF SessionInv, Shape, ChainShape, startup
<1>2. ReturnedBatchIsPath' /\ BatchOnRows(before)'
      BY DEF CallInv, ReturnedBatchIsPath, BatchIsPath, BatchOnRows
<1>3. MemoryFollows' /\ RollbackOnRows' /\ (phase' # "returned" => before' = tip')
      BY DEF CallInv, MemoryOnRows, MemoryFollows
<1>. QED  BY <1>1, <1>2, <1>3 DEF SessionInv, SessionOnRows

\* A set height changes nothing else.
LEMMA FinalizedSet ==
    ASSUME SessionInv, NEW f \in FinalizedHeights, SetFinalizedHeight(f), UNCHANGED startup
    PROVE  SessionInv'
<1>1. Shape'
      BY FinalizedAssumption DEF SessionInv, Shape, ChainShape, SetFinalizedHeight, walk, startup
<1>2. WalkInOrder' /\ ReturnedBatchIsPath' /\ RowsAreChain'
      BY DEF SessionInv, WalkInOrder, ReturnedBatchIsPath, BatchIsPath, RowsAreChain, OneChain,
             IsTop, SetFinalizedHeight, walk
<1>3. SessionOnRows'
      BY DEF SessionInv, SessionOnRows, MemoryFollows, RollbackOnRows, BatchOnRows, IsTop,
             SetFinalizedHeight, walk
<1>. QED  BY <1>1, <1>2, <1>3 DEF SessionInv

\* apply, up to the point where it needs a common ancestor.
LEMMA Called ==
    ASSUME SessionInv, NEW h \in Blocks, Call(h), UNCHANGED startup
    PROVE  SessionInv'
<1>1. PICK old : old = tip
      OBVIOUS
<1>2. ~stale /\ phase = "idle" /\ before' = old /\ Apply(h) /\ UNCHANGED <<canonical, stale>>
      BY <1>1 DEF Call, Apply
<1>3. CallInv(old)
      BY <1>1, <1>2, SessionCall
<1>4. CallInv(old)'
      BY <1>2, <1>3, CallBegins
<1>. QED  BY <1>2, <1>4, CallSession

\* An iteration of either loop.
LEMMA Walked ==
    ASSUME SessionInv, Walk, UNCHANGED startup
    PROVE  SessionInv'
<1>1. PICK old : old = before
      OBVIOUS
<1>2. phase \in {"ancestor", "rollback"} /\ UNCHANGED <<canonical, before, stale>>
      BY DEF Walk, AncestorFound, AncestorStep, RollbackStep, RollbackDone, ResolverFails
<1>3. ~stale
      BY <1>2 DEF SessionInv, SessionOnRows
<1>4. CallInv(old)
      BY <1>1, <1>2, <1>3, SessionCall
<1>5. \E persisted \in BOOLEAN : persisted <=> cursor \in canonical
      OBVIOUS
<1>6. PICK persisted \in BOOLEAN : persisted <=> cursor \in canonical
      BY <1>5
<1>7. \/ AncestorFound(persisted)
      \/ \E answer \in Blocks \cup {None} : AncestorStep(persisted, answer)
      \/ \E answer \in Blocks \cup {None} : RollbackStep(answer)
      \/ RollbackDone
      \/ ResolverFails
      BY <1>6 DEF Walk, AncestorFound, AncestorStep
<1>8. CallInv(old)'
      BY <1>2, <1>4, <1>6, <1>7, CallWalks
<1>. QED  BY <1>1, <1>2, <1>3, <1>8, CallSession

\* The transaction of a batch leaves one chain, and the tip is its top unless the
\* batch only rolled back.
LEMMA Persisted ==
    ASSUME SessionInv, Persist, UNCHANGED startup
    PROVE  SessionInv'
<1>. /\ phase = "returned" /\ phase' = "idle" /\ canonical' = CanonicalAfter
     /\ stale' = (rollbacks # <<>> /\ replacement = <<>>)
     /\ head' = None /\ cursor' = None /\ replacement' = <<>> /\ rollbacks' = <<>>
     /\ ancestor' = None
     /\ UNCHANGED <<tip, known, finalized, before, startup>>
     BY DEF Persist, ClearWalk, memory
<1>s. Shape /\ RowsAreChain /\ BatchOnRows(before) /\ ReturnedBatchIsPath
      BY DEF SessionInv, SessionOnRows
<1>r. Range(<<>>) = {} /\ Range(rollbacks) \subseteq Blocks /\ Range(replacement) \subseteq Blocks
      BY <1>s DEF Range, Shape, ChainShape
<1>1. Shape'
      BY <1>s, <1>r DEF Shape, ChainShape, CanonicalAfter, startup
<1>2. WalkInOrder' /\ ReturnedBatchIsPath'
      BY DEF WalkInOrder, ReturnedBatchIsPath, BatchIsPath
<1>3. /\ RowsAreChain' /\ tip # None /\ known \subseteq canonical'
      /\ IF stale' THEN tip \notin canonical' ELSE IsTop(tip, canonical')
  <2>1. CASE before = None
    <3>1. /\ canonical = {} /\ rollbacks = <<>> /\ replacement = <<head>> /\ head \in Blocks
          /\ tip = head /\ known = {head}
          BY <1>s, <2>1 DEF BatchOnRows
    <3>2. canonical' = {head} /\ ~stale'
      <4>1. Range(<<head>>) = {head}
            BY DEF Range
      <4>. QED  BY <1>r, <3>1, <4>1 DEF CanonicalAfter
    <3>3. IsTop(head, canonical')
          BY <3>1, <3>2, HeightAssumption DEF IsTop
    <3>4. OneChain(canonical')
          BY <3>1, <3>2, HeightAssumption DEF OneChain
    <3>. QED  BY <3>1, <3>2, <3>3, <3>4, NoneAssumption DEF RowsAreChain
  <2>2. CASE before # None /\ rollbacks = <<>> /\ replacement = <<>>
    <3>1. /\ IsTop(before, canonical) /\ tip = before /\ known \subseteq CanonicalAfter
          BY <1>s, <2>2 DEF BatchOnRows
    <3>2. canonical' = canonical /\ ~stale'
          BY <1>r, <2>2 DEF CanonicalAfter
    <3>. QED  BY <1>s, <2>2, <3>1, <3>2 DEF RowsAreChain
  <2>3. CASE before # None /\ (rollbacks # <<>> \/ replacement # <<>>)
    <3>1. /\ tip = IF replacement = <<>> THEN before ELSE Last(replacement)
          /\ known \subseteq CanonicalAfter
          BY <1>s, <2>3 DEF BatchOnRows
    <3>2. /\ replacement \in Seq(Blocks)
          /\ rollbacks # <<>> => rollbacks[1] = before
          BY <1>s DEF Shape, ChainShape, ReturnedBatchIsPath, BatchIsPath
    <3>3. ChainShape /\ RowsAreChain /\ BatchOnRows(before) /\ BatchIsPath(before)
          BY <1>s DEF Shape, ChainShape, ReturnedBatchIsPath
    <3>7. /\ OneChain(canonical')
          /\ IsTop(IF replacement = <<>> THEN ancestor ELSE Last(replacement), canonical')
          BY <2>3, <3>3, BatchLeavesChain
    <3>8. RowsAreChain'
      <4>1. \E b \in canonical' : IsTop(b, canonical')
            BY <3>7 DEF IsTop
      <4>. QED  BY <3>7, <4>1 DEF RowsAreChain
    <3>9. tip # None
      <4>1. before \in Blocks
            BY <1>s, <2>3 DEF Shape, ChainShape
      <4>2. replacement # <<>> => Last(replacement) \in Blocks
            BY <3>2 DEF Last
      <4>. QED  BY <3>1, <4>1, <4>2, NoneAssumption
    <3>10. CASE replacement = <<>>
      <4>1. stale' /\ rollbacks[1] = before /\ tip = before
            BY <2>3, <3>1, <3>2, <3>10
      <4>2. before \in Range(rollbacks)
        <5>1. rollbacks \in Seq(Blocks) /\ rollbacks # <<>>
              BY <1>s, <2>3, <3>10 DEF Shape, ChainShape
        <5>2. 1 \in DOMAIN rollbacks
              BY <5>1
        <5>. QED  BY <4>1, <5>2 DEF Range
      <4>3. tip \notin canonical'
            BY <1>r, <3>10, <4>1, <4>2 DEF CanonicalAfter
      <4>. QED  BY <3>1, <3>8, <3>9, <4>1, <4>3
    <3>11. CASE replacement # <<>>
          BY <3>1, <3>7, <3>8, <3>9, <3>11
    <3>. QED  BY <3>10, <3>11
  <2>. QED  BY <2>1, <2>2, <2>3
<1>4. SessionOnRows'
      BY <1>3 DEF SessionOnRows, MemoryFollows, RollbackOnRows, BatchOnRows, IsTop
<1>. QED  BY <1>1, <1>2, <1>3, <1>4 DEF SessionInv

\* A step of the session.
LEMMA SessionStep ==
    ASSUME SessionInv, SessionNext, UNCHANGED startup
    PROVE  SessionInv'
BY FinalizedSet, Called, Walked, Persisted DEF SessionNext
-----------------------------------------------------------------------------
(* Startup. *)

\* A chain with a top has a row at every height from any of its rows to the top.
LEMMA NoHole ==
    ASSUME NEW S \in SUBSET Blocks, OneChain(S), NEW top \in S, NEW b \in S,
           NEW n \in Nat, Height[b] <= n, n <= Height[top]
    PROVE  \E c \in S : Height[c] = n
<1>h. /\ \A c \in S : Height[c] \in Nat
      /\ Height[b] \in Nat /\ Height[top] \in Nat
      BY HeightAssumption
<1>. DEFINE Missing == {k \in Nat : /\ Height[b] <= Height[top] - k
                                    /\ ~\E c \in S : Height[c] = Height[top] - k}
<1>1. Missing = {}
  <2>1. SUFFICES ASSUME Missing # {} PROVE FALSE
        OBVIOUS
  <2>2. PICK k \in Missing : \A j \in Missing : ~(<<j, k>> \in OpToRel(<, Nat))
        BY <2>1, WFMin, NatLessThanWellFounded
  <2>3. k \in Nat /\ Height[b] <= Height[top] - k /\ ~\E c \in S : Height[c] = Height[top] - k
        OBVIOUS
  <2>4. \A j \in Nat : j < k => <<j, k>> \in OpToRel(<, Nat)
        BY <2>3, Zenon DEF OpToRel
  <2>. HIDE DEF Missing
  <2>5. k # 0
        BY <1>h, <2>3
  <2>6. k - 1 \in Nat /\ k - 1 < k
        BY <2>3, <2>5
  <2>7. k - 1 \notin Missing
        BY <2>2, <2>4, <2>6
  <2>8. Height[b] <= Height[top] - (k - 1)
        BY <1>h, <2>3, <2>6
  <2>9. PICK c \in S : Height[c] = Height[top] - (k - 1)
        BY <2>6, <2>7, <2>8 DEF Missing
  <2>10. Height[b] < Height[c]
        BY <1>h, <2>3, <2>9
  <2>11. PICK q \in S : Links(c, q)
        BY <2>10 DEF OneChain
  <2>12. Height[q] = Height[top] - k
        BY <1>h, <2>3, <2>9, <2>11 DEF Links
  <2>. QED  BY <2>3, <2>12
<1>2. Height[top] - n \in Nat /\ Height[top] - (Height[top] - n) = n
      BY <1>h
<1>3. Height[top] - n \notin Missing
      BY <1>1
<1>. QED  BY <1>2, <1>3

\* The checkpoint is the top row.
LEMMA CheckpointIsTop ==
    ASSUME RowsAreChain, canonical # {}
    PROVE  Checkpoint \in canonical /\ IsTop(Checkpoint, canonical)
BY DEF RowsAreChain, Checkpoint

\* A ChainState made of the rows from one of them up has the top row as its tip.
LEMMA SeededFromRows ==
    ASSUME Shape, RowsAreChain, NEW b \in canonical
    PROVE  /\ Last(RowsFrom(b)) = Checkpoint
           /\ Range(RowsFrom(b)) \subseteq canonical
<1>. DEFINE n == Height[Checkpoint] - Height[b] + 1
            rows == RowsFrom(b)
<1>1. Checkpoint \in canonical /\ IsTop(Checkpoint, canonical)
      BY CheckpointIsTop
<1>2. /\ canonical \in SUBSET Blocks /\ OneChain(canonical)
      /\ Height[b] \in Nat /\ Height[Checkpoint] \in Nat /\ Height[b] <= Height[Checkpoint]
      BY <1>1, HeightAssumption DEF Shape, ChainShape, RowsAreChain, IsTop
<1>3. n \in Nat /\ n \in 1..n /\ Height[b] + n - 1 = Height[Checkpoint]
      BY <1>2
<1>4. /\ DOMAIN rows = 1..n
      /\ \A i \in 1..n : rows[i] = CHOOSE c \in canonical : Height[c] = Height[b] + i - 1
      BY DEF RowsFrom
<1>5. ASSUME NEW i \in 1..n
      PROVE  rows[i] \in canonical /\ Height[rows[i]] = Height[b] + i - 1
  <2>1. /\ Height[b] + i - 1 \in Nat /\ Height[b] <= Height[b] + i - 1
        /\ Height[b] + i - 1 <= Height[Checkpoint]
        BY <1>2, <1>5
  <2>2. \E c \in canonical : Height[c] = Height[b] + i - 1
        BY <1>1, <1>2, <2>1, NoHole
  <2>. QED  BY <1>4, <2>2
<1>6. Len(rows) = n
      BY <1>3 DEF RowsFrom
<1>. HIDE DEF rows, n
<1>7. rows[n] = Checkpoint
      BY <1>1, <1>2, <1>3, <1>5 DEF OneChain
<1>8. Range(rows) \subseteq canonical
      BY <1>4, <1>5 DEF Range
<1>. QED  BY <1>6, <1>7, <1>8 DEF rows, Last

\* What the blocks fetched so far say, one block later.
LEMMA FetchedMore ==
    ASSUME Shape, FetchedFollows, NEW b \in Blocks, Height[b] = at, at <= goal,
           Follows(b), fetched' = Append(fetched, b), at' = at + 1,
           UNCHANGED <<goal, common>>
    PROVE  FetchedFollows' /\ fetched' \in Seq(Blocks)
<1>. DEFINE f == fetched'
<1>1. /\ f \in Seq(Blocks) /\ Len(fetched) \in Nat /\ Len(f) = Len(fetched) + 1
      /\ f[Len(fetched) + 1] = b /\ \A i \in 1..Len(fetched) : f[i] = fetched[i]
      BY DEF Shape, ChainShape
<1>2. Base \in Nat /\ Base' = Base /\ at \in Nat /\ goal \in Nat
      BY HeightAssumption DEF Base, Shape, ChainShape
<1>3. /\ at = Base + Len(fetched)
      /\ \A i \in 1..Len(fetched) : Height[fetched[i]] = Base + i - 1
      /\ \A i \in 1..Len(fetched) - 1 : Parent[fetched[i + 1]] = fetched[i]
      /\ fetched # <<>> /\ common # None => Parent[fetched[1]] = common
      BY DEF FetchedFollows
<1>4. at' = Base' + Len(f) /\ at' <= goal' + 1
      BY <1>1, <1>2, <1>3
<1>5. ASSUME NEW i \in 1..Len(f) PROVE Height[f[i]] = Base' + i - 1
  <2>1. CASE i \in 1..Len(fetched)
        BY <1>1, <1>2, <1>3, <2>1
  <2>2. CASE i = Len(fetched) + 1
    <3>1. Height[f[i]] = at
          BY <1>1, <2>2
    <3>. QED  BY <1>1, <1>2, <1>3, <2>2, <3>1
  <2>. QED  BY <1>1, <1>5, <2>1, <2>2
<1>6. fetched # <<>> => Parent[b] = fetched[Len(fetched)]
  <2>1. ASSUME fetched # <<>> PROVE Last(fetched) \in Blocks /\ Last(fetched) = fetched[Len(fetched)]
        BY <2>1 DEF Shape, ChainShape, Last
  <2>. QED  BY <2>1, NoneAssumption DEF Follows, Previous
<1>7. ASSUME NEW i \in 1..Len(f) - 1 PROVE Parent[f[i + 1]] = f[i]
  <2>1. CASE i \in 1..Len(fetched) - 1
    <3>1. i \in 1..Len(fetched) /\ i + 1 \in 1..Len(fetched)
          BY <1>1, <2>1
    <3>. QED  BY <1>1, <1>3, <2>1, <3>1
  <2>2. CASE i = Len(fetched)
    <3>1. fetched # <<>> /\ i \in 1..Len(fetched)
          BY <1>1, <1>7, <2>2 DEF Shape, ChainShape
    <3>. QED  BY <1>1, <1>6, <2>2, <3>1
  <2>. QED  BY <1>1, <1>7, <2>1, <2>2
<1>8. ASSUME common # None PROVE Parent[f[1]] = common
  <2>1. CASE fetched = <<>>
    <3>1. f[1] = b /\ Previous = common
          BY <1>1, <2>1 DEF Previous
    <3>. QED  BY <1>8, <3>1 DEF Follows
  <2>2. CASE fetched # <<>>
    <3>1. 1 \in 1..Len(fetched)
          BY <1>1, <2>2 DEF Shape, ChainShape
    <3>. QED  BY <1>1, <1>3, <1>8, <2>2, <3>1
  <2>. QED  BY <2>1, <2>2
<1>. QED  BY <1>1, <1>4, <1>5, <1>7, <1>8 DEF FetchedFollows

\* What the transaction of a reconciliation leaves: one chain that ends at the
\* height of the head it read.
LEMMA Reconciled ==
    ASSUME Shape, RowsAreChain, ReconcileInOrder, CommitReconciliation
    PROVE  /\ canonical' \subseteq Blocks /\ OneChain(canonical')
           /\ \E top \in canonical' : IsTop(top, canonical') /\ Height[top] = goal
<1>. /\ stage = "blocks" /\ at > goal
     /\ canonical' = (canonical \ RowsAboveCommon) \cup Range(fetched)
     BY DEF CommitReconciliation
<1>1. /\ common = None <=> canonical = {}
      /\ common # None => common \in canonical
      /\ at = Base + Len(fetched) /\ at <= goal + 1
      /\ \A i \in 1..Len(fetched) : Height[fetched[i]] = Base + i - 1
      /\ \A i \in 1..Len(fetched) - 1 : Parent[fetched[i + 1]] = fetched[i]
      /\ fetched # <<>> /\ common # None => Parent[fetched[1]] = common
      BY DEF ReconcileInOrder, FetchedFollows
<1>2. /\ fetched \in Seq(Blocks) /\ canonical \in SUBSET Blocks /\ OneChain(canonical)
      /\ at \in Nat /\ goal \in Nat /\ at = goal + 1 /\ Len(fetched) \in Nat
      BY <1>1 DEF Shape, ChainShape, RowsAreChain
<1>3. canonical' \subseteq Blocks
      BY <1>2 DEF Range
<1>4. CASE common = None
  <2>1. Base = 0 /\ canonical' = Range(fetched) /\ Len(fetched) = goal + 1 /\ fetched # <<>>
        BY <1>1, <1>2, <1>4 DEF Base
  <2>. DEFINE first == fetched[1]
              rest == Tail(fetched)
  <2>2. /\ rest \in Seq(Blocks) /\ Len(rest) = goal /\ first \in Blocks
        /\ \A i \in 1..goal : rest[i] = fetched[i + 1]
        BY <1>2, <2>1
  <2>. HIDE DEF first, rest
  <2>3. Height[first] = 0
    <3>1. 1 \in 1..Len(fetched)
          BY <1>2, <2>1
    <3>. QED  BY <1>1, <2>1, <3>1 DEF first
  <2>4. \A i \in 1..Len(rest) : Height[rest[i]] = Height[first] + i
    <3>1. \A i \in 1..goal : i + 1 \in 1..Len(fetched)
          BY <1>2, <2>1
    <3>2. ASSUME NEW i \in 1..goal PROVE Height[rest[i]] = i
      <4>1. Height[fetched[i + 1]] = 0 + (i + 1) - 1
            BY <1>1, <2>1, <3>1
      <4>2. 0 + (i + 1) - 1 = i
            BY <1>2
      <4>. QED  BY <2>2, <4>1, <4>2
    <3>. QED  BY <2>2, <2>3, <3>2
  <2>5. \A i \in 1..Len(rest) - 1 : Parent[rest[i + 1]] = rest[i]
    <3>1. ASSUME NEW i \in 1..goal - 1 PROVE Parent[rest[i + 1]] = rest[i]
      <4>1. i \in 1..goal /\ i + 1 \in 1..goal /\ i + 1 \in 1..Len(fetched) - 1
            BY <1>2, <2>1
      <4>2. Parent[fetched[(i + 1) + 1]] = fetched[i + 1]
            BY <1>1, <4>1
      <4>. QED  BY <2>2, <4>1, <4>2
    <3>. QED  BY <2>2, <3>1
  <2>6. rest # <<>> => Parent[rest[1]] = first
    <3>1. ASSUME rest # <<>> PROVE Parent[rest[1]] = first
      <4>1. 1 \in 1..goal /\ 1 \in 1..Len(fetched) - 1
            BY <1>2, <2>1, <2>2, <3>1
      <4>2. Parent[fetched[1 + 1]] = fetched[1]
            BY <1>1, <4>1
      <4>. QED  BY <2>2, <4>1, <4>2 DEF first
    <3>. QED  BY <3>1
  <2>7. OneChain({first})
        BY <2>2, HeightAssumption DEF OneChain
  <2>8. Graft({first}, first, rest) = Range(fetched)
    <3>1. Above({first}, first) = {}
          BY <2>2, HeightAssumption DEF Above
    <3>2. /\ DOMAIN fetched = 1..goal + 1 /\ DOMAIN rest = 1..goal
          BY <1>2, <2>1, <2>2
    <3>3. Range(fetched) \subseteq {first} \cup Range(rest)
      <4>1. ASSUME NEW i \in 1..goal + 1 PROVE fetched[i] \in {first} \cup Range(rest)
        <5>1. CASE i = 1
              BY <5>1 DEF first
        <5>2. CASE i # 1
          <6>1. i - 1 \in 1..goal /\ (i - 1) + 1 = i
                BY <1>2, <4>1, <5>2
          <6>. QED  BY <2>2, <3>2, <6>1 DEF Range
        <5>. QED  BY <5>1, <5>2
      <4>. QED  BY <3>2, <4>1 DEF Range
    <3>4. {first} \cup Range(rest) \subseteq Range(fetched)
      <4>1. 1 \in 1..goal + 1 /\ \A i \in 1..goal : i + 1 \in 1..goal + 1
            BY <1>2
      <4>. QED  BY <2>2, <3>2, <4>1 DEF Range, first
    <3>. QED  BY <3>1, <3>3, <3>4 DEF Graft
  <2>9. {first} \in SUBSET Blocks /\ first \in {first}
        BY <2>2
  <2>. DEFINE top == IF rest = <<>> THEN first ELSE Last(rest)
  <2>10. OneChain(canonical') /\ IsTop(top, canonical') /\ Height[top] = Height[first] + Len(rest)
    <3>1. /\ OneChain(Graft({first}, first, rest)) /\ IsTop(top, Graft({first}, first, rest))
          /\ Height[top] = Height[first] + Len(rest)
          BY <2>2, <2>4, <2>5, <2>6, <2>7, <2>9, Grafted
    <3>. QED  BY <2>1, <2>8, <3>1
  <2>11. Height[top] = goal /\ top \in canonical'
        BY <1>2, <2>2, <2>3, <2>10 DEF IsTop
  <2>. QED  BY <1>3, <2>10, <2>11
<1>5. CASE common # None
  <2>1. /\ common \in canonical /\ common \in Blocks /\ Height[common] \in Nat
        /\ Base = Height[common] + 1
        BY <1>1, <1>2, <1>5, HeightAssumption DEF Base
  <2>2. canonical' = Graft(canonical, common, fetched)
        BY <1>5 DEF RowsAboveCommon, Graft, Above
  <2>3. \A i \in 1..Len(fetched) : Height[fetched[i]] = Height[common] + i
    <3>1. ASSUME NEW i \in 1..Len(fetched) PROVE Height[fetched[i]] = Height[common] + i
      <4>1. Height[fetched[i]] = Base + i - 1
            BY <1>1
      <4>. QED  BY <2>1, <4>1
    <3>. QED  BY <3>1
  <2>. DEFINE top == IF fetched = <<>> THEN common ELSE Last(fetched)
  <2>4. OneChain(canonical') /\ IsTop(top, canonical') /\ Height[top] = Height[common] + Len(fetched)
        BY <1>1, <1>2, <1>5, <2>1, <2>2, <2>3, Grafted
  <2>5. Height[top] = goal /\ top \in canonical'
    <3>1. Height[top] = Height[common] + Len(fetched) /\ top \in canonical'
          BY <2>4 DEF IsTop
    <3>2. goal + 1 = (Height[common] + 1) + Len(fetched)
          BY <1>1, <1>2, <2>1
    <3>. QED  BY <1>2, <2>1, <3>1, <3>2
  <2>. QED  BY <1>3, <2>4, <2>5
<1>. QED  BY <1>4, <1>5

\* Without a session, a step that keeps the rows and the (absent) ChainState.
LEMMA OnlyStartup ==
    ASSUME StartupInv, stage # "up", UNCHANGED sessionVars, stage' # "up", Shape'
    PROVE  WalkInOrder' /\ ReturnedBatchIsPath' /\ RowsAreChain' /\ NothingKept'
<1>. UNCHANGED <<tip, known, finalized, phase, head, cursor, replacement, rollbacks, ancestor,
                 canonical, before, stale>>
     BY DEF sessionVars, vars, chainVars, memory, walk
<1>1. NothingKept'
      BY DEF StartupInv, NothingKept
<1>2. WalkInOrder' /\ ReturnedBatchIsPath'
      BY DEF StartupInv, WalkInOrder, NothingKept, ReturnedBatchIsPath, BatchIsPath
<1>3. RowsAreChain'
      BY DEF StartupInv, RowsAreChain, OneChain, IsTop
<1>. QED  BY <1>1, <1>2, <1>3

\* A process that is gone leaves the rows.
LEMMA Gone ==
    ASSUME StartupInv, UNCHANGED canonical, Leave("down"), before' \in {before, None},
           \/ stage # "up" /\ UNCHANGED sessionVars
           \/ Drop /\ before' = None /\ stale' = FALSE
    PROVE  StartupInv'
<1>. /\ stage' = "down" /\ goal' = 0 /\ at' = 0 /\ walked' = 0 /\ common' = None
     /\ fetched' = <<>>
     BY DEF Leave
<1>1. ReconcileInOrder'
      BY DEF ReconcileInOrder
<1>2. CASE stage # "up" /\ UNCHANGED sessionVars
  <2>1. Shape'
        BY <1>2, StartupAssumption DEF StartupInv, Shape, ChainShape, sessionVars, vars, chainVars, memory, walk
  <2>. QED  BY <1>1, <1>2, <2>1, OnlyStartup DEF StartupInv
<1>3. CASE Drop /\ before' = None /\ stale' = FALSE
  <2>1. Shape'
    <3>1. stale' \in BOOLEAN /\ finalized' \in Nat /\ known' \subseteq Blocks
          BY <1>3 DEF Drop
    <3>2. walked' \in 0..MaxWalkBack /\ <<>> \in Seq(Blocks)
          BY StartupAssumption
    <3>. QED  BY <1>3, <3>1, <3>2 DEF StartupInv, Shape, ChainShape, Drop, ClearWalk
  <2>2. NothingKept'
        BY <1>3 DEF NothingKept, Drop
  <2>3. WalkInOrder' /\ ReturnedBatchIsPath'
        BY <1>3 DEF WalkInOrder, ReturnedBatchIsPath, BatchIsPath, Drop, ClearWalk
  <2>4. RowsAreChain'
        BY DEF StartupInv, RowsAreChain, OneChain, IsTop
  <2>. QED  BY <1>1, <2>1, <2>2, <2>3, <2>4 DEF StartupInv
<1>. QED  BY <1>2, <1>3

\* A step of reconcile_to_head, or the start of the session after it.
LEMMA ReconcileStep ==
    ASSUME StartupInv, ReconcileToHead
    PROVE  StartupInv'
<1>s. Shape /\ RowsAreChain /\ ReconcileInOrder /\ (stage # "up" => NothingKept)
      BY DEF StartupInv
<1>1. ASSUME NEW h \in Blocks, ReadHead(h) PROVE StartupInv'
  <2>1. /\ stage = "down" /\ goal' = Height[h] /\ Height[h] \in Nat
        /\ UNCHANGED <<walked, common, fetched>> /\ UNCHANGED sessionVars
        /\ UNCHANGED canonical
        /\ walked = 0 /\ common = None /\ fetched = <<>>
        BY <1>1, <1>s, HeightAssumption DEF ReadHead, ReconcileInOrder, sessionVars, vars
  <2>2. CASE canonical = {}
    <3>1. stage' = "blocks" /\ at' = 0
          BY <1>1, <2>2 DEF ReadHead
    <3>2. Shape'
          BY <1>s, <2>1, <3>1 DEF Shape, ChainShape, sessionVars, vars, chainVars, memory, walk
    <3>3. FetchedFollows'
          BY <2>1, <3>1 DEF FetchedFollows, Base
    <3>4. ReconcileInOrder'
          BY <2>1, <2>2, <3>1, <3>3 DEF ReconcileInOrder
    <3>. QED  BY <2>1, <3>1, <3>2, <3>4, OnlyStartup DEF StartupInv
  <2>3. CASE canonical # {}
    <3>1. /\ stage' = "ancestor"
          /\ at' = IF Height[Checkpoint] < Height[h] THEN Height[Checkpoint] ELSE Height[h]
          BY <1>1, <2>3 DEF ReadHead
    <3>2. /\ \A b \in canonical : Height[b] \in Nat /\ Height[b] <= Height[Checkpoint]
          /\ Height[Checkpoint] \in Nat
          BY <1>s, <2>3, CheckpointIsTop, HeightAssumption DEF IsTop, Shape, ChainShape
    <3>3. at' \in Nat /\ at' <= goal'
          BY <2>1, <3>1, <3>2
    <3>4. WalkedFrom(at)'
      <4>1. ASSUME NEW b \in canonical, Height[b] <= goal' PROVE Height[b] <= at' + walked'
            BY <2>1, <3>1, <3>2, <4>1
      <4>. QED  BY <2>1, <4>1 DEF WalkedFrom
    <3>5. Shape'
          BY <1>s, <2>1, <3>1, <3>3 DEF Shape, ChainShape, sessionVars, vars, chainVars, memory, walk
    <3>6. ReconcileInOrder'
          BY <2>1, <2>3, <3>1, <3>3, <3>4 DEF ReconcileInOrder
    <3>. QED  BY <2>1, <3>1, <3>5, <3>6, OnlyStartup DEF StartupInv
  <2>. QED  BY <2>2, <2>3
<1>2. ASSUME NEW answer \in Answers, CommonFound(answer) PROVE StartupInv'
  <2>1. /\ stage = "ancestor" /\ stage' = "blocks" /\ common' = answer /\ at' = at + 1
        /\ UNCHANGED sessionVars /\ UNCHANGED <<goal, walked, fetched, canonical>>
        /\ RowAt(at) = {answer}
        BY <1>2 DEF CommonFound, sessionVars, vars
  <2>2. /\ at <= goal /\ WalkedFrom(at) /\ fetched = <<>> /\ at \in Nat /\ goal \in Nat
        BY <1>s, <2>1 DEF ReconcileInOrder, Shape, ChainShape
  <2>3. /\ answer \in canonical /\ Height[answer] = at
        BY <2>1 DEF RowAt
  <2>4. answer \in Blocks /\ answer # None
        BY <1>s, <2>3, NoneAssumption DEF Shape, ChainShape
  <2>5. Shape'
        BY <1>s, <2>1, <2>2, <2>4 DEF Shape, ChainShape, sessionVars, vars, chainVars, memory, walk
  <2>6. FetchedFollows'
        BY <2>1, <2>2, <2>3, <2>4 DEF FetchedFollows, Base
  <2>7. WalkedFrom(Height[common])'
        BY <2>1, <2>2, <2>3 DEF WalkedFrom
  <2>8. ReconcileInOrder'
        BY <2>1, <2>3, <2>4, <2>6, <2>7 DEF ReconcileInOrder
  <2>. QED  BY <2>1, <2>5, <2>8, OnlyStartup DEF StartupInv
<1>3. ASSUME NEW answer \in Answers, WalkBack(answer) PROVE StartupInv'
  <2>1. /\ stage = "ancestor" /\ walked' = walked + 1 /\ at' = at - 1
        /\ ~(walked + 1 > MaxWalkBack \/ at = 0)
        /\ UNCHANGED sessionVars /\ UNCHANGED <<stage, goal, common, fetched, canonical>>
        BY <1>3 DEF WalkBack, WalkedTooFar, sessionVars, vars
  <2>2. /\ canonical # {} /\ at <= goal /\ WalkedFrom(at) /\ common = None /\ fetched = <<>>
        BY <1>s, <2>1 DEF ReconcileInOrder
  <2>3. /\ at \in Nat /\ goal \in Nat /\ walked \in Nat /\ walked' \in 0..MaxWalkBack
        /\ at' \in Nat /\ at' <= goal
        BY <1>s, <2>1, <2>2, StartupAssumption DEF Shape, ChainShape
  <2>4. WalkedFrom(at)'
    <3>1. at' + walked' = at + walked
          BY <2>1, <2>3
    <3>. QED  BY <2>1, <2>2, <3>1 DEF WalkedFrom
  <2>5. Shape'
        BY <1>s, <2>1, <2>3 DEF Shape, ChainShape, sessionVars, vars, chainVars, memory, walk
  <2>6. ReconcileInOrder'
        BY <2>1, <2>2, <2>3, <2>4 DEF ReconcileInOrder
  <2>. QED  BY <2>1, <2>5, <2>6, OnlyStartup DEF StartupInv
<1>4. ASSUME NEW answer \in Answers, FetchBlock(answer) PROVE StartupInv'
  <2>1. /\ stage = "blocks" /\ at <= goal /\ Follows(answer) /\ fetched' = Append(fetched, answer)
        /\ at' = at + 1 /\ UNCHANGED sessionVars
        /\ UNCHANGED <<stage, goal, walked, common, canonical>>
        BY <1>4 DEF FetchBlock, sessionVars, vars
  <2>2. answer \in Blocks /\ Height[answer] = at
        BY <1>4, <2>1 DEF Answers, Follows
  <2>3. FetchedFollows
        BY <1>s, <2>1 DEF ReconcileInOrder
  <2>4. FetchedFollows' /\ fetched' \in Seq(Blocks)
        BY <1>s, <2>1, <2>2, <2>3, FetchedMore
  <2>5. Shape'
        BY <1>s, <2>1, <2>4 DEF Shape, ChainShape, sessionVars, vars, chainVars, memory, walk
  <2>6. ReconcileInOrder'
        BY <1>s, <2>1, <2>4 DEF ReconcileInOrder, WalkedFrom
  <2>. QED  BY <2>1, <2>5, <2>6, OnlyStartup DEF StartupInv
<1>5. ASSUME NEW answer \in Answers, CompareFails(answer) \/ FetchFails(answer)
      PROVE  StartupInv'
  <2>1. /\ stage \in {"ancestor", "blocks"} /\ Leave("down") /\ UNCHANGED sessionVars
        /\ UNCHANGED <<canonical, before>>
        BY <1>5 DEF CompareFails, FetchFails, ReconcileFails, sessionVars, vars
  <2>. QED  BY <2>1, Gone
<1>6. CASE CommitReconciliation
  <2>1. /\ stage = "blocks" /\ Leave("reconciled") /\ UNCHANGED <<chainVars, before, stale>>
        BY <1>6 DEF CommitReconciliation
  <2>2. /\ canonical' \subseteq Blocks /\ OneChain(canonical')
        /\ \E top \in canonical' : IsTop(top, canonical')
        BY <1>6, <1>s, Reconciled
  <2>3. Shape'
        BY <1>s, <2>1, <2>2, StartupAssumption DEF Shape, ChainShape, Leave, chainVars, memory, walk
  <2>4. NothingKept' /\ WalkInOrder' /\ ReturnedBatchIsPath'
        BY <1>s, <2>1 DEF StartupInv, NothingKept, WalkInOrder, ReturnedBatchIsPath, BatchIsPath,
           chainVars, memory, walk
  <2>5. RowsAreChain' /\ ReconcileInOrder' /\ stage' # "up"
        BY <2>1, <2>2 DEF RowsAreChain, ReconcileInOrder, Leave
  <2>. QED  BY <2>3, <2>4, <2>5 DEF StartupInv
<1>7. ASSUME NEW b \in canonical, StartSession(b) PROVE StartupInv'
  <2>1. /\ stage = "reconciled" /\ Leave("up") /\ UNCHANGED <<walk, canonical, before, stale>>
        /\ tip' = Last(RowsFrom(b)) /\ known' = Range(RowsFrom(b)) /\ finalized' = 0
        BY <1>7 DEF StartSession, Seed
  <2>2. tip' = Checkpoint /\ known' \subseteq canonical
        BY <1>s, <2>1, SeededFromRows
  <2>3. Checkpoint \in canonical /\ IsTop(Checkpoint, canonical)
        BY <1>s, CheckpointIsTop
  <2>4. Checkpoint \in Blocks /\ Checkpoint # None
        BY <1>s, <2>3, NoneAssumption DEF Shape, ChainShape
  <2>5. Shape'
        BY <1>s, <2>1, <2>2, <2>4, StartupAssumption DEF Shape, ChainShape, Leave, walk
  <2>6. WalkInOrder' /\ ReturnedBatchIsPath' /\ RowsAreChain' /\ ReconcileInOrder'
        BY <1>s, <2>1 DEF StartupInv, NothingKept, WalkInOrder, ReturnedBatchIsPath, BatchIsPath,
           RowsAreChain, OneChain, IsTop, ReconcileInOrder, Leave, walk
  <2>7. SessionOnRows'
        BY <1>s, <2>1, <2>2, <2>3, <2>4 DEF NothingKept, SessionOnRows, MemoryFollows,
           RollbackOnRows, BatchOnRows, IsTop, walk
  <2>. QED  BY <2>1, <2>5, <2>6, <2>7 DEF StartupInv, Leave
<1>8. ASSUME CallFails PROVE StartupInv'
  <2>1. /\ stage \in {"ancestor", "blocks"} /\ Leave("down") /\ UNCHANGED sessionVars
        /\ UNCHANGED <<canonical, before>>
        BY <1>8 DEF CallFails, ReconcileFails, sessionVars, vars
  <2>. QED  BY <2>1, Gone
<1>. QED  BY <1>1, <1>2, <1>3, <1>4, <1>5, <1>6, <1>7, <1>8 DEF ReconcileToHead

LEMMA StartupBegins ==
    StartupInit => StartupInv
<1>. SUFFICES ASSUME StartupInit PROVE StartupInv
     OBVIOUS
<1>. /\ tip = None /\ known = {} /\ finalized = 0 /\ phase = "idle" /\ head = None
     /\ cursor = None /\ replacement = <<>> /\ rollbacks = <<>> /\ ancestor = None
     /\ before = None /\ stale = FALSE
     /\ goal = 0 /\ at = 0 /\ walked = 0 /\ common = None /\ fetched = <<>>
     BY DEF StartupInit, NoSession
<1>1. stage \in {"up", "down"} /\ canonical \subseteq Blocks
      BY DEF StartupInit, StoredChains
<1>2. RowsAreChain
  <2>1. CASE canonical = {}
        BY <2>1 DEF RowsAreChain, OneChain
  <2>2. CASE canonical \in StoredChains
        BY <2>2 DEF RowsAreChain, StoredChains
  <2>. QED  BY <2>1, <2>2 DEF StartupInit
<1>3. Shape
  <2>1. 0 \in 0..MaxWalkBack /\ <<>> \in Seq(Blocks) /\ FALSE \in BOOLEAN
        BY StartupAssumption
  <2>. QED  BY <1>1, <2>1 DEF Shape, ChainShape
<1>4. WalkInOrder /\ ReturnedBatchIsPath /\ ReconcileInOrder
      BY <1>1 DEF WalkInOrder, ReturnedBatchIsPath, BatchIsPath, ReconcileInOrder
<1>5. IF stage = "up" THEN SessionOnRows ELSE NothingKept
  <2>1. NothingKept
        BY DEF NothingKept
  <2>2. ASSUME stage = "up" PROVE SessionOnRows
    <3>1. canonical = {}
          BY <2>2 DEF StartupInit
    <3>. QED  BY <3>1 DEF SessionOnRows, MemoryFollows, RollbackOnRows, BatchOnRows
  <2>. QED  BY <2>1, <2>2
<1>. QED  BY <1>2, <1>3, <1>4, <1>5 DEF StartupInv

LEMMA StartupStep ==
    StartupInv /\ [StartupNext]_allVars => StartupInv'
<1>. SUFFICES ASSUME StartupInv, [StartupNext]_allVars PROVE StartupInv'
     OBVIOUS
<1>1. CASE stage = "up" /\ SessionNext /\ UNCHANGED <<startup, deaths>>
  <2>1. SessionInv /\ UNCHANGED startup
        BY <1>1 DEF StartupInv, SessionInv
  <2>2. SessionInv'
        BY <1>1, <2>1, SessionStep
  <2>3. stage' = "up" /\ ReconcileInOrder'
        BY <1>1 DEF StartupInv, ReconcileInOrder, startup
  <2>. QED  BY <2>2, <2>3 DEF StartupInv, SessionInv
<1>2. CASE ReconcileToHead
      BY <1>2, ReconcileStep
<1>3. CASE Die
      BY <1>3, Gone DEF Die
<1>4. CASE UNCHANGED allVars
  <2>. UNCHANGED <<tip, known, finalized, phase, head, cursor, replacement, rollbacks, ancestor,
                   canonical, before, stale, stage, goal, at, walked, common, fetched>>
       BY <1>4 DEF allVars, sessionVars, vars, chainVars, memory, walk, startup
  <2>1. Shape' /\ WalkInOrder' /\ ReturnedBatchIsPath' /\ RowsAreChain'
        BY DEF StartupInv, Shape, ChainShape, WalkInOrder, ReturnedBatchIsPath, BatchIsPath, RowsAreChain,
           OneChain, IsTop
  <2>2. SessionOnRows' = SessionOnRows /\ NothingKept' = NothingKept
        BY DEF SessionOnRows, MemoryFollows, RollbackOnRows, BatchOnRows, IsTop, Above,
           CanonicalAfter, NothingKept
  <2>3. ReconcileInOrder'
        BY DEF StartupInv, ReconcileInOrder, FetchedFollows, Base, WalkedFrom
  <2>. QED  BY <2>1, <2>2, <2>3 DEF StartupInv
<1>. QED  BY <1>1, <1>2, <1>3, <1>4 DEF StartupNext

LEMMA StartupSafe == StartupSpec => []StartupInv
BY StartupBegins, StartupStep, PTL DEF StartupSpec

\* The rows change in two transactions only.
LEMMA TwoTransactions ==
    ASSUME [StartupNext]_allVars, canonical' # canonical
    PROVE  (stage = "up" /\ Persist) \/ CommitReconciliation
<1>1. CASE stage = "up" /\ SessionNext
      BY <1>1 DEF SessionNext, SetFinalizedHeight, Call, Walk
<1>2. CASE ReconcileToHead
      BY <1>2 DEF ReconcileToHead, ReadHead, CommonFound, WalkBack, CompareFails,
         FetchBlock, FetchFails, CallFails, ReconcileFails, StartSession, sessionVars, vars
<1>3. CASE Die
      BY <1>3 DEF Die
<1>4. CASE UNCHANGED allVars
      BY <1>4 DEF allVars, sessionVars, vars
<1>. QED  BY <1>1, <1>2, <1>3, <1>4 DEF StartupNext

\* The source's new blocks that are canonical already lie directly above the common
\* block: with one of them, all below it.
LEMMA FetchedRowsBelow ==
    ASSUME NEW S \in SUBSET Blocks, OneChain(S), NEW a \in S, NEW ups \in Seq(Blocks),
           \A i \in 1..Len(ups) : Height[ups[i]] = Height[a] + i,
           \A i \in 1..Len(ups) - 1 : Parent[ups[i + 1]] = ups[i],
           NEW n \in 1..Len(ups), ups[n] \in S, NEW m \in 1..n
    PROVE  ups[m] \in S
<1>h. Height[a] \in Nat /\ Len(ups) \in Nat
      BY HeightAssumption
<1>. DEFINE Missing == {k \in Nat : k < n /\ ups[n - k] \notin S}
<1>1. Missing = {}
  <2>1. SUFFICES ASSUME Missing # {} PROVE FALSE
        OBVIOUS
  <2>2. PICK k \in Missing : \A j \in Missing : ~(<<j, k>> \in OpToRel(<, Nat))
        BY <2>1, WFMin, NatLessThanWellFounded
  <2>3. k \in Nat /\ k < n /\ ups[n - k] \notin S
        OBVIOUS
  <2>4. \A j \in Nat : j < k => <<j, k>> \in OpToRel(<, Nat)
        BY <2>3, Zenon DEF OpToRel
  <2>. HIDE DEF Missing
  <2>5. k # 0
    <3>1. n - 0 = n
          OBVIOUS
    <3>. QED  BY <2>3, <3>1
  <2>6. k - 1 \in Nat /\ k - 1 < k /\ k - 1 < n
        BY <2>3, <2>5
  <2>7. k - 1 \notin Missing
        BY <2>2, <2>4, <2>6
  <2>8. ups[n - (k - 1)] \in S
        BY <2>6, <2>7 DEF Missing
  <2>9. /\ n - k \in 1..Len(ups) - 1 /\ n - (k - 1) = (n - k) + 1 /\ (n - k) + 1 \in 1..Len(ups)
        BY <1>h, <2>3, <2>5
  <2>10. Parent[ups[(n - k) + 1]] = ups[n - k] /\ Height[ups[(n - k) + 1]] = Height[a] + ((n - k) + 1)
        BY <2>9
  <2>11. Height[a] < Height[ups[(n - k) + 1]] /\ ups[(n - k) + 1] \in S
        BY <1>h, <2>8, <2>9, <2>10
  <2>12. PICK q \in S : Links(ups[(n - k) + 1], q)
        BY <2>11 DEF OneChain
  <2>. QED  BY <2>3, <2>10, <2>12 DEF Links
<1>2. n - m \in Nat /\ n - m < n /\ n - (n - m) = m
      BY <1>h
<1>3. n - m \notin Missing
      BY <1>1
<1>. QED  BY <1>2, <1>3

\* The types of the ChainState and the number of deaths, a step later.
LEMMA StartupTypesStep ==
    ASSUME StartupInv, CallTypes, deaths \in 0..MaxDeaths, [StartupNext]_allVars
    PROVE  CallTypes' /\ deaths' \in 0..MaxDeaths
<1>c. ASSUME UNCHANGED vars PROVE CallTypes'
      BY <1>c DEF CallTypes, ChainShape, vars, chainVars, memory, walk
<1>1. CASE stage = "up" /\ SessionNext /\ UNCHANGED <<startup, deaths>>
  <2>1. ASSUME NEW f \in FinalizedHeights, SetFinalizedHeight(f) PROVE CallTypes'
        BY <2>1, FinalizedAssumption DEF CallTypes, ChainShape, SetFinalizedHeight, walk
  <2>2. ASSUME NEW h \in Blocks, Call(h) PROVE CallTypes'
        BY <2>2, BegunTypes DEF Call
  <2>3. CASE Walk
    <3>1. PICK persisted \in BOOLEAN : persisted <=> cursor \in canonical
          OBVIOUS
    <3>2. /\ \/ AncestorFound(persisted)
             \/ \E answer \in Blocks \cup {None} : AncestorStep(persisted, answer)
             \/ \E answer \in Blocks \cup {None} : RollbackStep(answer)
             \/ RollbackDone
             \/ ResolverFails
          /\ UNCHANGED canonical
          BY <2>3, <3>1 DEF Walk, AncestorFound, AncestorStep
    <3>. QED  BY <1>1, <3>1, <3>2, WalkedTypes
  <2>4. CASE Persist
    <3>1. CanonicalAfter \subseteq Blocks
          BY DEF CanonicalAfter, CallTypes, ChainShape, Range
    <3>2. /\ phase' = "idle" /\ canonical' = CanonicalAfter
          /\ head' = None /\ cursor' = None /\ replacement' = <<>> /\ rollbacks' = <<>>
          /\ ancestor' = None /\ UNCHANGED <<tip, known, cache, finalized, result>>
          BY <2>4 DEF Persist, ClearWalk, memory
    <3>3. ChainShape'
          BY <3>1, <3>2 DEF CallTypes, ChainShape
    <3>. QED  BY <1>1, <3>2, <3>3 DEF CallTypes
  <2>. QED  BY <1>1, <2>1, <2>2, <2>3, <2>4 DEF SessionNext
<1>2. CASE ReconcileToHead
  <2>1. deaths' = deaths
        BY <1>2 DEF ReconcileToHead, ReadHead, CommonFound, WalkBack, CompareFails, FetchBlock,
           FetchFails, CallFails, ReconcileFails, CommitReconciliation, StartSession
  <2>2. CASE CommitReconciliation
    <3>1. canonical' \subseteq Blocks
          BY <2>2, Reconciled DEF StartupInv
    <3>. QED  BY <2>1, <2>2, <3>1 DEF CommitReconciliation, CallTypes, ChainShape,
         chainVars, memory, walk
  <2>3. ASSUME NEW b \in canonical, StartSession(b) PROVE CallTypes'
    <3>1. /\ Seed(RowsFrom(b), 0) /\ UNCHANGED <<walk, canonical>> /\ stage = "reconciled"
          BY <2>3 DEF StartSession
    <3>2. RowsFrom(b) \in Seq(Blocks)
      <4>1. Range(RowsFrom(b)) \subseteq canonical
            BY SeededFromRows DEF StartupInv
      <4>2. Checkpoint \in canonical /\ IsTop(Checkpoint, canonical) /\ canonical \subseteq Blocks
            BY CheckpointIsTop DEF StartupInv, Shape, ChainShape
      <4>3. Height[b] \in Nat /\ Height[Checkpoint] \in Nat /\ Height[b] <= Height[Checkpoint]
            BY <4>2, HeightAssumption DEF IsTop
      <4>. DEFINE n == Height[Checkpoint] - Height[b] + 1
      <4>4. n \in Nat
            BY <4>3
      <4>5. RowsFrom(b) = [i \in 1..n |-> RowsFrom(b)[i]] /\ DOMAIN RowsFrom(b) = 1..n
            BY DEF RowsFrom
      <4>6. \A i \in 1..n : RowsFrom(b)[i] \in Blocks
            BY <4>1, <4>2, <4>5 DEF Range
      <4>. HIDE DEF n
      <4>. QED  BY <4>4, <4>5, <4>6
    <3>3. phase = "idle"
          BY <3>1 DEF StartupInv, NothingKept
    <3>. QED  BY <3>1, <3>2, <3>3, SeededTypes
  <2>4. CASE UNCHANGED vars
        BY <1>c, <2>1, <2>4
  <2>5. \/ CommitReconciliation \/ (\E b \in canonical : StartSession(b)) \/ UNCHANGED vars
        BY <1>2 DEF ReconcileToHead, ReadHead, CommonFound, WalkBack, CompareFails, FetchBlock,
           FetchFails, CallFails, ReconcileFails, sessionVars
  <2>. QED  BY <2>1, <2>2, <2>3, <2>4, <2>5
<1>3. CASE Die
  <2>1. CallTypes'
        BY <1>3, DroppedTypes DEF Die, CallTypes, ChainShape
  <2>2. deaths' \in 0..MaxDeaths
        BY <1>3, StartupAssumption DEF Die
  <2>. QED  BY <2>1, <2>2
<1>4. CASE UNCHANGED allVars
      BY <1>4, <1>c DEF allVars, sessionVars
<1>. QED  BY <1>1, <1>2, <1>3, <1>4 DEF StartupNext
-----------------------------------------------------------------------------
(* The results. *)

\* Every variable has its type in every behaviour of a session and the startups
\* between its deaths; in particular HeaderCache never holds more than header_cache_size
\* headers, however many one batch or one seeding chain inserts, and the walk back
\* never counts more than max_walk_back_depth.
THEOREM StartupTypes == StartupSpec => []StartupTypeOK
<1>. DEFINE Typed == StartupInv /\ CallTypes /\ deaths \in 0..MaxDeaths
<1>1. StartupInit => Typed
  <2>. SUFFICES ASSUME StartupInit PROVE Typed
       OBVIOUS
  <2>1. StartupInv
        BY StartupBegins
  <2>2. <<>> \in Caches
        BY BoundsAssumption DEF Caches
  <2>3. CallTypes
        BY <2>1, <2>2 DEF StartupInit, NoSession, StartupInv, Shape, CallTypes, Outcomes
  <2>. QED  BY <2>1, <2>3, StartupAssumption DEF StartupInit
<1>2. Typed /\ [StartupNext]_allVars => Typed'
      BY StartupStep, StartupTypesStep
<1>3. Typed => StartupTypeOK
  <2>. SUFFICES ASSUME Typed PROVE StartupTypeOK
       OBVIOUS
  <2>1. ChainTypeOK
        BY CallTypesSuffice
  <2>2. SessionTypeOK
        BY <2>1 DEF StartupInv, Shape, SessionTypeOK
  <2>3. /\ {goal, at, walked} \subseteq Nat /\ walked <= MaxWalkBack
        /\ Range(fetched) \subseteq Blocks
        BY StartupAssumption DEF StartupInv, Shape, Range
  <2>. QED  BY <2>2, <2>3 DEF StartupInv, Shape, StartupTypeOK
<1>. HIDE DEF Typed
<1>. QED  BY <1>1, <1>2, <1>3, PTL DEF StartupSpec

\* apply returns nothing but paths from the tip it was called at to the head it was
\* called with, in any block tree and with any answers of the resolver.
THEOREM BatchesArePaths == StartupSpec => []ReturnedBatchIsPath
<1>1. StartupInv => ReturnedBatchIsPath
      BY DEF StartupInv
<1>. QED  BY <1>1, StartupSafe, PTL

\* In a session no header of the new branch is canonical yet, and the way down the
\* old branch passes no header twice.
NamedOnce ==
    /\ Range(replacement) \cap canonical = {}
    /\ \A i, j \in 1..Len(rollbacks) : rollbacks[i] = rollbacks[j] => i = j

\* apply keeps that: a header above the top is new, and the walk goes on from headers
\* that are not canonical only.
LEMMA CallNamesOnce ==
    ASSUME SessionInv, NamedOnce, NEW h \in Blocks, Call(h)
    PROVE  NamedOnce'
<1>1. /\ phase = "idle" /\ ~stale /\ UNCHANGED canonical /\ canonical \subseteq Blocks
      /\ replacement = <<>> /\ rollbacks = <<>>
      BY DEF Call, Apply, SessionInv, Shape, ChainShape, WalkInOrder
<1>2. CASE rollbacks' = <<>> /\ replacement' = <<>>
      BY <1>2 DEF NamedOnce, Range
<1>3. CASE rollbacks' = <<>> /\ replacement' = <<h>> /\ h \notin canonical
  <2>1. Range(<<h>>) = {h}
        BY DEF Range
  <2>. QED  BY <1>1, <1>3, <2>1 DEF NamedOnce
<1>4. CASE ApplyDuplicate(h) \/ ApplyElsewhere(h)
      BY <1>1, <1>2, <1>4 DEF ApplyDuplicate, ApplyElsewhere
<1>5. CASE ApplyFirst(h)
  <2>1. canonical = {}
        BY <1>1, <1>5 DEF ApplyFirst, SessionInv, SessionOnRows, MemoryFollows
  <2>. QED  BY <1>2, <1>3, <1>5, <2>1 DEF ApplyFirst, FailWith, ClearWalk, Return
<1>6. CASE ApplyExtend(h)
  <2>1. CASE Height[h] # Height[tip] + 1
        BY <1>2, <1>6, <2>1 DEF ApplyExtend, FailWith, ClearWalk
  <2>2. CASE Height[h] = Height[tip] + 1
    <3>1. IsTop(tip, canonical)
          BY <1>1, <1>6 DEF ApplyExtend, SessionInv, SessionOnRows, MemoryFollows
    <3>2. Height[tip] \in Nat
          BY <1>1, <3>1, HeightAssumption DEF IsTop
    <3>3. h \notin canonical
          BY <2>2, <3>1, <3>2 DEF IsTop
    <3>. QED  BY <1>3, <1>6, <2>2, <3>3 DEF ApplyExtend, Return
  <2>. QED  BY <2>1, <2>2
<1>. QED  BY <1>4, <1>5, <1>6 DEF Call, Apply

LEMMA WalkNamesOnce ==
    ASSUME SessionInv, NamedOnce, Walk
    PROVE  NamedOnce'
<1>1. /\ UNCHANGED canonical /\ replacement \in Seq(Blocks) /\ rollbacks \in Seq(Blocks)
      /\ phase \in {"ancestor", "rollback"} /\ cursor \in Blocks /\ tip \in Blocks
      /\ head \in Blocks
      BY DEF Walk, SessionInv, Shape, ChainShape, WalkInOrder, AncestorFound, AncestorStep,
             RollbackStep, RollbackDone, ResolverFails
<1>2. CASE rollbacks' = <<>> /\ replacement' = <<>>
      BY <1>2 DEF NamedOnce, Range
<1>3. CASE UNCHANGED <<replacement, rollbacks>>
      BY <1>1, <1>3 DEF NamedOnce, Range
<1>4. CASE AncestorFound(cursor \in canonical) \/ ResolverFails
      BY <1>2, <1>3, <1>4 DEF AncestorFound, ResolverFails, FailWith, ClearWalk
<1>5. ASSUME NEW answer \in Blocks \cup {None}, AncestorStep(cursor \in canonical, answer)
      PROVE  NamedOnce'
  <2>1. CASE \E e : FailWith(e)
        BY <1>2, <2>1 DEF FailWith, ClearWalk
  <2>2. CASE phase' = "ancestor"
    <3>1. replacement' = Append(replacement, cursor) /\ UNCHANGED rollbacks
          /\ cursor \notin canonical
      <4>1. CASE Len(replacement) + 1 > MaxReorgDepth
            BY <1>5, <2>2, <4>1 DEF AncestorStep, FailWith
      <4>. QED  BY <1>5, <2>2, <4>1 DEF AncestorStep
    <3>2. Range(Append(replacement, cursor)) \subseteq Range(replacement) \cup {cursor}
      <4>. DEFINE q == Append(replacement, cursor)
      <4>1. /\ Len(replacement) \in Nat /\ DOMAIN q = 1..Len(replacement) + 1
            /\ q[Len(replacement) + 1] = cursor
            /\ \A i \in 1..Len(replacement) : q[i] = replacement[i]
            /\ DOMAIN replacement = 1..Len(replacement)
            BY <1>1
      <4>. HIDE DEF q
      <4>2. ASSUME NEW i \in DOMAIN q PROVE q[i] \in Range(replacement) \cup {cursor}
        <5>1. i \in 1..Len(replacement) \/ i = Len(replacement) + 1
              BY <4>1
        <5>. QED  BY <4>1, <5>1 DEF Range
      <4>3. Range(q) \subseteq Range(replacement) \cup {cursor}
            BY <4>2 DEF Range
      <4>. QED  BY <4>3 DEF q
    <3>. QED  BY <1>1, <3>1, <3>2 DEF NamedOnce
  <2>3. (\E e : FailWith(e)) \/ phase' = "ancestor"
        BY <1>1, <1>5, Climbed DEF AncestorStep
  <2>. QED  BY <2>1, <2>2, <2>3
<1>6. ASSUME NEW answer \in Blocks \cup {None}, RollbackStep(answer)
      PROVE  NamedOnce'
  <2>1. CASE \E e : FailWith(e)
        BY <1>2, <2>1 DEF FailWith, ClearWalk
  <2>2. CASE phase' = "rollback"
    <3>1. rollbacks' = Append(rollbacks, cursor) /\ UNCHANGED replacement
      <4>1. CASE Len(rollbacks) + 1 > MaxReorgDepth
            BY <1>6, <2>2, <4>1 DEF RollbackStep, FailWith
      <4>. QED  BY <1>6, <2>2, <4>1 DEF RollbackStep
    <3>2. ASSUME NEW i \in 1..Len(rollbacks) PROVE rollbacks[i] # cursor
      <4>1. Descends(tip, rollbacks, cursor)
            BY <1>6 DEF RollbackStep, SessionInv, WalkInOrder
      <4>2. Height[rollbacks[i]] = Height[cursor] + 1 + (Len(rollbacks) - i)
            BY <4>1 DEF Descends
      <4>3. Height[cursor] \in Nat /\ Len(rollbacks) \in Nat
            BY <1>1, HeightAssumption
      <4>. QED  BY <4>2, <4>3
    <3>. DEFINE n == Len(rollbacks)
                q == Append(rollbacks, cursor)
    <3>3. n \in Nat /\ Len(q) = n + 1 /\ q[n + 1] = cursor /\ \A i \in 1..n : q[i] = rollbacks[i]
          BY <1>1
    <3>4. rollbacks' = q
          BY <3>1
    <3>5. \A i, j \in 1..n : rollbacks[i] = rollbacks[j] => i = j
          BY DEF NamedOnce
    <3>. HIDE DEF n, q
    <3>6. \A i \in 1..n + 1 : i \in 1..n \/ i = n + 1
          BY <3>3
    <3>7. \A i \in 1..n : q[i] # cursor
          BY <3>2, <3>3 DEF n
    <3>8. \A i, j \in 1..n + 1 : q[i] = q[j] => i = j
          BY <3>3, <3>5, <3>6, <3>7
    <3>. QED  BY <1>1, <3>1, <3>3, <3>4, <3>8 DEF NamedOnce, Range
  <2>3. (\E e : FailWith(e)) \/ phase' = "rollback"
        BY <1>1, <1>6, Climbed DEF RollbackStep
  <2>. QED  BY <2>1, <2>2, <2>3
<1>7. CASE RollbackDone
  <2>1. CASE cursor # ancestor
        BY <1>2, <1>7, <2>1 DEF RollbackDone, FailWith, ClearWalk
  <2>2. CASE cursor = ancestor
    <3>1. rollbacks' = rollbacks /\ replacement' = Reverse(replacement)
          BY <1>7, <2>2 DEF RollbackDone, Return
    <3>2. Range(Reverse(replacement)) = Range(replacement)
          BY <1>1, <1>7, <2>2, PathUpwards DEF RollbackDone, SessionInv, WalkInOrder
    <3>. QED  BY <1>1, <3>1, <3>2 DEF NamedOnce
  <2>. QED  BY <2>1, <2>2
<1>. QED  BY <1>4, <1>5, <1>6, <1>7 DEF Walk

LEMMA StartupNamesOnce ==
    ASSUME StartupInv, NamedOnce, [StartupNext]_allVars
    PROVE  NamedOnce'
<1>1. CASE rollbacks' = <<>> /\ replacement' = <<>>
      BY <1>1 DEF NamedOnce, Range
<1>2. CASE UNCHANGED <<replacement, rollbacks, canonical>>
      BY <1>2 DEF NamedOnce, Range
<1>3. CASE stage = "up" /\ SessionNext
  <2>1. SessionInv
        BY <1>3 DEF StartupInv, SessionInv
  <2>2. CASE Persist \/ \E f \in FinalizedHeights : SetFinalizedHeight(f)
        BY <1>1, <1>2, <2>2 DEF Persist, ClearWalk, SetFinalizedHeight, walk
  <2>. QED  BY <1>3, <2>1, <2>2, CallNamesOnce, WalkNamesOnce DEF SessionNext
<1>4. CASE CommitReconciliation
  <2>1. replacement = <<>> /\ rollbacks = <<>>
        BY <1>4 DEF CommitReconciliation, StartupInv, NothingKept, WalkInOrder
  <2>. QED  BY <1>1, <1>4, <2>1 DEF CommitReconciliation, chainVars, walk
<1>5. CASE ReconcileToHead /\ ~CommitReconciliation
      BY <1>2, <1>5 DEF ReconcileToHead, ReadHead, CommonFound, WalkBack, CompareFails, FetchBlock,
         FetchFails, CallFails, ReconcileFails, StartSession, sessionVars, vars, chainVars, walk
<1>6. CASE Die
      BY <1>1, <1>6 DEF Die, Drop, ClearWalk
<1>7. CASE UNCHANGED allVars
      BY <1>2, <1>7 DEF allVars, sessionVars, vars, chainVars, walk
<1>. QED  BY <1>3, <1>4, <1>5, <1>6, <1>7 DEF StartupNext

\* No block twice in a batch: two rollbacks differ by NamedOnce, two applies in their
\* height, and a rollback is canonical where an apply is not.
LEMMA BatchNamesOnce ==
    ASSUME NEW old, ChainShape, BatchOnRows(old), NamedOnce, phase = "returned"
    PROVE  IsInjective(rollbacks \o replacement)
<1>. DEFINE n == Len(rollbacks)
            m == Len(replacement)
            q == rollbacks \o replacement
<1>1. rollbacks \in Seq(Blocks) /\ replacement \in Seq(Blocks) /\ canonical \subseteq Blocks
      BY DEF ChainShape
<1>2. /\ n \in Nat /\ m \in Nat /\ DOMAIN q = 1..n + m
      /\ \A i \in 1..n : q[i] = rollbacks[i]
      /\ \A i \in n + 1..n + m : q[i] = replacement[i - n]
      BY <1>1
<1>3. \A i, j \in 1..n : rollbacks[i] = rollbacks[j] => i = j
      BY DEF NamedOnce
<1>4. \A i, j \in 1..m : replacement[i] = replacement[j] => i = j
  <2>1. CASE old = None
    <3>1. m = 1
          BY <1>1, <2>1 DEF BatchOnRows
    <3>. HIDE DEF m
    <3>. QED  BY <3>1
  <2>2. CASE old # None
    <3>1. /\ ancestor \in canonical
          /\ \A i \in 1..m : Height[replacement[i]] = Height[ancestor] + i
          BY <2>2 DEF BatchOnRows
    <3>2. Height[ancestor] \in Nat
          BY <1>1, <3>1, HeightAssumption
    <3>3. ASSUME NEW i \in 1..m, NEW j \in 1..m, replacement[i] = replacement[j]
          PROVE  i = j
      <4>1. Height[ancestor] + i = Height[ancestor] + j
            BY <3>1, <3>3
      <4>. QED  BY <3>2, <4>1
    <3>. QED  BY <3>3
  <2>. QED  BY <2>1, <2>2
<1>5. ASSUME NEW i \in 1..n, NEW j \in 1..m PROVE rollbacks[i] # replacement[j]
  <2>1. rollbacks[i] \in Range(rollbacks) /\ replacement[j] \in Range(replacement)
        BY <1>1 DEF Range
  <2>2. Range(rollbacks) \subseteq canonical
        BY BatchIsTaken
  <2>. QED  BY <2>1, <2>2 DEF NamedOnce
<1>. HIDE DEF n, m, q
<1>6. ASSUME NEW i \in 1..n + m, NEW j \in 1..n + m, q[i] = q[j] PROVE i = j
  <2>1. (i \in 1..n \/ i \in n + 1..n + m) /\ (j \in 1..n \/ j \in n + 1..n + m)
        BY <1>2
  <2>2. CASE i \in 1..n /\ j \in 1..n
        BY <1>2, <1>3, <1>6, <2>2
  <2>3. CASE i \in n + 1..n + m /\ j \in n + 1..n + m
    <3>1. i - n \in 1..m /\ j - n \in 1..m
          BY <1>2, <2>3
    <3>2. i - n = j - n
          BY <1>2, <1>4, <1>6, <2>3, <3>1
    <3>. QED  BY <1>2, <3>2
  <2>4. CASE i \in 1..n /\ j \in n + 1..n + m
    <3>1. j - n \in 1..m
          BY <1>2, <2>4
    <3>. QED  BY <1>2, <1>5, <1>6, <2>4, <3>1
  <2>5. CASE j \in 1..n /\ i \in n + 1..n + m
    <3>1. i - n \in 1..m
          BY <1>2, <2>5
    <3>. QED  BY <1>2, <1>5, <1>6, <2>5, <3>1
  <2>. QED  BY <2>1, <2>2, <2>3, <2>4, <2>5
<1>. QED  BY <1>2, <1>6 DEF IsInjective, q

\* The writer never meets a rolled back block that is not canonical, an applied block
\* whose height is taken, a rollback without an anchor or a block named twice.
THEOREM RowsTakeTheBatch == StartupSpec => []BatchFitsRows
<1>. DEFINE Inv == StartupInv /\ NamedOnce
<1>1. StartupInit => Inv
  <2>1. StartupInit => NamedOnce
        BY DEF StartupInit, NoSession, NamedOnce, Range
  <2>. QED  BY <2>1, StartupBegins
<1>2. Inv /\ [StartupNext]_allVars => Inv'
      BY StartupStep, StartupNamesOnce
<1>3. Inv => BatchFitsRows
  <2>. SUFFICES ASSUME StartupInv, NamedOnce, phase = "returned"
                PROVE  /\ ancestor = None => rollbacks = <<>>
                       /\ IsInjective(rollbacks \o replacement)
                       /\ Range(rollbacks) \subseteq canonical
                       /\ \A b \in canonical \ Range(rollbacks), c \in Range(replacement) :
                              Height[b] # Height[c]
       BY DEF BatchFitsRows
  <2>1. ChainShape /\ BatchOnRows(before) /\ canonical \subseteq Blocks
        BY DEF StartupInv, Shape, ChainShape, SessionOnRows, NothingKept
  <2>2. ancestor = None => rollbacks = <<>>
        BY <2>1, NoneAssumption DEF BatchOnRows
  <2>3. IsInjective(rollbacks \o replacement)
        BY <2>1, BatchNamesOnce
  <2>. QED  BY <2>1, <2>2, <2>3, BatchIsTaken
<1>. QED  BY <1>1, <1>2, <1>3, PTL DEF StartupSpec

\* Between calls the rows are one chain and the tip in memory is its top, except
\* after a batch that only rolled back.
THEOREM TipIsDurableTop == StartupSpec => []TipFollowsDurable
<1>1. StartupInv => TipFollowsDurable
      BY DEF StartupInv, RowsAreChain, SessionOnRows, MemoryFollows, NothingKept, TipFollowsDurable
<1>. QED  BY <1>1, StartupSafe, PTL

\* A set of rows of one chain between two heights has no more members than there
\* are heights.
LEMMA RowsBetween ==
    ASSUME NEW S \in SUBSET Blocks, OneChain(S), NEW T \in SUBSET S, NEW low \in Nat, NEW k \in Nat,
           \A b \in T : low < Height[b] /\ Height[b] <= low + k
    PROVE  Cardinality(T) \in Nat /\ Cardinality(T) <= k
<1>. DEFINE f == [b \in T |-> Height[b]]
            I == low + 1..low + k
<1>1. \A b \in T : Height[b] \in Nat
      BY HeightAssumption
<1>2. f \in Injection(T, I)
  <2>1. \A b \in T : Height[b] \in I
        BY <1>1
  <2>2. \A b, c \in T : Height[b] = Height[c] => b = c
        BY DEF OneChain
  <2>. HIDE DEF I
  <2>. QED  BY <2>1, <2>2 DEF Injection, IsInjective
<1>3. IsFiniteSet(I) /\ Cardinality(I) = k
  <2>1. low + 1 \in Int /\ low + k \in Int
        OBVIOUS
  <2>2. /\ IsFiniteSet(low + 1..low + k)
        /\ Cardinality(low + 1..low + k)
             = IF low + 1 > low + k THEN 0 ELSE (low + k) - (low + 1) + 1
        BY <2>1, FS_Interval
  <2>. QED  BY <2>2
<1>4. IsFiniteSet(T) /\ Cardinality(T) <= Cardinality(I)
      BY <1>2, <1>3, FS_Injection
<1>5. Cardinality(T) \in Nat
      BY <1>4, FS_CardinalityType
<1>. QED  BY <1>3, <1>4, <1>5

\* A reconciliation replaces a top part of the rows, bounded by the depth it may
\* walk back and by a head below the checkpoint.
THEOREM OnlyTheTopIsReplaced == StartupSpec => ReconciliationReplacesTop
<1>. DEFINE lost == canonical \ canonical'
            kept == canonical \cap canonical'
            cut == {b \in canonical : Height[b] > goal}
            Replaced == /\ OneChain(canonical')
                        /\ \E top \in canonical' : IsTop(top, canonical') /\ Height[top] = goal
                        /\ \A b \in lost, c \in kept : Height[c] < Height[b]
                        /\ Cardinality(lost \ cut) <= MaxWalkBack
                        /\ canonical # {} => kept # {}
<1>1. ASSUME StartupInv, [StartupNext]_allVars, canonical' # canonical, stage # "up"
      PROVE  Replaced
  <2>1. CommitReconciliation
        BY <1>1, TwoTransactions
  <2>2. /\ Shape /\ RowsAreChain /\ ReconcileInOrder /\ stage = "blocks"
        /\ canonical' = (canonical \ RowsAboveCommon) \cup Range(fetched)
        BY <1>1, <2>1 DEF StartupInv, CommitReconciliation
  <2>3. /\ OneChain(canonical')
        /\ \E top \in canonical' : IsTop(top, canonical') /\ Height[top] = goal
        BY <2>1, <2>2, Reconciled
  <2>4. /\ canonical \in SUBSET Blocks /\ OneChain(canonical) /\ goal \in Nat /\ walked \in Nat
        /\ walked <= MaxWalkBack /\ MaxWalkBack \in Nat /\ fetched \in Seq(Blocks)
        /\ \A b \in canonical : Height[b] \in Nat
        BY <2>2, StartupAssumption, HeightAssumption DEF Shape, ChainShape, RowsAreChain
  <2>5. CASE common = None
    <3>1. canonical = {}
          BY <2>2, <2>5 DEF ReconcileInOrder
    <3>2. lost = {} /\ lost \ cut = {}
          BY <3>1
    <3>3. Cardinality({}) = 0
          BY FS_EmptySet
    <3>. QED  BY <2>3, <2>4, <3>1, <3>2, <3>3
  <2>6. CASE common # None
    <3>1. /\ common \in canonical /\ WalkedFrom(Height[common]) /\ FetchedFollows
          /\ Height[common] \in Nat /\ Base = Height[common] + 1
          BY <2>2, <2>4, <2>6 DEF ReconcileInOrder, Base
    <3>2. ASSUME NEW b \in lost PROVE b \in canonical /\ Height[b] > Height[common] /\ b \notin Range(fetched)
          BY <2>2, <2>6, <3>2 DEF RowsAboveCommon
    <3>3. common \in kept
          BY <2>2, <2>4, <2>6, <3>1 DEF RowsAboveCommon
    <3>4. Cardinality(lost \ cut) <= MaxWalkBack
      <4>1. \A b \in lost \ cut : Height[common] < Height[b] /\ Height[b] <= Height[common] + walked
            BY <2>4, <3>1, <3>2 DEF WalkedFrom
      <4>2. Cardinality(lost \ cut) \in Nat /\ Cardinality(lost \ cut) <= walked
        <5>1. lost \ cut \in SUBSET canonical
              OBVIOUS
        <5>. HIDE DEF lost, cut
        <5>. QED  BY <2>4, <3>1, <4>1, <5>1, RowsBetween
      <4>. QED  BY <2>4, <4>2
    <3>5. ASSUME NEW b \in lost, NEW c \in kept PROVE Height[c] < Height[b]
      <4>1. CASE Height[c] <= Height[common]
            BY <2>4, <3>1, <3>2, <3>5, <4>1
      <4>2. CASE Height[c] > Height[common]
        <5>1. c \in Range(fetched) /\ c \in canonical
              BY <2>2, <2>6, <3>5, <4>2 DEF RowsAboveCommon
        <5>2. PICK n \in 1..Len(fetched) : c = fetched[n]
              BY <2>4, <5>1 DEF Range
        <5>3. \A i \in 1..Len(fetched) : Height[fetched[i]] = Height[common] + i
          <6>1. ASSUME NEW i \in 1..Len(fetched) PROVE Height[fetched[i]] = Height[common] + i
            <7>1. Height[fetched[i]] = Base + i - 1
                  BY <3>1 DEF FetchedFollows
            <7>. QED  BY <3>1, <7>1
          <6>. QED  BY <6>1
        <5>4. \A i \in 1..Len(fetched) - 1 : Parent[fetched[i + 1]] = fetched[i]
              BY <3>1 DEF FetchedFollows
        <5>5. SUFFICES ASSUME ~(Height[c] < Height[b]) PROVE FALSE
              OBVIOUS
        <5>. DEFINE m == Height[b] - Height[common]
        <5>6. m \in 1..n /\ Height[b] = Height[common] + m
          <6>1. Height[c] = Height[common] + n
                BY <5>2, <5>3
          <6>2. Height[b] \in Nat /\ Height[b] > Height[common]
                BY <2>4, <3>2, <3>5
          <6>. QED  BY <3>1, <5>5, <6>1, <6>2
        <5>. HIDE DEF m
        <5>7. fetched[m] \in canonical
              BY <2>4, <3>1, <5>1, <5>2, <5>3, <5>4, <5>6, FetchedRowsBelow
        <5>8. m \in 1..Len(fetched)
              BY <2>4, <5>6
        <5>9. Height[fetched[m]] = Height[b] /\ fetched[m] \in Range(fetched)
              BY <2>4, <5>3, <5>6, <5>8 DEF Range
        <5>10. b = fetched[m]
              BY <2>4, <3>2, <3>5, <5>7, <5>9 DEF OneChain
        <5>. QED  BY <3>2, <3>5, <5>9, <5>10
      <4>. QED  BY <2>4, <3>1, <3>5, <4>1, <4>2
    <3>. QED  BY <2>3, <3>3, <3>4, <3>5
  <2>. QED  BY <2>5, <2>6
<1>2. StartupInv /\ [StartupNext]_allVars
          => [canonical' # canonical /\ stage # "up" => Replaced]_allVars
      BY <1>1
<1>. QED  BY <1>2, StartupSafe, PTL DEF StartupSpec, ReconciliationReplacesTop
-----------------------------------------------------------------------------
(* The rows as a ledger. *)

\* The chain operators of the two modules are the same.
LEMMA SameChains ==
    /\ \A S : Ledger!OneChain(S) <=> OneChain(S)
    /\ \A b, S : Ledger!IsTop(b, S) <=> IsTop(b, S)
BY DEF Ledger!OneChain, Ledger!IsTop, Ledger!Links, OneChain, IsTop, Links

LEMMA RowsAreLedger ==
    StartupInv => Ledger!IsLedger
<1>. SUFFICES ASSUME StartupInv PROVE Ledger!IsLedger
     OBVIOUS
<1>1. canonical \subseteq Blocks /\ RowsAreChain
      BY DEF StartupInv, Shape, ChainShape
<1>2. canonical # {} => IsTop(Checkpoint, canonical) /\ OneChain(canonical)
      BY <1>1, CheckpointIsTop DEF RowsAreChain
<1>. QED  BY <1>1, <1>2, SameChains DEF Ledger!IsLedger, CheckpointRow

\* A batch of the session or of a reconciliation that changes the rows.
LEMMA LedgerGrows ==
    ASSUME StartupInv, [StartupNext]_allVars, canonical' # canonical, Ledger!IsLedger'
    PROVE  Ledger!Begin \/ \E a \in canonical : Ledger!Graft(a)
<1>s. ChainShape /\ RowsAreChain /\ canonical \subseteq Blocks /\ canonical' \subseteq Blocks
      BY DEF StartupInv, Shape, ChainShape, Ledger!IsLedger
<1>b. ASSUME canonical = {}, \E b \in canonical' : Height[b] = 0, finalized' = finalized
      PROVE  Ledger!Begin
      BY <1>b DEF Ledger!Begin
<1>g. ASSUME NEW a \in canonical, finalized' = finalized,
             \A b \in Blocks : Height[b] <= Height[a] => (b \in canonical' <=> b \in canonical),
             Height[a] < finalized => canonical \subseteq canonical'
      PROVE  Ledger!Graft(a)
  <2>1. Ledger!UpTo(canonical', a) = Ledger!UpTo(canonical, a)
        BY <1>g, <1>s DEF Ledger!UpTo
  <2>. QED  BY <1>g, <2>1 DEF Ledger!Graft
<1>1. CASE stage = "up" /\ Persist
  <2>1. /\ phase = "returned" /\ canonical' = CanonicalAfter /\ finalized' = finalized
        /\ BatchOnRows(before) /\ BatchIsPath(before)
        BY <1>1 DEF StartupInv, SessionOnRows, ReturnedBatchIsPath, Persist, memory
  <2>2. CASE before = None
    <3>1. /\ canonical = {} /\ replacement = <<head>> /\ Height[head] = 0
          BY <2>1, <2>2 DEF BatchOnRows
    <3>2. head \in canonical'
      <4>1. Range(<<head>>) = {head}
            BY DEF Range
      <4>. QED  BY <2>1, <3>1, <4>1 DEF CanonicalAfter
    <3>. QED  BY <1>b, <2>1, <3>1, <3>2
  <2>3. CASE before # None
    <3>1. rollbacks # <<>> \/ replacement # <<>>
          BY <2>1 DEF CanonicalAfter, Range
    <3>2. /\ ancestor \in canonical
          /\ \A b \in Blocks : Height[b] <= Height[ancestor] => (b \in canonical' <=> b \in canonical)
          /\ Height[ancestor] < finalized => canonical \subseteq canonical'
          BY <1>s, <2>1, <2>3, <3>1, BatchIsGraft
    <3>. QED  BY <1>g, <2>1, <3>2
  <2>. QED  BY <2>2, <2>3
<1>2. CASE CommitReconciliation
  <2>1. /\ stage = "blocks" /\ canonical' = (canonical \ RowsAboveCommon) \cup Range(fetched)
        /\ finalized' = finalized /\ finalized = 0 /\ FetchedFollows /\ fetched \in Seq(Blocks)
        /\ common = None <=> canonical = {}
        /\ common # None => common \in canonical
        BY <1>2 DEF CommitReconciliation, StartupInv, Shape, NothingKept, ReconcileInOrder,
           chainVars, memory
  <2>2. CASE common = None
    <3>1. canonical = {} /\ fetched # <<>>
          BY <2>1, <2>2 DEF Range
    <3>2. 1 \in 1..Len(fetched) /\ 1 \in DOMAIN fetched
          BY <2>1, <3>1
    <3>3. Height[fetched[1]] = 0 /\ fetched[1] \in canonical'
      <4>1. Base = 0 /\ Height[fetched[1]] = Base + 1 - 1
            BY <2>1, <2>2, <3>2 DEF FetchedFollows, Base
      <4>. QED  BY <2>1, <3>2, <4>1 DEF Range
    <3>. QED  BY <1>b, <2>1, <3>1, <3>3
  <2>3. CASE common # None
    <3>1. /\ common \in canonical /\ Height[common] \in Nat /\ Base = Height[common] + 1
          /\ RowsAboveCommon = {b \in canonical : Height[b] > Height[common]}
          /\ \A b \in Blocks : Height[b] \in Nat
          BY <1>s, <2>1, <2>3, HeightAssumption DEF Base, RowsAboveCommon
    <3>2. ASSUME NEW b \in Range(fetched) PROVE Height[b] > Height[common]
      <4>1. PICK i \in 1..Len(fetched) : b = fetched[i]
            BY <2>1 DEF Range
      <4>2. Height[b] = Base + i - 1
            BY <2>1, <4>1 DEF FetchedFollows
      <4>. QED  BY <3>1, <4>2
    <3>3. ASSUME NEW b \in Blocks, Height[b] <= Height[common]
          PROVE  b \in canonical' <=> b \in canonical
      <4>1. b \notin Range(fetched) /\ b \notin RowsAboveCommon
            BY <3>1, <3>2, <3>3
      <4>. QED  BY <2>1, <4>1
    <3>4. ~(Height[common] < finalized)
          BY <2>1, <3>1
    <3>. QED  BY <1>g, <2>1, <3>1, <3>3, <3>4
  <2>. QED  BY <2>2, <2>3
<1>. QED  BY <1>1, <1>2, TwoTransactions

\* Sessions, deaths and startups, taken together, implement the ledger: every COMMIT
\* of apply_batch is one step of it, and nothing else changes the rows.
THEOREM StartupImplementsLedger == StartupSpec => ImplementsLedger
<1>1. StartupInit => Ledger!Init
  <2>. SUFFICES ASSUME StartupInit PROVE Ledger!Init
       OBVIOUS
  <2>1. Ledger!IsLedger
        BY StartupBegins, RowsAreLedger
  <2>. QED  BY <2>1 DEF StartupInit, NoSession, Ledger!Init
<1>2. StartupInv /\ Ledger!IsLedger' /\ StartupInv' /\ [StartupNext]_allVars
          => [Ledger!Next]_(Ledger!ledger)
  <2>. SUFFICES ASSUME StartupInv, Ledger!IsLedger', StartupInv', [StartupNext]_allVars
                PROVE  [Ledger!Next]_(Ledger!ledger)
       OBVIOUS
  <2>1. CASE canonical' = canonical
    <3>1. CheckpointRow' = CheckpointRow
          BY <2>1 DEF CheckpointRow, Checkpoint, IsTop
    <3>2. finalized' \in Nat
          BY DEF StartupInv, Shape, ChainShape
    <3>. QED  BY <2>1, <3>1, <3>2 DEF Ledger!Next, Ledger!SetFloor
  <2>2. CASE canonical' # canonical
        BY <2>2, LedgerGrows DEF Ledger!Next
  <2>. QED  BY <2>1, <2>2
<1>. QED  BY <1>1, <1>2, StartupSafe, RowsAreLedger, PTL
     DEF StartupSpec, ImplementsLedger, Ledger!Spec

\* A ledger loses nothing that is final: a graft below the floor keeps every row, one
\* at or above it keeps those up to the block it starts from.
LEMMA LedgerKeepsFinal == Ledger!Spec => Ledger!NothingFinalIsLost
<1>. DEFINE Final == \A b \in canonical : Height[b] <= finalized => b \in canonical'
            Sound == canonical \subseteq Blocks /\ finalized \in Nat
<1>1. Ledger!Init => Sound
      BY DEF Ledger!Init, Ledger!IsLedger
<1>2. Sound /\ [Ledger!Next]_(Ledger!ledger) => Sound'
      BY DEF Ledger!Next, Ledger!SetFloor, Ledger!Begin, Ledger!Graft, Ledger!IsLedger,
         Ledger!ledger
<1>3. Sound /\ [Ledger!Next]_(Ledger!ledger) => [Final]_(Ledger!ledger)
  <2>. SUFFICES ASSUME Sound, Ledger!Next, NEW b \in canonical, Height[b] <= finalized
                PROVE  b \in canonical'
       OBVIOUS
  <2>1. CASE Ledger!SetFloor \/ Ledger!Begin
        BY <2>1 DEF Ledger!SetFloor, Ledger!Begin
  <2>2. ASSUME NEW a \in canonical, Ledger!Graft(a)
        PROVE  b \in canonical'
    <3>1. CASE Height[a] < finalized
          BY <2>2, <3>1 DEF Ledger!Graft
    <3>2. CASE ~(Height[a] < finalized)
      <4>1. Height[a] \in Nat /\ Height[b] \in Nat
            BY HeightAssumption
      <4>2. Height[b] <= Height[a]
            BY <3>2, <4>1
      <4>. QED  BY <2>2, <4>2 DEF Ledger!Graft, Ledger!UpTo
    <3>. QED  BY <3>1, <3>2
  <2>. QED  BY <2>1, <2>2 DEF Ledger!Next
<1>. QED  BY <1>1, <1>2, <1>3, PTL DEF Ledger!Spec, Ledger!NothingFinalIsLost

\* Nothing at or below the finalized height stops being canonical: what a ledger
\* promises, said of the session's rows.
THEOREM NothingFinalizedIsLost == StartupSpec => FinalizedStays
<1>. DEFINE Final == \A b \in canonical : Height[b] <= finalized => b \in canonical'
<1>1. [Final]_(Ledger!ledger) => [Final]_sessionVars
      BY DEF Ledger!ledger
<1>. QED  BY <1>1, StartupImplementsLedger, LedgerKeepsFinal, PTL
     DEF ImplementsLedger, Ledger!NothingFinalIsLost, FinalizedStays
=============================================================================
