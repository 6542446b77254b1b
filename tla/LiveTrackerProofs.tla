------------------------- MODULE LiveTrackerProofs -------------------------
(***************************************************************************)
(* Proofs about a reconciliation of the live tracker, for every block tree *)
(* and every number of provider moves and faults: the durable rows stay    *)
(* one chain below the checkpoint, a batch leads from the checkpoint to    *)
(* the observed head, a run that reports Ready has caught up, and nothing  *)
(* finalized is rolled back; taken together, the rows and the checkpoint   *)
(* are a ledger.  All of it but the types starts from a database without   *)
(* rows above its checkpoint (Overhang = 0): live_after_rerun shows what   *)
(* happens otherwise.                                                      *)
(***************************************************************************)
EXTENDS LiveTracker, ChainStateProofs

\* The types the argument needs.
LiveShape ==
    /\ ChainShape
    /\ remote \in Heads /\ boundary \in FinalizedHeights
    /\ checkpoint \in Blocks \cup {None} /\ observed \in Blocks \cup {None}
    /\ number \in Nat /\ next \in Nat
    /\ pc \in {"idle", "stopped", "number", "header", "compare", "behind", "catchUp",
               "fromStart", "seed", "apply", "walk", "commit"}

\* The coordinator of the catch-up stands on the checkpoint.
CatchUpFollows == anchor = checkpoint /\ next = Height[checkpoint] + 1

\* Where a run stands.  The sink's own anchor is the checkpoint throughout, which
\* is what stops a catch-up from height 0 that began because the checkpoint could
\* not be read; and no run comes to ask ChainState without a checkpoint.
RunInOrder ==
    /\ pc = "idle" => ~again
    /\ pc \notin {"idle", "stopped"} => sinkAnchor = checkpoint
    /\ pc \notin {"idle", "stopped", "number", "header"} => observed \in Blocks
    /\ pc \in {"number", "header"} /\ again => checkpoint # None
    /\ pc \in {"behind", "catchUp", "seed", "apply", "walk", "commit"} => checkpoint # None
    /\ pc = "catchUp" => CatchUpFollows
    /\ pc = "fromStart" => (anchor = None /\ next = 0) \/ (checkpoint # None /\ CatchUpFollows)

\* There is no ChainState, or it is asked about the observed head on behalf of the
\* checkpoint.
HandOver ==
    /\ pc \notin {"apply", "walk", "commit", "stopped"} =>
           phase = "idle" /\ replacement = <<>> /\ rollbacks = <<>> /\ ancestor = None
    /\ pc \in {"apply", "walk", "commit"} => CallInv(checkpoint) /\ finalized = boundary
    /\ pc = "apply" => phase = "idle" /\ known = {checkpoint}
    /\ pc = "walk" => phase \in {"ancestor", "rollback"} /\ head = observed
    /\ pc = "commit" =>
           /\ phase = "returned" /\ head = observed
           /\ rollbacks = <<>> => ancestor = checkpoint

LiveInv == LiveShape /\ CanonicalIsChain /\ RunInOrder /\ HandOver
-----------------------------------------------------------------------------
(* Steps that leave the rows alone. *)

\* A run that ends keeps nothing but the rows.
LEMMA RunLeft ==
    ASSUME LiveInv, NEW where \in {"idle", "stopped"}, NEW outcome, Leave(where, outcome),
           UNCHANGED world, CanonicalIsChain', canonical' \subseteq Blocks,
           checkpoint' \in Blocks \cup {None}
    PROVE  LiveInv'
<1>1. LiveShape'
  <2>1. ChainShape'
        BY DEF Leave, Forget, Drop, ClearWalk, ChainShape
  <2>. QED  BY <2>1 DEF LiveInv, LiveShape, Leave, Forget, world
<1>2. RunInOrder'
      BY DEF RunInOrder, Leave, Forget
<1>3. HandOver'
      BY DEF HandOver, Leave, Forget, Drop, ClearWalk
<1>. QED  BY <1>1, <1>2, <1>3 DEF LiveInv

LEMMA RunStopped ==
    ASSUME LiveInv, NEW where \in {"idle", "stopped"}, NEW outcome, Leave(where, outcome),
           UNCHANGED <<world, durable>>
    PROVE  LiveInv'
<1>1. CanonicalIsChain' /\ canonical' \subseteq Blocks /\ checkpoint' \in Blocks \cup {None}
      BY DEF LiveInv, LiveShape, ChainShape, CanonicalIsChain, OneChain, IsTop, durable
<1>2. UNCHANGED world
      OBVIOUS
<1>. QED  BY <1>1, <1>2, RunLeft

\* A step of a run before there is a ChainState.
LEMMA RunGoesOn ==
    ASSUME LiveInv, UNCHANGED <<chainVars, durable, world>>,
           pc \notin {"apply", "walk", "commit", "stopped"},
           pc' \in {"number", "header", "compare", "behind", "catchUp", "fromStart", "seed"},
           number' \in Nat, next' \in Nat, observed' \in Blocks \cup {None},
           RunInOrder'
    PROVE  LiveInv'
<1>1. CanonicalIsChain'
      BY DEF LiveInv, CanonicalIsChain, OneChain, IsTop, durable
<1>2. LiveShape'
      BY DEF LiveInv, LiveShape, ChainShape, chainVars, memory, walk, durable, world
<1>3. HandOver'
      BY DEF LiveInv, HandOver, chainVars, memory, walk
<1>. QED  BY <1>1, <1>2, <1>3 DEF LiveInv

\* The checkpoint's name for what a call was made at.
LEMMA CallOfCheckpoint ==
    ASSUME NEW old, CallInv(old)', checkpoint' = old
    PROVE  CallInv(checkpoint)'
BY DEF CallInv, BatchIsPath, MemoryOnRows, BatchOnRows

\* The provider moves, or nothing happens.
LEMMA RunWaits ==
    ASSUME LiveInv, remote' \in Heads,
           UNCHANGED <<boundary, chainVars, durable, pc, tracker>>
    PROVE  LiveInv'
<1>1. CanonicalIsChain'
      BY DEF LiveInv, CanonicalIsChain, OneChain, IsTop, durable
<1>2. LiveShape'
      BY DEF LiveInv, LiveShape, ChainShape, chainVars, memory, walk, durable, tracker
<1>3. RunInOrder'
      BY DEF LiveInv, RunInOrder, CatchUpFollows, durable, tracker
<1>4. CallInv(checkpoint) => CallInv(checkpoint)'
      BY DEF CallInv, ChainShape, WalkInOrder, BatchIsPath, RowsAreChain, OneChain, IsTop,
             MemoryOnRows, RollbackOnRows, BatchOnRows, CanonicalAfter,
             chainVars, memory, walk, durable
<1>5. HandOver'
      BY <1>4 DEF LiveInv, HandOver, chainVars, memory, walk, durable, tracker
<1>. QED  BY <1>1, <1>2, <1>3, <1>5 DEF LiveInv
-----------------------------------------------------------------------------
(* The head, the comparison and the catch-up. *)

LEMMA HeadStep ==
    ASSUME LiveInv, Start \/ ReadNumber \/ ReadHeader
    PROVE  LiveInv'
<1>s. LiveShape /\ RunInOrder
      BY DEF LiveInv
<1>1. CASE Start
  <2>1. RunInOrder' /\ number' \in Nat /\ next' \in Nat /\ observed' \in Blocks \cup {None}
        BY <1>1, <1>s DEF Start, RunInOrder, LiveShape, durable
  <2>. QED  BY <1>1, <2>1, RunGoesOn DEF Start
<1>2. CASE ReadNumber
  <2>1. Height[remote] \in Nat
        BY <1>s, HeadsAssumption, HeightAssumption DEF LiveShape
  <2>2. RunInOrder' /\ number' \in Nat /\ next' \in Nat /\ observed' \in Blocks \cup {None}
        BY <1>2, <1>s, <2>1 DEF ReadNumber, RunInOrder, LiveShape, durable
  <2>. QED  BY <1>2, <2>2, RunGoesOn DEF ReadNumber
<1>3. CASE ReadHeader
  <2>1. observed' \in Blocks
        BY <1>3 DEF ReadHeader, AtHeight
  <2>2. pc' = "seed" => checkpoint # None
        BY <1>3, <1>s DEF ReadHeader, RunInOrder
  <2>3. pc' \in {"seed", "compare"} /\ sinkAnchor' = checkpoint'
        BY <1>3, <1>s DEF ReadHeader, RunInOrder, durable
  <2>4. RunInOrder' /\ number' \in Nat /\ next' \in Nat
        BY <1>3, <1>s, <2>1, <2>2, <2>3 DEF ReadHeader, RunInOrder, LiveShape, durable
  <2>. QED  BY <1>3, <2>1, <2>3, <2>4, RunGoesOn DEF ReadHeader
<1>. QED  BY <1>1, <1>2, <1>3

LEMMA CompareStep ==
    ASSUME LiveInv, CompareNoCheckpoint \/ CompareSame \/ Compare \/ CompareBehind
    PROVE  LiveInv'
<1>s. LiveShape /\ RunInOrder
      BY DEF LiveInv
<1>1. CASE CompareNoCheckpoint
  <2>1. \/ \E outcome : Leave("stopped", outcome)
        \/ /\ pc' = "fromStart" /\ next' = 0 /\ anchor' = None
           /\ UNCHANGED <<chainVars, report, number, observed, again, sinkAnchor, disagree>>
        BY <1>1 DEF CompareNoCheckpoint, Stop
  <2>2. pc = "compare" /\ UNCHANGED <<durable, world>>
        BY <1>1 DEF CompareNoCheckpoint
  <2>3. CASE \E outcome : Leave("stopped", outcome)
        BY <2>2, <2>3, RunStopped
  <2>4. CASE /\ pc' = "fromStart" /\ next' = 0 /\ anchor' = None
             /\ UNCHANGED <<chainVars, report, number, observed, again, sinkAnchor, disagree>>
    <3>1. RunInOrder' /\ number' \in Nat /\ next' \in Nat /\ observed' \in Blocks \cup {None}
          BY <1>s, <2>2, <2>4 DEF RunInOrder, LiveShape, durable
    <3>. QED  BY <2>2, <2>4, <3>1, RunGoesOn
  <2>. QED  BY <2>1, <2>3, <2>4
<1>2. CASE CompareSame
  <2>1. \E outcome : Leave("idle", outcome)
        BY <1>2 DEF CompareSame, Finish
  <2>. QED  BY <1>2, <2>1, RunStopped DEF CompareSame
<1>3. CASE Compare
  <2>1. observed \in Blocks /\ checkpoint \in Blocks /\ pc = "compare"
        BY <1>3, <1>s DEF Compare, RunInOrder, LiveShape
  <2>2. Height[observed] \in Nat /\ Height[checkpoint] \in Nat
        BY <2>1, HeightAssumption
  <2>3. pc' \in {"behind", "seed", "catchUp"}
        BY <1>3, <2>2 DEF Compare
  <2>4. RunInOrder' /\ number' \in Nat /\ next' \in Nat /\ observed' \in Blocks \cup {None}
        BY <1>3, <1>s, <2>1, <2>2, <2>3 DEF Compare, RunInOrder, CatchUpFollows, LiveShape, durable
  <2>. QED  BY <1>3, <2>1, <2>3, <2>4, RunGoesOn DEF Compare
<1>4. CASE CompareBehind
  <2>1. /\ pc = "behind" /\ UNCHANGED <<durable, world>>
        /\ Leave("idle", "Degraded") \/ (pc' = "seed" /\ UNCHANGED <<chainVars, tracker, report>>)
        BY <1>4 DEF CompareBehind
  <2>2. CASE Leave("idle", "Degraded")
        BY <2>1, <2>2, RunStopped
  <2>3. CASE pc' = "seed" /\ UNCHANGED <<chainVars, tracker, report>>
    <3>1. RunInOrder' /\ number' \in Nat /\ next' \in Nat /\ observed' \in Blocks \cup {None}
          BY <1>s, <2>1, <2>3 DEF RunInOrder, LiveShape, durable, tracker
    <3>. QED  BY <2>1, <2>3, <3>1, RunGoesOn
  <2>. QED  BY <2>1, <2>2, <2>3
<1>. QED  BY <1>1, <1>2, <1>3, <1>4

\* The block does not follow the anchor: read the head once more.
LEMMA HeadReadAgain ==
    ASSUME LiveInv, pc = "catchUp", ReconcileCurrentHead, UNCHANGED world
    PROVE  LiveInv'
<1>1. RunInOrder' /\ number' \in Nat /\ next' \in Nat /\ observed' \in Blocks \cup {None}
      BY DEF LiveInv, LiveShape, RunInOrder, ReconcileCurrentHead, durable
<1>. QED  BY <1>1, RunGoesOn DEF ReconcileCurrentHead

\* A block that the sink takes follows the checkpoint, or is the first.
LEMMA TakenFollows ==
    ASSUME LiveInv, pc \in {"catchUp", "fromStart"}, NEW b \in Blocks, Height[b] = next,
           anchor = None \/ Links(b, anchor), SinkTakes(b)
    PROVE  IF checkpoint = None THEN next = 0
           ELSE Links(b, checkpoint) /\ anchor = checkpoint
<1>s. LiveShape /\ RunInOrder /\ sinkAnchor = checkpoint
      BY DEF LiveInv, RunInOrder
<1>1. CASE checkpoint = None
  <2>1. anchor = None /\ next = 0
        BY <1>1, <1>s DEF RunInOrder
  <2>. QED  BY <1>1, <2>1
<1>2. CASE checkpoint # None
  <2>1. checkpoint \in Blocks /\ Height[checkpoint] \in Nat /\ Height[b] # 0
        BY <1>2, <1>s, HeightAssumption DEF SinkTakes, LiveShape
  <2>2. CatchUpFollows /\ anchor # None
        BY <1>2, <1>s, <2>1 DEF RunInOrder, CatchUpFollows
  <2>. QED  BY <1>2, <2>2 DEF CatchUpFollows
<1>. QED  BY <1>1, <1>2

\* It becomes the top of the rows.
LEMMA BlockOnTop ==
    ASSUME LiveShape, CanonicalIsChain, NEW b \in Blocks,
           checkpoint # None => Links(b, checkpoint)
    PROVE  OneChain(canonical \cup {b}) /\ IsTop(b, canonical \cup {b})
<1>h. Height[b] \in Nat
      BY HeightAssumption
<1>1. CASE checkpoint = None
  <2>1. canonical = {}
        BY <1>1 DEF CanonicalIsChain
  <2>. QED  BY <1>h, <2>1 DEF OneChain, IsTop
<1>2. CASE checkpoint # None
  <2>1. /\ checkpoint \in canonical /\ canonical \in SUBSET Blocks /\ OneChain(canonical)
        /\ \A c \in canonical : Height[c] <= Height[checkpoint] /\ Height[c] \in Nat
        BY <1>2, HeightAssumption DEF CanonicalIsChain, IsTop, LiveShape, ChainShape
  <2>2. Above(canonical, checkpoint) = {}
        BY <2>1 DEF Above
  <2>. DEFINE ups == <<b>>
  <2>3. /\ ups \in Seq(Blocks) /\ Len(ups) = 1 /\ ups # <<>> /\ ups[1] = b /\ Last(ups) = b
        /\ Range(ups) = {b}
        BY DEF Last, Range
  <2>. HIDE DEF ups
  <2>4. \A i \in 1..Len(ups) : Height[ups[i]] = Height[checkpoint] + i
    <3>1. \A i \in 1..Len(ups) : i = 1
          BY <2>3
    <3>2. Height[b] = Height[checkpoint] + 1
          BY <1>2 DEF Links
    <3>. QED  BY <2>3, <3>1, <3>2
  <2>5. /\ \A i \in 1..Len(ups) - 1 : Parent[ups[i + 1]] = ups[i]
        /\ Parent[ups[1]] = checkpoint
        BY <1>2, <2>3 DEF Links
  <2>6. /\ OneChain(Graft(canonical, checkpoint, ups))
        /\ IsTop(Last(ups), Graft(canonical, checkpoint, ups))
        BY <2>1, <2>3, <2>4, <2>5, Grafted
  <2>7. Graft(canonical, checkpoint, ups) = canonical \cup {b}
        BY <2>2, <2>3 DEF Graft
  <2>. QED  BY <2>3, <2>6, <2>7
<1>. QED  BY <1>1, <1>2

\* fetch_and_push_height.
LEMMA CatchUpStep ==
    ASSUME LiveInv, FetchAndPushHeight
    PROVE  LiveInv'
<1>s. LiveShape /\ RunInOrder /\ CanonicalIsChain
      BY DEF LiveInv
<1>1. PICK b \in AtHeight(next) : PushHeight(b)
      BY DEF FetchAndPushHeight
<1>2. /\ b \in Blocks /\ Height[b] = next /\ b # None
      /\ pc \in {"catchUp", "fromStart"} /\ UNCHANGED world
      BY NoneAssumption DEF AtHeight, FetchAndPushHeight
<1>3. \/ pc = "catchUp" /\ ReconcileCurrentHead
      \/ Leave("stopped", "error") /\ UNCHANGED durable
      \/ (anchor = None \/ Links(b, anchor)) /\ SinkTakes(b) /\ CommitBlock(b)
      BY <1>1 DEF PushHeight, Stop
<1>4. CASE pc = "catchUp" /\ ReconcileCurrentHead
      BY <1>2, <1>4, HeadReadAgain
<1>5. CASE Leave("stopped", "error") /\ UNCHANGED durable
      BY <1>2, <1>5, RunStopped
<1>6. CASE (anchor = None \/ Links(b, anchor)) /\ SinkTakes(b) /\ CommitBlock(b)
  <2>1. checkpoint # None => Links(b, checkpoint)
        BY <1>2, <1>6, TakenFollows
  <2>2. OneChain(canonical \cup {b}) /\ IsTop(b, canonical \cup {b})
        BY <1>2, <1>s, <2>1, BlockOnTop
  <2>3. canonical' = canonical \cup {b} /\ checkpoint' = b
        BY <1>6 DEF CommitBlock
  <2>4. /\ CanonicalIsChain' /\ canonical' \subseteq Blocks /\ checkpoint' \in Blocks
        BY <1>2, <1>s, <2>2, <2>3 DEF CanonicalIsChain, LiveShape, ChainShape
  <2>5. CASE next = Height[observed]
    <3>1. \E outcome : Leave("idle", outcome)
          BY <1>6, <2>5 DEF CommitBlock, Finish
    <3>. QED  BY <1>2, <2>4, <3>1, RunLeft
  <2>6. CASE next # Height[observed]
    <3>1. /\ next' = next + 1 /\ anchor' = b /\ sinkAnchor' = b
          /\ UNCHANGED <<chainVars, pc, report, number, observed, again, disagree>>
          BY <1>6, <2>6 DEF CommitBlock
    <3>2. LiveShape'
          BY <1>s, <1>2, <2>4, <3>1 DEF LiveShape, ChainShape, chainVars, memory, walk, world
    <3>3. RunInOrder'
          BY <1>s, <1>2, <2>3, <3>1 DEF RunInOrder, CatchUpFollows
    <3>4. HandOver'
          BY <1>2, <3>1 DEF LiveInv, HandOver, chainVars, memory, walk
    <3>. QED  BY <2>4, <3>2, <3>3, <3>4 DEF LiveInv
  <2>. QED  BY <2>5, <2>6
<1>. QED  BY <1>3, <1>4, <1>5, <1>6
-----------------------------------------------------------------------------
(* The hand-over to ChainState. *)

\* from_tip on the checkpoint.
LEMMA Seeded ==
    ASSUME LiveInv, SeedChainState
    PROVE  LiveInv'
<1>s. LiveShape /\ RunInOrder /\ CanonicalIsChain
      BY DEF LiveInv
<1>1. /\ pc = "seed" /\ pc' = "apply" /\ checkpoint \in Blocks /\ checkpoint # None
      /\ UNCHANGED <<walk, durable, world, tracker>>
      BY <1>s DEF SeedChainState, LiveShape
<1>2. tip' = checkpoint /\ known' = {checkpoint} /\ finalized' = boundary
      BY DEF SeedChainState, Seed, Last, Range
<1>3. boundary \in Nat
      BY <1>s, LiveBoundsAssumption DEF LiveShape
<1>4. LiveShape'
      BY <1>s, <1>1, <1>2, <1>3 DEF LiveShape, ChainShape, walk, durable, world, tracker
<1>5. CanonicalIsChain' /\ RunInOrder'
      BY <1>s, <1>1 DEF CanonicalIsChain, OneChain, IsTop, RunInOrder, durable, tracker
<1>6. phase' = "idle" /\ replacement' = <<>> /\ rollbacks' = <<>> /\ ancestor' = None
      BY <1>1 DEF LiveInv, HandOver, walk
<1>7. CallInv(checkpoint)'
  <2>1. OneChain(canonical) /\ IsTop(checkpoint, canonical) /\ checkpoint \in canonical
        BY <1>1, <1>s DEF CanonicalIsChain, IsTop
  <2>2. RowsAreChain' /\ canonical' = canonical /\ checkpoint' = checkpoint
        BY <1>1, <2>1 DEF RowsAreChain, OneChain, IsTop, durable
  <2>3. MemoryOnRows(checkpoint)'
        BY <1>1, <1>2, <2>1, <2>2 DEF MemoryOnRows, IsTop
  <2>4. WalkInOrder' /\ BatchIsPath(checkpoint)' /\ RollbackOnRows' /\ BatchOnRows(checkpoint)'
        BY <1>6 DEF WalkInOrder, BatchIsPath, RollbackOnRows, BatchOnRows
  <2>. QED  BY <1>4, <2>2, <2>3, <2>4 DEF CallInv, LiveShape
<1>8. HandOver'
      BY <1>1, <1>2, <1>6, <1>7 DEF HandOver, world, durable
<1>. QED  BY <1>4, <1>5, <1>8 DEF LiveInv

\* What a call leaves when it goes on, returns or fails (AfterApply).
LEMMA CallHandedBack ==
    ASSUME LiveInv, pc \in {"apply", "walk"}, UNCHANGED <<durable, world, tracker, finalized>>,
           NEW old, old = checkpoint, CallInv(old)',
           pc' = CASE phase' = "returned" -> "commit"
                   [] phase' = "idle" -> "stopped"
                   [] OTHER -> "walk",
           phase' # "idle" => head' = observed,
           phase' = "returned" /\ rollbacks' = <<>> => ancestor' = checkpoint
    PROVE  LiveInv'
<1>1. CanonicalIsChain'
      BY DEF LiveInv, CanonicalIsChain, OneChain, IsTop, durable
<1>2. /\ phase' \in {"idle", "ancestor", "rollback", "returned"} /\ ChainShape'
      /\ checkpoint' = checkpoint /\ CallInv(checkpoint)'
      BY CallOfCheckpoint DEF CallInv, ChainShape, durable
<1>3. pc' \in {"stopped", "walk", "commit"}
      BY <1>2
<1>4. LiveShape' /\ RunInOrder'
      BY <1>2, <1>3 DEF LiveInv, LiveShape, RunInOrder, world, tracker
<1>5. finalized' = boundary' /\ observed' = observed
      BY DEF LiveInv, HandOver, world, tracker
<1>6. HandOver'
  <2>1. pc' = "walk" => phase' \in {"ancestor", "rollback"} /\ head' = observed'
        BY <1>2, <1>5
  <2>2. pc' = "commit" => /\ phase' = "returned" /\ head' = observed'
                          /\ rollbacks' = <<>> => ancestor' = checkpoint'
        BY <1>2, <1>5
  <2>. QED  BY <1>2, <1>3, <1>5, <2>1, <2>2 DEF HandOver
<1>. QED  BY <1>1, <1>4, <1>6 DEF LiveInv

LEMMA HeadApplied ==
    ASSUME LiveInv, ApplyHead
    PROVE  LiveInv'
<1>1. PICK old : old = checkpoint
      OBVIOUS
<1>2. /\ pc = "apply" /\ Apply(observed) /\ UNCHANGED <<durable, world, tracker, canonical>>
      /\ observed \in Blocks /\ checkpoint # None /\ phase = "idle" /\ known = {checkpoint}
      /\ rollbacks = <<>>
      BY DEF LiveInv, RunInOrder, HandOver, ApplyHead, AfterApply, durable, CallInv, WalkInOrder
<1>3. CallInv(old)
      BY <1>1, <1>2 DEF LiveInv, HandOver
<1>4. tip = checkpoint
      BY <1>1, <1>2, <1>3 DEF CallInv, MemoryOnRows
<1>5. CallInv(old)'
      BY <1>2, <1>3, CallBegins
<1>6. /\ finalized' = finalized
      /\ phase' # "idle" => head' = observed
      /\ phase' = "returned" /\ rollbacks' = <<>> => ancestor' = checkpoint
  <2>1. CASE ApplyDuplicate(observed)
        BY <1>2, <1>4, <2>1 DEF ApplyDuplicate
  <2>2. CASE ApplyFirst(observed)
        BY <1>2, <1>4, <2>2 DEF ApplyFirst
  <2>3. CASE ApplyExtend(observed)
        BY <1>2, <1>4, <2>3 DEF ApplyExtend, FailWith, Return, memory
  <2>4. CASE ApplyElsewhere(observed)
        BY <1>2, <2>4 DEF ApplyElsewhere, memory
  <2>. QED  BY <1>2, <2>1, <2>2, <2>3, <2>4 DEF Apply
<1>7. pc' = CASE phase' = "returned" -> "commit"
              [] phase' = "idle" -> "stopped"
              [] OTHER -> "walk"
      BY DEF ApplyHead, AfterApply
<1>. QED  BY <1>1, <1>2, <1>5, <1>6, <1>7, CallHandedBack

\* An iteration of either loop: also past a row that could not be read, or when the
\* provider has no answer.
LEMMA HeadWalked ==
    ASSUME LiveInv, Walk \/ WalkBlind \/ WalkPruned
    PROVE  LiveInv'
<1>1. PICK old : old = checkpoint
      OBVIOUS
<1>2. /\ pc = "walk" /\ UNCHANGED <<durable, world, tracker, canonical>>
      /\ phase \in {"ancestor", "rollback"} /\ head = observed
      BY DEF LiveInv, HandOver, Walk, WalkBlind, WalkPruned, AfterApply, durable
<1>3. CallInv(old)
      BY <1>1, <1>2 DEF LiveInv, HandOver
<1>4. cursor \in Blocks /\ Parent[cursor] \in Blocks \cup {None} /\ tip = checkpoint
      BY <1>1, <1>2, <1>3, ParentAssumption DEF CallInv, WalkInOrder, MemoryOnRows
<1>5. PICK stored \in BOOLEAN : stored <=> cursor \in canonical
      OBVIOUS
<1>6. \/ AncestorFound(stored)
      \/ \E persisted \in BOOLEAN, answer \in Blocks \cup {None} : AncestorStep(persisted, answer)
      \/ \E answer \in Blocks \cup {None} : RollbackStep(answer)
      \/ RollbackDone
  <2>1. CASE Walk
    <3>1. \/ AncestorFound(stored)
          \/ AncestorStep(stored, Parent[cursor])
          \/ RollbackStep(Parent[cursor])
          \/ RollbackDone
          BY <1>5, <2>1 DEF Walk, AncestorFound, AncestorStep
    <3>. QED  BY <1>4, <3>1
  <2>2. CASE WalkBlind
        BY <1>4, <2>2 DEF WalkBlind
  <2>3. CASE WalkPruned
    <3>1. AncestorStep(stored, None) \/ RollbackStep(None)
          BY <1>5, <2>3 DEF WalkPruned, AncestorStep
    <3>. QED  BY <3>1
  <2>. QED  BY <2>1, <2>2, <2>3
<1>7. CallInv(old)'
      BY <1>2, <1>3, <1>5, <1>6, CallWalks
<1>8. /\ finalized' = finalized
      /\ phase' # "idle" => head' = observed
      /\ phase' = "returned" /\ rollbacks' = <<>> => ancestor' = checkpoint
  <2>1. CASE AncestorFound(stored)
        BY <1>2, <2>1 DEF AncestorFound, FailWith, memory
  <2>2. CASE \E persisted \in BOOLEAN, answer \in Blocks \cup {None} : AncestorStep(persisted, answer)
        BY <1>2, <2>2 DEF AncestorStep, Climb, FailWith, memory
  <2>3. CASE \E answer \in Blocks \cup {None} : RollbackStep(answer)
        BY <1>2, <2>3 DEF RollbackStep, Climb, FailWith, memory
  <2>4. CASE RollbackDone
    <3>1. Descends(tip, rollbacks, cursor)
          BY <1>3, <2>4 DEF CallInv, WalkInOrder, RollbackDone
    <3>2. rollbacks = <<>> => cursor = checkpoint
          BY <1>4, <3>1 DEF Descends
    <3>3. CASE cursor # ancestor
          BY <2>4, <3>3 DEF RollbackDone, FailWith, memory
    <3>4. CASE cursor = ancestor
          BY <1>2, <2>4, <3>2, <3>4 DEF RollbackDone, Return
    <3>. QED  BY <3>3, <3>4
  <2>. QED  BY <1>6, <2>1, <2>2, <2>3, <2>4
<1>9. pc' = CASE phase' = "returned" -> "commit"
              [] phase' = "idle" -> "stopped"
              [] OTHER -> "walk"
      BY DEF Walk, WalkBlind, WalkPruned, AfterApply
<1>. QED  BY <1>1, <1>2, <1>7, <1>8, <1>9, CallHandedBack

\* What is known when a batch is about to be written.
LEMMA BatchReady ==
    ASSUME LiveInv, pc = "commit"
    PROVE  /\ phase = "returned" /\ head = observed /\ observed \in Blocks /\ checkpoint # None
           /\ checkpoint \in Blocks /\ finalized = boundary
           /\ ChainShape /\ RowsAreChain /\ BatchOnRows(checkpoint) /\ BatchIsPath(checkpoint)
           /\ rollbacks = <<>> => ancestor = checkpoint
BY DEF LiveInv, LiveShape, RunInOrder, HandOver, CallInv

\* The checkpoint moves to the head, and the rows are one chain below it.
LEMMA BatchWritten ==
    ASSUME LiveInv, pc = "commit", canonical' = CanonicalAfter,
           checkpoint' = IF replacement # <<>> THEN Last(replacement)
                         ELSE IF rollbacks # <<>> THEN ancestor ELSE checkpoint
    PROVE  /\ checkpoint' = observed /\ checkpoint' \in Blocks
           /\ CanonicalIsChain' /\ canonical' \subseteq Blocks
<1>1. /\ phase = "returned" /\ head = observed /\ observed \in Blocks /\ checkpoint # None
      /\ ChainShape /\ RowsAreChain /\ BatchOnRows(checkpoint) /\ BatchIsPath(checkpoint)
      /\ rollbacks = <<>> => ancestor = checkpoint
      BY BatchReady
<1>2. IF replacement = <<>> THEN head = ancestor ELSE head = Last(replacement)
      BY <1>1 DEF BatchIsPath
<1>3. checkpoint' = observed
      BY <1>1, <1>2
<1>4. canonical' \subseteq Blocks
      BY <1>1 DEF CanonicalAfter, ChainShape, Range
<1>5. observed # None
      BY <1>1, NoneAssumption
<1>6. OneChain(canonical') /\ IsTop(observed, canonical')
  <2>1. CASE rollbacks = <<>> /\ replacement = <<>>
    <3>1. canonical' = canonical
          BY <2>1 DEF CanonicalAfter, Range
    <3>2. OneChain(canonical) /\ IsTop(checkpoint, canonical)
          BY <1>1 DEF LiveInv, CanonicalIsChain
    <3>. QED  BY <1>1, <1>2, <2>1, <3>1, <3>2
  <2>2. CASE rollbacks # <<>> \/ replacement # <<>>
    <3>1. /\ OneChain(CanonicalAfter)
          /\ IsTop(IF replacement = <<>> THEN ancestor ELSE Last(replacement), CanonicalAfter)
          BY <1>1, <2>2, BatchLeavesChain
    <3>. QED  BY <1>1, <1>2, <3>1
  <2>. QED  BY <2>1, <2>2
<1>7. CanonicalIsChain'
      BY <1>3, <1>5, <1>6 DEF CanonicalIsChain
<1>. QED  BY <1>1, <1>3, <1>4, <1>7

LEMMA BatchCommitted ==
    ASSUME LiveInv, CommitBatch
    PROVE  LiveInv'
<1>1. pc = "commit" /\ UNCHANGED world
      BY DEF CommitBatch
<1>2. CASE BatchFits
  <2>1. \E outcome : Leave("idle", outcome)
        BY <1>2 DEF CommitBatch, Finish
  <2>2. CanonicalIsChain' /\ canonical' \subseteq Blocks /\ checkpoint' \in Blocks
        BY <1>1, <1>2, BatchWritten DEF CommitBatch
  <2>. QED  BY <1>1, <2>1, <2>2, RunLeft
<1>3. CASE ~BatchFits
      BY <1>1, <1>3, RunStopped DEF CommitBatch, Stop
<1>. QED  BY <1>2, <1>3
-----------------------------------------------------------------------------
(* The invariant. *)

\* A database whose topmost row is the checkpoint.
LEMMA LiveBegins ==
    ASSUME Overhang = 0, LiveInit
    PROVE  LiveInv
<1>1. canonical \subseteq Blocks /\ checkpoint \in Blocks \cup {None}
      BY DEF LiveInit
<1>2. CanonicalIsChain
  <2>1. CASE checkpoint = None /\ canonical = {}
        BY <2>1 DEF CanonicalIsChain
  <2>2. CASE /\ OneChain(canonical) /\ checkpoint \in canonical
             /\ \A b \in canonical : Height[b] <= Height[checkpoint] + Overhang
    <3>1. \A b \in canonical : Height[b] \in Nat
          BY <1>1, HeightAssumption
    <3>2. IsTop(checkpoint, canonical)
          BY <2>2, <3>1 DEF IsTop
    <3>. QED  BY <1>1, <2>2, <3>2, NoneAssumption DEF CanonicalIsChain
  <2>. QED  BY <2>1, <2>2 DEF LiveInit
<1>3. LiveShape
      BY <1>1 DEF LiveInit, NoChainState, LiveShape, ChainShape
<1>4. RunInOrder /\ HandOver
      BY DEF LiveInit, NoChainState, RunInOrder, HandOver
<1>. QED  BY <1>2, <1>3, <1>4 DEF LiveInv

LEMMA LiveStep ==
    ASSUME LiveInv, [LiveNext]_liveVars
    PROVE  LiveInv'
<1>1. CASE SeedNothing
  <2>1. \E outcome : Leave("idle", outcome)
        BY <1>1 DEF SeedNothing, Finish
  <2>. QED  BY <1>1, <2>1, RunStopped DEF SeedNothing
<1>2. CASE HeightGone \/ Fail
      BY <1>2, RunStopped DEF HeightGone, Fail, Stop
<1>3. CASE Restart
  <2>1. Leave("idle", report)
        BY <1>3 DEF Restart, Leave
  <2>. QED  BY <1>3, <2>1, RunStopped DEF Restart
<1>4. CASE LogsGone
      BY <1>4, HeadReadAgain DEF LogsGone
<1>5. CASE Move
      BY <1>5, RunWaits DEF Move
<1>6. CASE UNCHANGED liveVars
      BY <1>6, RunWaits DEF liveVars, world, LiveInv, LiveShape
<1>. QED  BY <1>1, <1>2, <1>3, <1>4, <1>5, <1>6, HeadStep, CompareStep, CatchUpStep, Seeded,
             HeadApplied, HeadWalked, BatchCommitted DEF LiveNext, Step

LEMMA LiveSafe ==
    ASSUME Overhang = 0
    PROVE  LiveSpec => []LiveInv
BY LiveBegins, LiveStep, PTL DEF LiveSpec

\* The rows change in two transactions only.
LEMMA LiveTransactions ==
    ASSUME [LiveNext]_liveVars, canonical' # canonical
    PROVE  \/ \E b \in AtHeight(next) : canonical' = canonical \cup {b}
           \/ pc = "commit" /\ canonical' = CanonicalAfter
<1>1. CASE FetchAndPushHeight
      BY <1>1 DEF FetchAndPushHeight, PushHeight, CommitBlock, ReconcileCurrentHead, durable
<1>2. CASE CommitBatch
      BY <1>2 DEF CommitBatch, durable
<1>3. CASE Start \/ ReadNumber \/ ReadHeader \/ CompareNoCheckpoint \/ CompareSame \/ Compare
           \/ CompareBehind
      BY <1>3 DEF Start, ReadNumber, ReadHeader, CompareNoCheckpoint, CompareSame, Compare,
         CompareBehind, durable
<1>4. CASE SeedChainState \/ SeedNothing \/ ApplyHead \/ Walk \/ WalkBlind \/ WalkPruned
      BY <1>4 DEF SeedChainState, SeedNothing, ApplyHead, Walk, WalkBlind, WalkPruned,
         AfterApply, durable
<1>5. CASE HeightGone \/ Restart \/ Move \/ LogsGone \/ Fail \/ UNCHANGED liveVars
      BY <1>5 DEF HeightGone, Restart, Move, LogsGone, ReconcileCurrentHead, Fail, liveVars, durable
<1>. QED  BY <1>1, <1>2, <1>3, <1>4, <1>5 DEF LiveNext, Step

\* A run comes to report Ready in one of four ways.
LEMMA LiveReturns ==
    ASSUME LiveInv, [LiveNext]_liveVars, pc \notin {"idle", "stopped"}, pc' = "idle",
           report' = "Ready"
    PROVE  \/ CompareSame
           \/ \E b \in AtHeight(next) : PushHeight(b) /\ pc \in {"catchUp", "fromStart"}
           \/ SeedNothing
           \/ CommitBatch
<1>1. CASE Start \/ ReadNumber \/ ReadHeader
      BY <1>1 DEF Start, ReadNumber, ReadHeader
<1>c. CASE Compare
  <2>1. observed \in Blocks /\ checkpoint \in Blocks
        BY <1>c DEF LiveInv, LiveShape, RunInOrder, Compare
  <2>2. Height[observed] \in Nat /\ Height[checkpoint] \in Nat
        BY <2>1, HeightAssumption
  <2>. QED  BY <1>c, <2>2 DEF Compare
<1>2. CASE CompareNoCheckpoint \/ CompareBehind
      BY <1>2 DEF CompareNoCheckpoint, CompareBehind, Stop, Leave
<1>3. CASE FetchAndPushHeight
      BY <1>3 DEF FetchAndPushHeight
<1>4. CASE SeedChainState \/ ApplyHead \/ Walk \/ WalkBlind \/ WalkPruned
      BY <1>4 DEF SeedChainState, ApplyHead, Walk, WalkBlind, WalkPruned, AfterApply
<1>5. CASE HeightGone \/ Restart \/ Move \/ LogsGone \/ Fail \/ UNCHANGED liveVars
      BY <1>5 DEF HeightGone, Restart, Move, LogsGone, ReconcileCurrentHead, Fail, Stop, Leave, liveVars
<1>. QED  BY <1>1, <1>c, <1>2, <1>3, <1>4, <1>5 DEF LiveNext, Step
-----------------------------------------------------------------------------
(* Types, whatever rows the tracker starts on. *)

Points == {"idle", "stopped", "number", "header", "compare", "behind", "catchUp",
           "fromStart", "seed", "apply", "walk", "commit"}
Reports == {None, "Ready", "Degraded", "error"} \cup Halts

\* The types of the tracker's own variables, and what a run must hold before it
\* calls ChainState: a head, and no call under way.
RunTypes ==
    /\ remote \in Heads /\ boundary \in FinalizedHeights
    /\ moves \in 0..MaxMoves /\ faults \in 0..MaxFaults
    /\ checkpoint \in Blocks \cup {None} /\ observed \in Blocks \cup {None}
    /\ sinkAnchor \in Blocks \cup {None} /\ anchor \in Blocks \cup {None}
    /\ number \in Nat /\ next \in Nat
    /\ again \in BOOLEAN /\ disagree \in BOOLEAN /\ blind \in BOOLEAN
    /\ pc \in Points /\ report \in Reports
    /\ pc \notin {"idle", "stopped", "number", "header"} => observed \in Blocks
    /\ pc \notin {"walk", "commit"} => phase = "idle"

LEMMA TroubleTypes ==
    ASSUME RunTypes, SinkAnswers \/ SinkFails
    PROVE  faults' \in 0..MaxFaults /\ blind' \in BOOLEAN
<1>1. CASE SinkAnswers
      BY <1>1 DEF RunTypes, SinkAnswers, trouble
<1>2. CASE SinkFails
  <2>1. faults \in 0..MaxFaults /\ faults < MaxFaults /\ faults' = faults + 1 /\ MaxFaults \in Nat
        BY <1>2, LiveBoundsAssumption DEF RunTypes, SinkFails
  <2>2. faults' \in 0..MaxFaults
        BY <2>1
  <2>. QED  BY <1>2, <2>2 DEF SinkFails
<1>. QED  BY <1>1, <1>2

\* A run that ends.
LEMMA LeftTypes ==
    ASSUME RunTypes, CallTypes, NEW where \in {"idle", "stopped"}, NEW outcome \in Reports,
           Leave(where, outcome), UNCHANGED world,
           canonical' \subseteq Blocks, checkpoint' \in Blocks \cup {None},
           faults' \in 0..MaxFaults, blind' \in BOOLEAN
    PROVE  RunTypes' /\ CallTypes'
<1>1. CallTypes'
      BY DroppedTypes DEF Leave, Forget
<1>2. /\ pc' = where /\ report' = outcome /\ phase' = "idle" /\ number' = 0 /\ again' = FALSE
      /\ sinkAnchor' = None /\ next' = 0 /\ anchor' = None /\ disagree' = FALSE
      /\ UNCHANGED <<observed, remote, moves, boundary>>
      BY DEF Leave, Forget, Drop, world
<1>3. RunTypes'
      BY <1>2 DEF RunTypes, Points
<1>. QED  BY <1>1, <1>3

\* One that ends without writing.
LEMMA StoppedTypes ==
    ASSUME RunTypes, CallTypes, NEW where \in {"idle", "stopped"}, NEW outcome \in Reports,
           Leave(where, outcome), UNCHANGED <<world, durable>>,
           faults' \in 0..MaxFaults, blind' \in BOOLEAN
    PROVE  RunTypes' /\ CallTypes'
<1>1. canonical' \subseteq Blocks /\ checkpoint' \in Blocks \cup {None} /\ UNCHANGED world
      BY DEF RunTypes, CallTypes, ChainShape, durable
<1>. QED  BY <1>1, LeftTypes

LEMMA FinishLeaves ==
    ASSUME Finish("Degraded")
    PROVE  \E outcome \in Reports : Leave("idle", outcome)
BY DEF Finish, Reports

LEMMA CallKept ==
    ASSUME CallTypes, UNCHANGED <<chainVars, canonical>>
    PROVE  CallTypes' /\ phase' = phase
BY DEF CallTypes, ChainShape, chainVars, memory, walk

\* The head and the comparison.
LEMMA HeadTypes ==
    ASSUME RunTypes, CallTypes, Start \/ ReadNumber \/ ReadHeader
    PROVE  RunTypes' /\ CallTypes'
<1>1. UNCHANGED <<chainVars, canonical>>
      BY DEF Start, ReadNumber, ReadHeader, durable
<1>2. CallTypes' /\ phase' = phase
      BY <1>1, CallKept
<1>3. CASE Start
  <2>1. /\ pc = "idle" /\ pc' = "number" /\ sinkAnchor' = checkpoint /\ blind' = FALSE
        /\ UNCHANGED <<checkpoint, remote, moves, boundary, faults, report, number, observed,
                       again, next, anchor, disagree>>
        BY <1>3 DEF Start, durable, world
  <2>. QED  BY <1>2, <2>1 DEF RunTypes, Points
<1>4. CASE ReadNumber
  <2>1. Height[remote] \in Nat
        BY HeadsAssumption, HeightAssumption DEF RunTypes
  <2>2. /\ pc = "number" /\ pc' = "header" /\ number' \in Nat
        /\ UNCHANGED <<checkpoint, remote, moves, boundary, faults, blind, report, observed,
                       again, sinkAnchor, next, anchor, disagree>>
        BY <1>4, <2>1 DEF ReadNumber, durable, world, trouble
  <2>. QED  BY <1>2, <2>2 DEF RunTypes, Points
<1>5. CASE ReadHeader
  <2>1. /\ pc = "header" /\ pc' \in {"seed", "compare"} /\ observed' \in Blocks
        /\ UNCHANGED <<checkpoint, remote, moves, boundary, faults, blind, report, number,
                       again, sinkAnchor, next, anchor>>
        BY <1>5 DEF ReadHeader, AtHeight, durable, world, trouble
  <2>2. disagree' \in BOOLEAN
        BY <1>5, Zenon DEF ReadHeader, RunTypes
  <2>. QED  BY <1>2, <2>1, <2>2 DEF RunTypes, Points
<1>. QED  BY <1>3, <1>4, <1>5

LEMMA CompareTypes ==
    ASSUME RunTypes, CallTypes, CompareNoCheckpoint \/ CompareSame \/ Compare \/ CompareBehind
    PROVE  RunTypes' /\ CallTypes'
<1>r. {"MissingExplicitStart", "error", "Degraded"} \subseteq Reports
      BY DEF Reports, Halts
<1>1. CASE CompareNoCheckpoint
  <2>1. /\ pc = "compare" /\ UNCHANGED <<durable, world>>
        /\ \/ \E outcome \in Reports : Leave("stopped", outcome)
           \/ /\ pc' = "fromStart" /\ next' = 0 /\ anchor' = None
              /\ UNCHANGED <<chainVars, report, number, observed, again, sinkAnchor, disagree>>
        BY <1>1, <1>r DEF CompareNoCheckpoint, Stop
  <2>2. faults' \in 0..MaxFaults /\ blind' \in BOOLEAN
        BY <1>1, TroubleTypes DEF CompareNoCheckpoint
  <2>3. CASE \E outcome \in Reports : Leave("stopped", outcome)
        BY <2>1, <2>2, <2>3, StoppedTypes
  <2>4. CASE /\ pc' = "fromStart" /\ next' = 0 /\ anchor' = None
             /\ UNCHANGED <<chainVars, report, number, observed, again, sinkAnchor, disagree>>
    <3>1. CallTypes' /\ phase' = phase
          BY <2>1, <2>4, CallKept DEF durable
    <3>2. UNCHANGED <<checkpoint, remote, moves, boundary>>
          BY <2>1 DEF durable, world
    <3>. QED  BY <2>1, <2>2, <2>4, <3>1, <3>2 DEF RunTypes, Points
  <2>. QED  BY <2>1, <2>3, <2>4
<1>2. CASE CompareSame
  <2>1. faults' \in 0..MaxFaults /\ blind' \in BOOLEAN /\ UNCHANGED <<world, durable>>
        BY <1>2 DEF CompareSame, RunTypes, trouble
  <2>2. \E outcome \in Reports : Leave("idle", outcome)
        BY <1>2, FinishLeaves DEF CompareSame
  <2>. QED  BY <2>1, <2>2, StoppedTypes
<1>3. CASE Compare
  <2>1. /\ pc = "compare" /\ checkpoint \in Blocks /\ observed \in Blocks
        /\ Height[checkpoint] \in Nat /\ Height[observed] \in Nat
        BY <1>3, HeightAssumption DEF Compare, RunTypes
  <2>2. /\ next' \in Nat /\ anchor' \in Blocks /\ pc' \in {"behind", "seed", "catchUp"}
        BY <1>3, <2>1 DEF Compare
  <2>3. CallTypes' /\ phase' = phase
        BY <1>3, CallKept DEF Compare, durable
  <2>4. UNCHANGED <<checkpoint, remote, moves, boundary, faults, blind, report, number, observed,
                    again, sinkAnchor, disagree>>
        BY <1>3 DEF Compare, durable, world, trouble
  <2>. QED  BY <2>1, <2>2, <2>3, <2>4 DEF RunTypes, Points
<1>4. CASE CompareBehind
  <2>1. /\ pc = "behind" /\ UNCHANGED <<durable, world>>
        /\ SinkAnswers \/ SinkFails
        /\ Leave("idle", "Degraded") \/ (pc' = "seed" /\ UNCHANGED <<chainVars, tracker, report>>)
        BY <1>4 DEF CompareBehind
  <2>2. faults' \in 0..MaxFaults /\ blind' \in BOOLEAN
        BY <2>1, TroubleTypes
  <2>3. CASE Leave("idle", "Degraded")
        BY <1>r, <2>1, <2>2, <2>3, StoppedTypes
  <2>4. CASE pc' = "seed" /\ UNCHANGED <<chainVars, tracker, report>>
    <3>1. CallTypes' /\ phase' = phase
          BY <2>1, <2>4, CallKept DEF durable
    <3>2. UNCHANGED <<checkpoint, remote, moves, boundary, report, number, observed, again,
                      sinkAnchor, next, anchor, disagree>>
          BY <2>1, <2>4 DEF durable, world, tracker
    <3>. QED  BY <2>1, <2>2, <2>4, <3>1, <3>2 DEF RunTypes, Points
  <2>. QED  BY <2>1, <2>3, <2>4
<1>. QED  BY <1>1, <1>2, <1>3, <1>4

\* Reading the head once more.
LEMMA AgainTypes ==
    ASSUME RunTypes, CallTypes, pc = "catchUp", ReconcileCurrentHead, UNCHANGED world,
           faults' \in 0..MaxFaults, blind' \in BOOLEAN
    PROVE  RunTypes' /\ CallTypes'
<1>1. CallTypes' /\ phase' = phase
      BY CallKept DEF ReconcileCurrentHead, durable
<1>2. /\ pc' = "number" /\ again' = TRUE
      /\ UNCHANGED <<checkpoint, remote, moves, boundary, report, number, observed, sinkAnchor,
                     next, anchor, disagree>>
      BY DEF ReconcileCurrentHead, durable, world
<1>. QED  BY <1>1, <1>2 DEF RunTypes, Points

LEMMA CatchUpTypes ==
    ASSUME RunTypes, CallTypes, FetchAndPushHeight
    PROVE  RunTypes' /\ CallTypes'
<1>1. PICK b \in AtHeight(next) : PushHeight(b)
      BY DEF FetchAndPushHeight
<1>2. /\ b \in Blocks /\ pc \in {"catchUp", "fromStart"} /\ UNCHANGED world
      /\ faults' \in 0..MaxFaults /\ blind' \in BOOLEAN
      /\ UNCHANGED <<faults, blind, remote, moves, boundary>>
      BY DEF AtHeight, FetchAndPushHeight, RunTypes, trouble, world
<1>r. "error" \in Reports
      BY DEF Reports
<1>3. \/ pc = "catchUp" /\ ReconcileCurrentHead
      \/ Leave("stopped", "error") /\ UNCHANGED durable
      \/ CommitBlock(b)
      BY <1>1 DEF PushHeight, Stop
<1>4. CASE pc = "catchUp" /\ ReconcileCurrentHead
      BY <1>2, <1>4, AgainTypes
<1>5. CASE Leave("stopped", "error") /\ UNCHANGED durable
      BY <1>2, <1>5, <1>r, StoppedTypes
<1>6. CASE CommitBlock(b)
  <2>1. canonical' \subseteq Blocks /\ checkpoint' \in Blocks
        BY <1>2, <1>6 DEF CommitBlock, CallTypes, ChainShape
  <2>2. CASE next = Height[observed]
    <3>1. \E outcome \in Reports : Leave("idle", outcome)
          BY <1>6, <2>2, FinishLeaves DEF CommitBlock
    <3>. QED  BY <1>2, <2>1, <3>1, LeftTypes
  <2>3. CASE next # Height[observed]
    <3>1. /\ next' = next + 1 /\ anchor' = b /\ sinkAnchor' = b
          /\ UNCHANGED <<chainVars, pc, report, number, observed, again, disagree>>
          BY <1>6, <2>3 DEF CommitBlock
    <3>2. next' \in Nat
          BY <3>1 DEF RunTypes
    <3>3. CallTypes' /\ phase' = phase
          BY <2>1, <3>1 DEF CallTypes, ChainShape, chainVars, memory, walk
    <3>. QED  BY <1>2, <2>1, <3>1, <3>2, <3>3 DEF RunTypes, Points
  <2>. QED  BY <2>2, <2>3
<1>. QED  BY <1>3, <1>4, <1>5, <1>6

\* A step of ChainState::apply.
LEMMA ApplyTypes ==
    ASSUME RunTypes, CallTypes', AfterApply, pc \in {"apply", "walk"},
           faults' \in 0..MaxFaults, blind' \in BOOLEAN
    PROVE  RunTypes' /\ CallTypes'
<1>1. /\ pc' \in {"commit", "stopped", "walk"} /\ (pc' = "stopped" => phase' = "idle")
      BY DEF AfterApply
<1>2. report' \in Reports
      BY DEF AfterApply, Halt, Reports, Halts, RunTypes
<1>3. UNCHANGED <<checkpoint, remote, moves, boundary, number, observed, again, sinkAnchor, next,
                  anchor, disagree>>
      BY DEF AfterApply, durable, world, tracker
<1>. QED  BY <1>1, <1>2, <1>3 DEF RunTypes, Points

LEMMA ChainStateTypes ==
    ASSUME RunTypes, CallTypes, SeedChainState \/ ApplyHead \/ Walk \/ WalkBlind \/ WalkPruned
    PROVE  RunTypes' /\ CallTypes'
<1>1. CASE SeedChainState
  <2>1. /\ pc = "seed" /\ pc' = "apply" /\ phase = "idle" /\ checkpoint \in Blocks
        /\ Seed(<<checkpoint>>, boundary) /\ UNCHANGED <<walk, canonical>> /\ phase' = phase
        BY <1>1 DEF SeedChainState, RunTypes, durable, walk
  <2>2. <<checkpoint>> \in Seq(Blocks) /\ boundary \in Nat
        BY <2>1, LiveBoundsAssumption DEF RunTypes
  <2>3. CallTypes'
        BY <2>1, <2>2, SeededTypes
  <2>4. UNCHANGED <<checkpoint, remote, moves, boundary, faults, blind, report, number, observed,
                    again, sinkAnchor, next, anchor, disagree>>
        BY <1>1 DEF SeedChainState, durable, world, trouble, tracker
  <2>. QED  BY <2>1, <2>3, <2>4 DEF RunTypes, Points
<1>2. CASE ApplyHead
  <2>1. /\ pc = "apply" /\ observed \in Blocks /\ Apply(observed) /\ AfterApply
        /\ UNCHANGED canonical /\ faults' \in 0..MaxFaults /\ blind' \in BOOLEAN
        BY <1>2 DEF ApplyHead, AfterApply, RunTypes, durable, trouble
  <2>2. CallTypes'
        BY <2>1, BegunTypes
  <2>. QED  BY <2>1, <2>2, ApplyTypes
<1>3. CASE Walk \/ WalkBlind \/ WalkPruned
  <2>1. pc = "walk" /\ AfterApply /\ UNCHANGED canonical
        BY <1>3 DEF Walk, WalkBlind, WalkPruned, AfterApply, durable
  <2>2. faults' \in 0..MaxFaults /\ blind' \in BOOLEAN
    <3>1. CASE Walk \/ WalkBlind
          BY <3>1, TroubleTypes DEF Walk, WalkBlind
    <3>2. CASE WalkPruned
      <4>1. faults \in 0..MaxFaults /\ faults < MaxFaults /\ faults' = faults + 1 /\ MaxFaults \in Nat
            BY <3>2, LiveBoundsAssumption DEF RunTypes, WalkPruned
      <4>2. faults' \in 0..MaxFaults
            BY <4>1
      <4>. QED  BY <3>2, <4>2 DEF RunTypes, WalkPruned
    <3>. QED  BY <1>3, <3>1, <3>2
  <2>3. PICK stored \in BOOLEAN : stored <=> cursor \in canonical
        OBVIOUS
  <2>4. phase \in {"ancestor", "rollback"}
        BY <1>3 DEF Walk, WalkBlind, WalkPruned, AncestorFound, AncestorStep, RollbackStep,
           RollbackDone
  <2>5. Parent[cursor] \in Blocks \cup {None}
        BY <2>4, ParentAssumption DEF CallTypes
  <2>6. \/ AncestorFound(stored)
        \/ \E persisted \in BOOLEAN, answer \in Blocks \cup {None} : AncestorStep(persisted, answer)
        \/ \E answer \in Blocks \cup {None} : RollbackStep(answer)
        \/ RollbackDone
    <3>1. CASE Walk
      <4>1. \/ AncestorFound(stored)
            \/ AncestorStep(stored, Parent[cursor])
            \/ RollbackStep(Parent[cursor])
            \/ RollbackDone
            BY <2>3, <3>1 DEF Walk, AncestorFound, AncestorStep
      <4>. QED  BY <2>5, <4>1
    <3>2. CASE WalkBlind
          BY <2>5, <3>2 DEF WalkBlind
    <3>3. CASE WalkPruned
      <4>1. AncestorStep(stored, None) \/ RollbackStep(None)
            BY <2>3, <3>3 DEF WalkPruned, AncestorStep
      <4>. QED  BY <4>1
    <3>. QED  BY <1>3, <3>1, <3>2, <3>3
  <2>7. CallTypes'
        BY <2>1, <2>3, <2>6, WalkedTypes
  <2>. QED  BY <2>1, <2>2, <2>7, ApplyTypes
<1>. QED  BY <1>1, <1>2, <1>3

LEMMA CommitTypes ==
    ASSUME RunTypes, CallTypes, CommitBatch
    PROVE  RunTypes' /\ CallTypes'
<1>1. faults' \in 0..MaxFaults /\ blind' \in BOOLEAN /\ UNCHANGED world
      BY DEF CommitBatch, RunTypes, trouble
<1>2. CASE BatchFits
  <2>1. \E outcome \in Reports : Leave("idle", outcome)
        BY <1>2, FinishLeaves DEF CommitBatch
  <2>2. canonical' \subseteq Blocks
        BY <1>2 DEF CommitBatch, CanonicalAfter, CallTypes, ChainShape, Range
  <2>3. checkpoint' \in Blocks \cup {None}
    <3>1. replacement # <<>> => Last(replacement) \in Blocks
          BY DEF CallTypes, ChainShape, Last
    <3>. QED  BY <1>2, <3>1 DEF CommitBatch, CallTypes, ChainShape, RunTypes
  <2>. QED  BY <1>1, <2>1, <2>2, <2>3, LeftTypes
<1>3. CASE ~BatchFits
  <2>1. "error" \in Reports
        BY DEF Reports
  <2>2. Leave("stopped", "error") /\ UNCHANGED durable
        BY <1>3 DEF CommitBatch, Stop
  <2>. QED  BY <1>1, <2>1, <2>2, StoppedTypes
<1>. QED  BY <1>2, <1>3

LEMMA LiveTypesStep ==
    ASSUME RunTypes, CallTypes, [LiveNext]_liveVars
    PROVE  RunTypes' /\ CallTypes'
<1>r. "error" \in Reports
      BY DEF Reports
<1>f. ASSUME faults < MaxFaults, faults' = faults + 1 PROVE faults' \in 0..MaxFaults
  <2>1. faults \in 0..MaxFaults /\ MaxFaults \in Nat
        BY LiveBoundsAssumption DEF RunTypes
  <2>. QED  BY <1>f, <2>1
<1>1. CASE SeedNothing
  <2>1. faults' \in 0..MaxFaults /\ blind' \in BOOLEAN
        BY <1>1, TroubleTypes DEF SeedNothing
  <2>2. (\E outcome \in Reports : Leave("idle", outcome)) /\ UNCHANGED <<world, durable>>
        BY <1>1, FinishLeaves DEF SeedNothing
  <2>. QED  BY <2>1, <2>2, StoppedTypes
<1>2. CASE HeightGone
  <2>1. /\ Leave("stopped", "error") /\ UNCHANGED <<world, durable>>
        /\ faults' \in 0..MaxFaults /\ blind' \in BOOLEAN
        BY <1>2 DEF HeightGone, Stop, RunTypes, trouble
  <2>. QED  BY <1>r, <2>1, StoppedTypes
<1>3. CASE Fail
  <2>1. /\ Leave("stopped", "error") /\ UNCHANGED <<world, durable>>
        /\ faults' \in 0..MaxFaults /\ blind' \in BOOLEAN
        BY <1>3, <1>f DEF Fail, Stop, RunTypes
  <2>. QED  BY <1>r, <2>1, StoppedTypes
<1>4. CASE Restart
  <2>1. /\ Leave("idle", report) /\ UNCHANGED <<world, durable>> /\ report \in Reports
        /\ faults' \in 0..MaxFaults /\ blind' \in BOOLEAN
        BY <1>4 DEF Restart, Leave, RunTypes, trouble
  <2>. QED  BY <2>1, StoppedTypes
<1>5. CASE LogsGone
  <2>1. /\ pc = "catchUp" /\ ReconcileCurrentHead /\ UNCHANGED world
        /\ faults' \in 0..MaxFaults /\ blind' \in BOOLEAN
        BY <1>5, <1>f DEF LogsGone, RunTypes, world
  <2>. QED  BY <2>1, AgainTypes
<1>6. CASE Move
  <2>1. /\ moves \in 0..MaxMoves /\ moves < MaxMoves /\ moves' = moves + 1 /\ MaxMoves \in Nat
        /\ remote' \in Heads
        BY <1>6, LiveBoundsAssumption DEF Move, RunTypes
  <2>2. moves' \in 0..MaxMoves
        BY <2>1
  <2>3. CallTypes' /\ phase' = phase
        BY <1>6, CallKept DEF Move, durable
  <2>4. UNCHANGED <<checkpoint, boundary, faults, blind, pc, report, number, observed, again,
                    sinkAnchor, next, anchor, disagree>>
        BY <1>6 DEF Move, durable, trouble, tracker
  <2>. QED  BY <2>1, <2>2, <2>3, <2>4 DEF RunTypes
<1>7. CASE UNCHANGED liveVars
  <2>1. CallTypes' /\ phase' = phase
        BY <1>7, CallKept DEF liveVars, durable
  <2>2. UNCHANGED <<checkpoint, remote, moves, boundary, faults, blind, pc, report, number,
                    observed, again, sinkAnchor, next, anchor, disagree>>
        BY <1>7 DEF liveVars, durable, world, trouble, tracker
  <2>. QED  BY <2>1, <2>2 DEF RunTypes
<1>. QED  BY <1>1, <1>2, <1>3, <1>4, <1>5, <1>6, <1>7, HeadTypes, CompareTypes, CatchUpTypes,
             ChainStateTypes, CommitTypes DEF LiveNext, Step
-----------------------------------------------------------------------------
(* The results. *)

\* Every variable has its type, on whatever rows the tracker starts (Overhang is any
\* number): in particular the ChainState a run makes keeps its header cache within
\* header_cache_size, and a batch is never asked for without an observed head.
THEOREM LiveTypes == LiveSpec => []LiveTypeOK
<1>. DEFINE Typed == RunTypes /\ CallTypes
<1>1. LiveInit => Typed
  <2>. SUFFICES ASSUME LiveInit PROVE Typed
       OBVIOUS
  <2>1. <<>> \in Caches /\ 0 \in 0..MaxMoves /\ 0 \in 0..MaxFaults
        BY BoundsAssumption, LiveBoundsAssumption DEF Caches
  <2>2. canonical \subseteq Blocks /\ checkpoint \in Blocks \cup {None}
        BY DEF LiveInit
  <2>3. CallTypes
        BY <2>1, <2>2 DEF LiveInit, NoChainState, CallTypes, ChainShape, Outcomes
  <2>4. RunTypes
        BY <2>1, <2>2 DEF LiveInit, NoChainState, RunTypes, Points, Reports
  <2>. QED  BY <2>3, <2>4
<1>2. Typed /\ [LiveNext]_liveVars => Typed'
      BY LiveTypesStep
<1>3. Typed => LiveTypeOK
  <2>. SUFFICES ASSUME Typed PROVE LiveTypeOK
       OBVIOUS
  <2>1. ChainTypeOK
        BY CallTypesSuffice
  <2>2. {again, disagree, blind} \subseteq BOOLEAN
        BY Zenon DEF RunTypes
  <2>. QED  BY <2>1, <2>2 DEF RunTypes, Points, Reports, LiveTypeOK
<1>. HIDE DEF Typed
<1>. QED  BY <1>1, <1>2, <1>3, PTL DEF LiveSpec

\* Whatever the provider does between two calls and wherever the process dies, the
\* canonical rows are one unbroken chain with the checkpoint on top.
THEOREM RowsStayOneChain ==
    ASSUME Overhang = 0
    PROVE  LiveSpec => []CanonicalIsChain
<1>1. LiveInv => CanonicalIsChain
      BY DEF LiveInv
<1>. QED  BY <1>1, LiveSafe, PTL

\* The batch that apply_chain_state hands to the sink leads from the checkpoint to the
\* observed head, and the writer takes it.
THEOREM BatchesLeadToHead ==
    ASSUME Overhang = 0
    PROVE  LiveSpec => []BatchLeadsToHead
<1>1. LiveInv => BatchLeadsToHead
  <2>. SUFFICES ASSUME LiveInv, pc = "commit"
                PROVE  BatchIsPath(checkpoint) /\ BatchFits /\ head = observed
       BY DEF BatchLeadsToHead
  <2>1. /\ phase = "returned" /\ head = observed /\ ChainShape
        /\ BatchOnRows(checkpoint) /\ BatchIsPath(checkpoint)
        BY BatchReady
  <2>2. BatchFits
        BY <2>1, BatchIsTaken DEF BatchFits
  <2>. QED  BY <2>1, <2>2
<1>. QED  BY <1>1, LiveSafe, PTL

\* A run of the tracker that ends Ready, with every sink read answered, left the
\* checkpoint at the height of the head it saw last, and at that very block after
\* ChainState took over.
THEOREM ReadyHasCaughtUp ==
    ASSUME Overhang = 0
    PROVE  LiveSpec => ReadyIsCaughtUp
<1>1. LiveInv /\ [LiveNext]_liveVars =>
          [pc \notin {"idle", "stopped"} /\ pc' = "idle" /\ report' = "Ready" /\ ~blind'
              => /\ checkpoint' # None
                 /\ Height[checkpoint'] = Height[observed]
                 /\ pc = "commit" => checkpoint' = observed]_liveVars
  <2>. SUFFICES ASSUME LiveInv, [LiveNext]_liveVars, pc \notin {"idle", "stopped"},
                       pc' = "idle", report' = "Ready", ~blind'
                PROVE  /\ checkpoint' # None
                       /\ Height[checkpoint'] = Height[observed]
                       /\ pc = "commit" => checkpoint' = observed
       OBVIOUS
  <2>1. CASE CompareSame
        BY <2>1 DEF CompareSame, durable
  <2>2. ASSUME NEW b \in AtHeight(next), PushHeight(b), pc \in {"catchUp", "fromStart"}
        PROVE  checkpoint' # None /\ Height[checkpoint'] = Height[observed] /\ pc # "commit"
    <3>1. CommitBlock(b) /\ next = Height[observed]
          BY <2>2 DEF PushHeight, ReconcileCurrentHead, Stop, Leave, CommitBlock
    <3>2. b \in Blocks /\ Height[b] = next
          BY DEF AtHeight
    <3>. QED  BY <2>2, <3>1, <3>2, NoneAssumption DEF CommitBlock
  <2>3. CASE SeedNothing
    <3>1. checkpoint # None
          BY <2>3 DEF LiveInv, RunInOrder, SeedNothing
    <3>. QED  BY <2>3, <3>1 DEF SeedNothing, SinkFails
  <2>4. CASE CommitBatch
    <3>1. pc = "commit" /\ BatchFits
          BY <2>4 DEF CommitBatch, Stop, Leave
    <3>2. checkpoint' = observed /\ checkpoint' \in Blocks
          BY <2>4, <3>1, BatchWritten DEF CommitBatch
    <3>. QED  BY <3>2, NoneAssumption
  <2>. QED  BY <2>1, <2>2, <2>3, <2>4, LiveReturns
<1>. QED  BY <1>1, LiveSafe, PTL DEF LiveSpec, ReadyIsCaughtUp
-----------------------------------------------------------------------------
(* The rows and the checkpoint as a ledger. *)

\* The chain operators of the two modules are the same.
LEMMA SameChains ==
    /\ \A S : Ledger!OneChain(S) <=> OneChain(S)
    /\ \A b, S : Ledger!IsTop(b, S) <=> IsTop(b, S)
BY DEF Ledger!OneChain, Ledger!IsTop, Ledger!Links, OneChain, IsTop, Links

LEMMA RowsAreLedger ==
    LiveInv => Ledger!IsLedger
<1>. SUFFICES ASSUME LiveInv PROVE Ledger!IsLedger
     OBVIOUS
<1>1. canonical \subseteq Blocks /\ CanonicalIsChain
      BY DEF LiveInv, LiveShape, ChainShape
<1>2. canonical = {} => checkpoint = None
      BY <1>1 DEF CanonicalIsChain, IsTop
<1>3. canonical # {} => OneChain(canonical) /\ IsTop(checkpoint, canonical)
      BY <1>1 DEF CanonicalIsChain
<1>. QED  BY <1>1, <1>2, <1>3, SameChains DEF Ledger!IsLedger

\* The rows and the checkpoint change in two transactions only.
LEMMA LedgerTransactions ==
    ASSUME [LiveNext]_liveVars, ~UNCHANGED durable
    PROVE  \/ /\ pc \in {"catchUp", "fromStart"} /\ UNCHANGED world
              /\ \E b \in AtHeight(next) :
                     (anchor = None \/ Links(b, anchor)) /\ SinkTakes(b) /\ CommitBlock(b)
           \/ CommitBatch /\ BatchFits
<1>1. CASE FetchAndPushHeight
      BY <1>1 DEF FetchAndPushHeight, PushHeight, ReconcileCurrentHead
<1>2. CASE CommitBatch
      BY <1>2 DEF CommitBatch
<1>3. CASE Start \/ ReadNumber \/ ReadHeader \/ CompareNoCheckpoint \/ CompareSame \/ Compare
           \/ CompareBehind
      BY <1>3 DEF Start, ReadNumber, ReadHeader, CompareNoCheckpoint, CompareSame, Compare,
         CompareBehind
<1>4. CASE SeedChainState \/ SeedNothing \/ ApplyHead \/ Walk \/ WalkBlind \/ WalkPruned
      BY <1>4 DEF SeedChainState, SeedNothing, ApplyHead, Walk, WalkBlind, WalkPruned, AfterApply
<1>5. CASE HeightGone \/ Restart \/ Move \/ LogsGone \/ Fail \/ UNCHANGED liveVars
      BY <1>5 DEF HeightGone, Restart, Move, LogsGone, ReconcileCurrentHead, Fail, liveVars
<1>. QED  BY <1>1, <1>2, <1>3, <1>4, <1>5 DEF LiveNext, Step

\* Each of them is a step of the ledger.
LEMMA LedgerGrows ==
    ASSUME LiveInv, [LiveNext]_liveVars, ~UNCHANGED durable, Ledger!IsLedger'
    PROVE  Ledger!Begin \/ \E a \in canonical : Ledger!Graft(a)
<1>s. /\ canonical \subseteq Blocks /\ canonical' \subseteq Blocks /\ CanonicalIsChain
      /\ \A b \in Blocks : Height[b] \in Nat
      BY HeightAssumption DEF LiveInv, LiveShape, ChainShape, Ledger!IsLedger
<1>b. ASSUME canonical = {}, \E b \in canonical' : Height[b] = 0, boundary' = boundary
      PROVE  Ledger!Begin
      BY <1>b DEF Ledger!Begin
<1>g. ASSUME NEW a \in canonical, boundary' = boundary,
             \A b \in Blocks : Height[b] <= Height[a] => (b \in canonical' <=> b \in canonical),
             Height[a] < boundary => canonical \subseteq canonical'
      PROVE  Ledger!Graft(a)
  <2>1. Ledger!UpTo(canonical', a) = Ledger!UpTo(canonical, a)
        BY <1>g, <1>s DEF Ledger!UpTo
  <2>. QED  BY <1>g, <2>1 DEF Ledger!Graft
<1>1. ASSUME pc \in {"catchUp", "fromStart"}, UNCHANGED world, NEW b \in AtHeight(next),
             anchor = None \/ Links(b, anchor), SinkTakes(b), CommitBlock(b)
      PROVE  Ledger!Begin \/ \E a \in canonical : Ledger!Graft(a)
  <2>1. b \in Blocks /\ Height[b] = next /\ canonical' = canonical \cup {b} /\ boundary' = boundary
        BY <1>1 DEF AtHeight, CommitBlock, world
  <2>2. IF checkpoint = None THEN next = 0 ELSE Links(b, checkpoint) /\ anchor = checkpoint
        BY <1>1, <2>1, TakenFollows
  <2>3. CASE checkpoint = None
        BY <1>b, <1>s, <2>1, <2>2, <2>3 DEF CanonicalIsChain
  <2>4. CASE checkpoint # None
    <3>1. checkpoint \in canonical /\ Height[b] = Height[checkpoint] + 1
          BY <1>s, <2>2, <2>4 DEF CanonicalIsChain, IsTop, Links
    <3>2. ASSUME NEW c \in Blocks, Height[c] <= Height[checkpoint]
          PROVE  c \in canonical' <=> c \in canonical
      <4>1. c # b
            BY <1>s, <3>1, <3>2
      <4>. QED  BY <2>1, <4>1
    <3>. QED  BY <1>g, <2>1, <3>1, <3>2
  <2>. QED  BY <2>3, <2>4
<1>2. CASE CommitBatch /\ BatchFits
  <2>1. /\ pc = "commit" /\ canonical' = CanonicalAfter /\ boundary' = boundary
        /\ checkpoint' = IF replacement # <<>> THEN Last(replacement)
                         ELSE IF rollbacks # <<>> THEN ancestor ELSE checkpoint
        BY <1>2 DEF CommitBatch, world
  <2>2. /\ phase = "returned" /\ checkpoint # None /\ ChainShape /\ finalized = boundary
        /\ BatchOnRows(checkpoint) /\ BatchIsPath(checkpoint)
        BY <2>1, BatchReady
  <2>3. rollbacks # <<>> \/ replacement # <<>>
        BY <2>1 DEF CanonicalAfter, Range, durable
  <2>4. PICK old : old = checkpoint
        OBVIOUS
  <2>5. old # None /\ BatchOnRows(old) /\ BatchIsPath(old)
        BY <2>2, <2>4
  <2>6. /\ ancestor \in canonical
        /\ \A b \in Blocks : Height[b] <= Height[ancestor] => (b \in canonical' <=> b \in canonical)
        /\ Height[ancestor] < finalized => canonical \subseteq canonical'
        BY <2>1, <2>2, <2>3, <2>5, BatchIsGraft
  <2>. QED  BY <1>g, <2>1, <2>2, <2>6
<1>. QED  BY <1>1, <1>2, LedgerTransactions

\* The finalized height is configuration.
LEMMA BoundaryStays ==
    ASSUME [LiveNext]_liveVars
    PROVE  boundary' = boundary
<1>1. CASE UNCHANGED world \/ UNCHANGED liveVars \/ Move
      BY <1>1 DEF liveVars, world, Move
<1>2. UNCHANGED world \/ UNCHANGED liveVars \/ Move
      BY DEF LiveNext, Step, Start, ReadNumber, ReadHeader, CompareNoCheckpoint, CompareSame,
         Compare, CompareBehind, FetchAndPushHeight, SeedChainState, SeedNothing, ApplyHead, Walk,
         CommitBatch, HeightGone, Restart, LogsGone, WalkPruned, WalkBlind, Fail, AfterApply
<1>. QED  BY <1>1, <1>2

\* The database the tracker writes is a ledger: every transaction of the sink is one
\* step of it that moves the rows and the checkpoint together, and nothing else
\* changes either, whatever the provider, the reads and the process do.
THEOREM LiveImplementsLedger ==
    ASSUME Overhang = 0
    PROVE  LiveSpec => ImplementsLedger
<1>1. LiveInit => Ledger!Init
  <2>. SUFFICES ASSUME LiveInit PROVE Ledger!Init
       OBVIOUS
  <2>1. Ledger!IsLedger
        BY LiveBegins, RowsAreLedger
  <2>2. boundary \in Nat
        BY LiveBoundsAssumption DEF LiveInit
  <2>. QED  BY <2>1, <2>2 DEF Ledger!Init
<1>2. LiveInv /\ Ledger!IsLedger' /\ [LiveNext]_liveVars => [Ledger!Next]_(Ledger!ledger)
  <2>. SUFFICES ASSUME LiveInv, Ledger!IsLedger', [LiveNext]_liveVars
                PROVE  [Ledger!Next]_(Ledger!ledger)
       OBVIOUS
  <2>1. CASE UNCHANGED durable
    <3>1. boundary' = boundary
          BY BoundaryStays
    <3>. QED  BY <2>1, <3>1 DEF Ledger!ledger, durable
  <2>2. CASE ~UNCHANGED durable
        BY <2>2, LedgerGrows DEF Ledger!Next
  <2>. QED  BY <2>1, <2>2
<1>. QED  BY <1>1, <1>2, LiveSafe, RowsAreLedger, PTL
     DEF LiveSpec, ImplementsLedger, Ledger!Spec

\* A ledger loses nothing that is final: a graft below the floor keeps every row, one
\* at or above it keeps those up to the block it starts from.
LEMMA LedgerKeepsFinal == Ledger!Spec => Ledger!NothingFinalIsLost
<1>. DEFINE Final == \A b \in canonical : Height[b] <= boundary => b \in canonical'
            Sound == canonical \subseteq Blocks /\ boundary \in Nat
<1>1. Ledger!Init => Sound
      BY DEF Ledger!Init, Ledger!IsLedger
<1>2. Sound /\ [Ledger!Next]_(Ledger!ledger) => Sound'
      BY DEF Ledger!Next, Ledger!SetFloor, Ledger!Begin, Ledger!Graft, Ledger!IsLedger,
         Ledger!ledger
<1>3. Sound /\ [Ledger!Next]_(Ledger!ledger) => [Final]_(Ledger!ledger)
  <2>. SUFFICES ASSUME Sound, Ledger!Next, NEW b \in canonical, Height[b] <= boundary
                PROVE  b \in canonical'
       OBVIOUS
  <2>1. CASE Ledger!SetFloor \/ Ledger!Begin
        BY <2>1 DEF Ledger!SetFloor, Ledger!Begin
  <2>2. ASSUME NEW a \in canonical, Ledger!Graft(a)
        PROVE  b \in canonical'
    <3>1. CASE Height[a] < boundary
          BY <2>2, <3>1 DEF Ledger!Graft
    <3>2. CASE ~(Height[a] < boundary)
      <4>1. Height[a] \in Nat /\ Height[b] \in Nat
            BY HeightAssumption
      <4>2. Height[b] <= Height[a]
            BY <3>2, <4>1
      <4>. QED  BY <2>2, <4>2 DEF Ledger!Graft, Ledger!UpTo
    <3>. QED  BY <3>1, <3>2
  <2>. QED  BY <2>1, <2>2 DEF Ledger!Next
<1>. QED  BY <1>1, <1>2, <1>3, PTL DEF Ledger!Spec, Ledger!NothingFinalIsLost

\* No reconciliation rolls back a block at or below the configured finalized height
\* (enforce_finalized_boundary): what a ledger promises, said of the tracker's rows.
THEOREM NothingFinalizedIsReplaced ==
    ASSUME Overhang = 0
    PROVE  LiveSpec => LiveFinalizedStays
<1>. DEFINE Final == \A b \in canonical : Height[b] <= boundary => b \in canonical'
<1>1. [Final]_(Ledger!ledger) => [Final]_liveVars
      BY DEF Ledger!ledger
<1>. QED  BY <1>1, LiveImplementsLedger, LedgerKeepsFinal, PTL
     DEF ImplementsLedger, Ledger!NothingFinalIsLost, LiveFinalizedStays
=============================================================================
