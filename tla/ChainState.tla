----------------------------- MODULE ChainState -----------------------------
(***************************************************************************)
(* ChainState::apply: given an observed head, the transition batch that    *)
(* turns the canonical chain into the one ending in that head.  The walk   *)
(* back to a common ancestor, and then down the old branch, asks the       *)
(* AncestryResolver for every header it does not hold; one loop iteration  *)
(* is one step, because the world may change between two answers.          *)
(***************************************************************************)
EXTENDS HeaderTree, SequencesExt

CONSTANTS
    CacheSize,      \* header_cache_size
    MaxReorgDepth   \* max_reorg_depth

\* ChainState::new refuses a zero bound.
ASSUME BoundsAssumption == CacheSize \in Nat \ {0} /\ MaxReorgDepth \in Nat \ {0}

VARIABLES
    tip,            \* tip
    known,          \* canonical_by_height and canonical_hashes
    cache,          \* HeaderCache: hashes, oldest first
    finalized,      \* finalized_height; 0 is None, as no ancestor is below it
    phase,          \* where apply stands: idle, ancestor, rollback, returned
    head,           \* new_head
    cursor,         \* current, in either loop
    replacement,    \* replacement_descending
    rollbacks,      \* the rollback path found so far
    ancestor,       \* the common ancestor
    result,         \* what the last call returned: a transition or an error
    canonical       \* what the resolver's canonical lookups read: the durable rows

memory == <<tip, known, cache, finalized>>
walk == <<phase, head, cursor, replacement, rollbacks, ancestor, result>>
chainVars == <<memory, walk>>
vars == <<chainVars, canonical>>

Transitions == {"Bootstrap", "Duplicate", "Extend", "Gap", "Reorg"}
Errors == {"MissingParent", "InvalidExtensionHeight", "InvalidParentLink",
           "MaxDepthExceeded", "FinalizedBoundary", "Resolver"}

Linked(chain) == \A i \in 1..Len(chain) - 1 : Links(chain[i + 1], chain[i])
-----------------------------------------------------------------------------
(* HeaderCache and the canonical index. *)

\* Variant: nothing is evicted.
CacheInsertUnbounded(q, b) == IF b \in Range(q) THEN q ELSE Append(q, b)

\* HeaderCache::insert: an old entry is left where it is, a new one evicts the
\* oldest when the cache is full.
CacheInsert(q, b) ==
    IF b \in Range(q) THEN q
    ELSE Append(IF Len(q) = CacheSize THEN Tail(q) ELSE q, b)

\* One insertion after the other.
CacheInsertAll(q, bs) ==
    LET after[i \in 0..Len(bs)] ==
            IF i = 0 THEN q ELSE CacheInsert(after[i - 1], bs[i])
    IN  after[Len(bs)]

\* Variant: remove_canonical is not called.
KnownAfterKeeping(downs, ups) ==
    {b \in known : \A c \in Range(ups) : Height[c] # Height[b]} \cup Range(ups)

\* remove_canonical for every rollback, insert_canonical for every apply (which
\* takes the place of whatever was known at that height).
KnownAfter(downs, ups) ==
    LET kept == known \ Range(downs)
    IN  {b \in kept : \A c \in Range(ups) : Height[c] # Height[b]} \cup Range(ups)

\* from_canonical_chain (from_tip is the case of one header), then
\* set_finalized_height(f).
Seed(chain, f) ==
    /\ chain # <<>>
    /\ Linked(chain)
    /\ tip' = Last(chain)
    /\ known' = Range(chain)
    /\ cache' = CacheInsertAll(<<>>, chain)
    /\ finalized' = f
-----------------------------------------------------------------------------
(* apply. *)

ClearWalk ==
    /\ head' = None
    /\ cursor' = None
    /\ replacement' = <<>>
    /\ rollbacks' = <<>>
    /\ ancestor' = None

\* The state goes out of scope.
Drop ==
    /\ tip' = None
    /\ known' = {}
    /\ cache' = <<>>
    /\ finalized' = 0
    /\ phase' = "idle"
    /\ result' = None
    /\ ClearWalk

\* An error is returned before anything was assigned.
FailWith(e) ==
    /\ phase' = "idle"
    /\ result' = e
    /\ ClearWalk
    /\ UNCHANGED memory

\* Variant: a reorg does not move the tip.
ReturnKeepsTip(transition, anc, downs, ups) ==
    /\ phase' = "returned"
    /\ result' = transition
    /\ ancestor' = anc
    /\ rollbacks' = downs
    /\ replacement' = ups
    /\ cursor' = None
    /\ known' = KnownAfter(downs, ups)
    /\ cache' = CacheInsertAll(cache, downs \o ups)
    /\ tip' = IF downs # <<>> \/ ups = <<>> THEN tip ELSE Last(ups)
    /\ UNCHANGED finalized

\* commit and return: the batch is `rollbacks` followed by `replacement`, now in
\* ascending order.  The tip moves to the last applied header and stays where it
\* was when there is none.
Return(transition, anc, downs, ups) ==
    /\ phase' = "returned"
    /\ result' = transition
    /\ ancestor' = anc
    /\ rollbacks' = downs
    /\ replacement' = ups
    /\ cursor' = None
    /\ known' = KnownAfter(downs, ups)
    /\ cache' = CacheInsertAll(cache, downs \o ups)
    /\ tip' = IF ups = <<>> THEN tip ELSE Last(ups)
    /\ UNCHANGED finalized

ApplyDuplicate(h) ==
    /\ h \in known \/ tip = h
    /\ phase' = "returned"
    /\ result' = "Duplicate"
    /\ head' = h
    /\ ancestor' = h
    /\ cache' = CacheInsert(cache, h)
    /\ UNCHANGED <<tip, known, finalized, cursor, replacement, rollbacks>>

ApplyFirst(h) ==
    /\ h \notin known
    /\ tip = None
    /\ IF Height[h] # 0
       THEN FailWith("MissingParent")
       ELSE head' = h /\ Return("Bootstrap", None, <<>>, <<h>>)

ApplyExtend(h) ==
    /\ h \notin known /\ tip \notin {None, h}
    /\ Parent[h] = tip
    /\ IF Height[h] # Height[tip] + 1
       THEN FailWith("InvalidExtensionHeight")
       ELSE head' = h /\ Return("Extend", tip, <<>>, <<h>>)

\* Neither known nor a child of the tip: enter resolve_common_ancestor.
ApplyElsewhere(h) ==
    /\ h \notin known /\ tip \notin {None, h}
    /\ Parent[h] # tip
    /\ phase' = "ancestor"
    /\ head' = h
    /\ cursor' = h
    /\ UNCHANGED <<memory, replacement, rollbacks, ancestor, result>>

Apply(h) ==
    /\ phase = "idle"
    /\ \/ ApplyDuplicate(h)
       \/ ApplyFirst(h)
       \/ ApplyExtend(h)
       \/ ApplyElsewhere(h)

\* The cache or the canonical index holds the parent of a header.
HeldLocally(b) ==
    \/ Parent[b] \in Range(cache)
    \/ \E c \in known : c = Parent[b] /\ Height[c] + 1 = Height[b]

\* Variant: the parent is taken by hash alone.
ClimbByHash(answer) ==
    LET parent == IF HeldLocally(cursor) THEN Parent[cursor] ELSE answer IN
    IF Height[cursor] = 0 \/ parent = None THEN FailWith("MissingParent")
    ELSE IF Parent[cursor] # parent THEN FailWith("InvalidParentLink")
    ELSE cursor' = parent /\ UNCHANGED <<memory, phase, head, ancestor, result>>

\* parent_for: `answer` is what header_by_hash returns if it is asked.
Climb(answer) ==
    LET parent == IF HeldLocally(cursor) THEN Parent[cursor] ELSE answer IN
    IF Height[cursor] = 0 \/ parent = None THEN FailWith("MissingParent")
    ELSE IF ~Links(cursor, parent) THEN FailWith("InvalidParentLink")
    ELSE cursor' = parent /\ UNCHANGED <<memory, phase, head, ancestor, result>>

\* Variant: the boundary is one block too low.
AncestorFoundBelow(persisted) ==
    /\ phase = "ancestor"
    /\ cursor \in known \/ persisted
    /\ IF Height[cursor] + 1 < finalized
       THEN FailWith("FinalizedBoundary")
       ELSE /\ phase' = "rollback"
            /\ ancestor' = cursor
            /\ cursor' = tip
            /\ UNCHANGED <<memory, head, replacement, rollbacks, result>>

\* canonical_match found the cursor: in memory, or among the durable rows as
\* `persisted` says.  Then enforce_finalized_boundary.
AncestorFound(persisted) ==
    /\ phase = "ancestor"
    /\ cursor \in known \/ persisted
    /\ IF Height[cursor] < finalized
       THEN FailWith("FinalizedBoundary")
       ELSE /\ phase' = "rollback"
            /\ ancestor' = cursor
            /\ cursor' = tip
            /\ UNCHANGED <<memory, head, replacement, rollbacks, result>>

\* Variant: the depth is compared before it is counted.
AncestorStepDeeper(persisted, answer) ==
    /\ phase = "ancestor"
    /\ cursor \notin known /\ ~persisted
    /\ IF Len(replacement) > MaxReorgDepth
       THEN FailWith("MaxDepthExceeded")
       ELSE /\ Climb(answer)
            /\ phase' = "ancestor" =>
                   /\ replacement' = Append(replacement, cursor)
                   /\ UNCHANGED rollbacks

\* The new branch is walked down by one header.
AncestorStep(persisted, answer) ==
    /\ phase = "ancestor"
    /\ cursor \notin known /\ ~persisted
    /\ IF Len(replacement) + 1 > MaxReorgDepth
       THEN FailWith("MaxDepthExceeded")
       ELSE /\ Climb(answer)
            /\ phase' = "ancestor" =>
                   /\ replacement' = Append(replacement, cursor)
                   /\ UNCHANGED rollbacks

\* The old branch is walked down by one header.
RollbackStep(answer) ==
    /\ phase = "rollback"
    /\ Height[cursor] > Height[ancestor]
    /\ IF Len(rollbacks) + 1 > MaxReorgDepth
       THEN FailWith("MaxDepthExceeded")
       ELSE /\ Climb(answer)
            /\ phase' = "rollback" =>
                   /\ rollbacks' = Append(rollbacks, cursor)
                   /\ UNCHANGED replacement

\* The loop is left: the old branch must have led to the same ancestor.
RollbackDone ==
    /\ phase = "rollback"
    /\ Height[cursor] <= Height[ancestor]
    /\ IF cursor # ancestor
       THEN FailWith("MissingParent")
       ELSE /\ Return(CASE rollbacks # <<>> -> "Reorg"
                        [] rollbacks = <<>> /\ replacement # <<>> -> "Gap"
                        [] OTHER -> "Duplicate",
                      ancestor, rollbacks, Reverse(replacement))
            /\ UNCHANGED head

\* A resolver call returned an error.
ResolverFails ==
    /\ phase \in {"ancestor", "rollback"}
    /\ FailWith("Resolver")

\* The rows once a returned batch was written.
CanonicalAfter == (canonical \ Range(rollbacks)) \cup Range(replacement)
-----------------------------------------------------------------------------
(* The properties every caller relies on. *)

ChainTypeOK ==
    /\ tip \in Blocks \cup {None}
    /\ known \subseteq Blocks
    /\ Range(cache) \subseteq Blocks /\ Len(cache) <= CacheSize
    /\ finalized \in Nat
    /\ phase \in {"idle", "ancestor", "rollback", "returned"}
    /\ head \in Blocks \cup {None}
    /\ cursor \in Blocks \cup {None}
    /\ Range(replacement) \subseteq Blocks
    /\ Range(rollbacks) \subseteq Blocks
    /\ ancestor \in Blocks \cup {None}
    /\ result \in Transitions \cup Errors \cup {None}
    /\ canonical \subseteq Blocks

\* A returned batch is a path in the block tree: it rolls back the old branch, tip
\* first, down to the common ancestor, then applies the new one, ancestor first, up
\* to the observed head, each header linked by hash and height, within the depth
\* limit on both sides and never below the finalized height.
BatchIsPath(oldTip) ==
    phase = "returned" =>
        /\ Len(rollbacks) <= MaxReorgDepth
        /\ Len(replacement) <= MaxReorgDepth
        /\ ancestor # None =>
               /\ Linked(<<ancestor>> \o Reverse(rollbacks))
               /\ Linked(<<ancestor>> \o replacement)
               /\ rollbacks # <<>> => Height[ancestor] >= finalized
        /\ rollbacks # <<>> => rollbacks[1] = oldTip
        /\ rollbacks = <<>> /\ replacement # <<>> => ancestor = oldTip
        /\ IF replacement = <<>> THEN head = ancestor ELSE head = Last(replacement)
=============================================================================
