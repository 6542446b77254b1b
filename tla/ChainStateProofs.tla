-------------------------- MODULE ChainStateProofs --------------------------
(***************************************************************************)
(* What holds during a call of ChainState::apply, whoever makes it: lemmas *)
(* about paths and chains of headers, and the invariant of a call, for the *)
(* callers' proofs (ChainSessionProofs, LiveTrackerProofs) to cite.        *)
(***************************************************************************)
EXTENDS ChainState, WellFoundedInduction, TLAPS

\* A path leads from its top, header by header, down to just above its end.
Descends(top, path, end) ==
    /\ path = <<>> => end = top
    /\ path # <<>> => path[1] = top /\ Links(path[Len(path)], end)
    /\ \A i \in 1..Len(path) - 1 : Links(path[i], path[i + 1])
    /\ \A i \in 1..Len(path) : Height[path[i]] = Height[end] + 1 + (Len(path) - i)

\* The types the argument needs.  (What the cache holds plays no part in it.)
ChainShape ==
    /\ tip \in Blocks \cup {None} /\ known \subseteq Blocks /\ finalized \in Nat
    /\ phase \in {"idle", "ancestor", "rollback", "returned"}
    /\ head \in Blocks \cup {None} /\ cursor \in Blocks \cup {None}
    /\ replacement \in Seq(Blocks) /\ rollbacks \in Seq(Blocks)
    /\ ancestor \in Blocks \cup {None}
    /\ canonical \subseteq Blocks

\* Where apply stands: the new branch found so far leads from the head to the
\* cursor; once the ancestor is known, the old one leads from the tip to it.
WalkInOrder ==
    /\ phase = "idle" => replacement = <<>> /\ rollbacks = <<>> /\ ancestor = None
    /\ phase \in {"ancestor", "rollback"} =>
           /\ tip \in Blocks /\ head \in Blocks /\ cursor \in Blocks
           /\ Len(replacement) <= MaxReorgDepth
    /\ phase = "ancestor" =>
           /\ rollbacks = <<>> /\ ancestor = None
           /\ Descends(head, replacement, cursor)
    /\ phase = "rollback" =>
           /\ ancestor \in Blocks /\ Height[ancestor] >= finalized
           /\ Len(rollbacks) <= MaxReorgDepth
           /\ Descends(head, replacement, ancestor)
           /\ Descends(tip, rollbacks, cursor)

Above(S, b) == {c \in S : Height[c] > Height[b]}

\* The durable rows are one chain with a top.
RowsAreChain ==
    /\ OneChain(canonical)
    /\ canonical # {} => \E b \in canonical : IsTop(b, canonical)

\* Until apply returns, the memory is that of the rows and the tip is the old one.
MemoryOnRows(old) ==
    phase # "returned" =>
        /\ tip = old
        /\ tip = None => canonical = {} /\ known = {}
        /\ tip # None => known \subseteq canonical /\ IsTop(tip, canonical)

\* The way down the old branch stays on the rows.
RollbackOnRows ==
    phase = "rollback" =>
        /\ ancestor \in canonical /\ cursor \in canonical
        /\ Height[cursor] >= Height[ancestor]
        /\ Range(rollbacks) = Above(canonical, cursor)

\* What was returned fits the rows: everything above the ancestor is rolled back and
\* the new headers go one above the other from there.
BatchOnRows(old) ==
    phase = "returned" =>
        /\ old = None =>
               /\ canonical = {} /\ rollbacks = <<>> /\ ancestor = None
               /\ replacement = <<head>> /\ head \in Blocks /\ tip = head
               /\ known = {head} /\ Height[head] = 0
        /\ old # None =>
               /\ IsTop(old, canonical) /\ ancestor \in canonical
               /\ tip = IF replacement = <<>> THEN old ELSE Last(replacement)
               /\ known \subseteq CanonicalAfter
               /\ \A i \in 1..Len(replacement) :
                      Height[replacement[i]] = Height[ancestor] + i
               /\ rollbacks # <<>> \/ replacement # <<>> =>
                      Range(rollbacks) = Above(canonical, ancestor)

\* A call made when the tip was `old`, from its first line to what it returned, while
\* nobody writes the rows.
CallInv(old) ==
    /\ ChainShape /\ WalkInOrder /\ BatchIsPath(old) /\ RowsAreChain
    /\ MemoryOnRows(old) /\ RollbackOnRows /\ BatchOnRows(old)
-----------------------------------------------------------------------------
(* Paths. *)

\* A header of the path more.
LEMMA DescendsFurther ==
    ASSUME NEW top \in Blocks, NEW path \in Seq(Blocks), NEW c \in Blocks, NEW p \in Blocks,
           Descends(top, path, c), Links(c, p)
    PROVE  /\ Append(path, c) \in Seq(Blocks)
           /\ Descends(top, Append(path, c), p)
<1>. DEFINE q == Append(path, c)
<1>1. /\ q \in Seq(Blocks) /\ Len(path) \in Nat /\ Len(q) = Len(path) + 1
      /\ q[Len(path) + 1] = c /\ \A i \in 1..Len(path) : q[i] = path[i]
      OBVIOUS
<1>h. /\ Height[c] = Height[p] + 1 /\ Height[p] \in Nat
      /\ \A i \in 1..Len(path) : Height[path[i]] = Height[c] + 1 + (Len(path) - i)
      BY HeightAssumption DEF Links, Descends
<1>. HIDE DEF q
<1>2. q # <<>> /\ q[Len(q)] = c /\ Links(q[Len(q)], p)
      BY <1>1
<1>3. q[1] = top
  <2>1. CASE path = <<>>
        BY <1>1, <2>1 DEF Descends
  <2>2. CASE path # <<>>
    <3>1. 1 \in 1..Len(path)
          BY <2>2
    <3>. QED  BY <1>1, <2>2, <3>1 DEF Descends
  <2>. QED  BY <2>1, <2>2
<1>4. ASSUME NEW i \in 1..Len(q) - 1 PROVE Links(q[i], q[i + 1])
  <2>1. CASE i = Len(path)
    <3>1. path # <<>> /\ i \in 1..Len(path)
          BY <1>1, <1>4, <2>1
    <3>. QED  BY <1>1, <2>1, <3>1 DEF Descends
  <2>2. CASE i \in 1..Len(path) - 1
        BY <1>1, <2>2 DEF Descends
  <2>. QED  BY <1>1, <1>4, <2>1, <2>2
<1>5. ASSUME NEW i \in 1..Len(q) PROVE Height[q[i]] = Height[p] + 1 + (Len(q) - i)
  <2>1. CASE i = Len(path) + 1
        BY <1>1, <1>h, <2>1
  <2>2. CASE i \in 1..Len(path)
    <3>1. Height[q[i]] = Height[c] + 1 + (Len(path) - i)
          BY <1>1, <1>h, <2>2
    <3>2. Height[c] = Height[p] + 1 /\ Height[p] \in Nat
          BY <1>h
    <3>3. Len(q) = Len(path) + 1 /\ Len(path) \in Nat
          BY <1>1
    <3>4. Height[c] + 1 + (Len(path) - i) = Height[p] + 1 + (Len(q) - i)
          BY <3>2, <3>3
    <3>. QED  BY <3>1, <3>4
  <2>. QED  BY <1>1, <1>5, <2>1, <2>2
<1>. QED  BY <1>1, <1>2, <1>3, <1>4, <1>5 DEF Descends, q

\* Read upwards, a path is a linked chain on top of its end, one height a step.
LEMMA PathUpwards ==
    ASSUME NEW top \in Blocks, NEW path \in Seq(Blocks), NEW end \in Blocks,
           Descends(top, path, end)
    PROVE  /\ Reverse(path) \in Seq(Blocks) /\ Len(Reverse(path)) = Len(path)
           /\ Range(Reverse(path)) = Range(path)
           /\ Linked(<<end>> \o Reverse(path))
           /\ \A i \in 1..Len(path) : Height[Reverse(path)[i]] = Height[end] + i
           /\ IF path = <<>> THEN end = top /\ Reverse(path) = <<>>
              ELSE Last(Reverse(path)) = top /\ Reverse(path) # <<>>
<1>. DEFINE r == Reverse(path)
            u == <<end>> \o r
<1>1. /\ r \in Seq(Blocks) /\ Len(path) \in Nat /\ Len(r) = Len(path)
      /\ \A i \in 1..Len(path) : r[i] = path[Len(path) - i + 1]
      BY DEF Reverse
<1>2. /\ Len(u) = Len(path) + 1 /\ u[1] = end
      /\ \A i \in 1..Len(path) : u[i + 1] = r[i]
      BY <1>1
<1>. HIDE DEF r, u
<1>3. Range(r) = Range(path)
  <2>1. DOMAIN r = 1..Len(path) /\ DOMAIN path = 1..Len(path)
        BY <1>1
  <2>2. \A i \in 1..Len(path) : Len(path) - i + 1 \in 1..Len(path)
        BY <1>1
  <2>3. ASSUME NEW i \in 1..Len(path) PROVE path[i] = r[Len(path) - i + 1]
    <3>1. r[Len(path) - i + 1] = path[Len(path) - (Len(path) - i + 1) + 1]
          BY <1>1, <2>2
    <3>2. Len(path) - (Len(path) - i + 1) + 1 = i
          BY <1>1
    <3>. QED  BY <3>1, <3>2
  <2>4. Range(r) \subseteq Range(path)
        BY <1>1, <2>1, <2>2 DEF Range
  <2>5. Range(path) \subseteq Range(r)
        BY <2>1, <2>2, <2>3 DEF Range
  <2>. QED  BY <2>4, <2>5
<1>4. ASSUME NEW i \in 1..Len(u) - 1 PROVE Links(u[i + 1], u[i])
  <2>1. CASE i = 1
    <3>1. path # <<>> /\ Len(path) \in 1..Len(path) /\ 1 \in 1..Len(path)
          BY <1>1, <1>2, <1>4, <2>1
    <3>2. u[2] = path[Len(path)] /\ u[1] = end
          BY <1>1, <1>2, <3>1
    <3>. QED  BY <2>1, <3>1, <3>2 DEF Descends
  <2>2. CASE i > 1
    <3>1. i - 1 \in 1..Len(path) /\ i \in 1..Len(path) /\ Len(path) - i + 1 \in 1..Len(path) - 1
          BY <1>1, <1>2, <1>4, <2>2
    <3>2. u[i + 1] = path[Len(path) - i + 1] /\ u[i] = path[(Len(path) - i + 1) + 1]
      <4>1. u[i + 1] = r[i] /\ u[(i - 1) + 1] = r[i - 1]
            BY <1>2, <3>1
      <4>2. r[i] = path[Len(path) - i + 1] /\ r[i - 1] = path[Len(path) - (i - 1) + 1]
            BY <1>1, <3>1
      <4>3. (i - 1) + 1 = i /\ Len(path) - (i - 1) + 1 = (Len(path) - i + 1) + 1
            BY <1>1, <3>1
      <4>. QED  BY <4>1, <4>2, <4>3
    <3>. QED  BY <3>1, <3>2 DEF Descends
  <2>. QED  BY <1>1, <1>2, <1>4, <2>1, <2>2
<1>5. ASSUME NEW i \in 1..Len(path) PROVE Height[r[i]] = Height[end] + i
  <2>1. Len(path) - i + 1 \in 1..Len(path) /\ Height[end] \in Nat
        BY <1>1, <1>5, HeightAssumption
  <2>2. Height[path[Len(path) - i + 1]] = Height[end] + 1 + (Len(path) - (Len(path) - i + 1))
        BY <2>1 DEF Descends
  <2>3. Height[end] + 1 + (Len(path) - (Len(path) - i + 1)) = Height[end] + i
        BY <1>1, <2>1
  <2>. QED  BY <1>1, <2>2, <2>3
<1>6. IF path = <<>> THEN end = top /\ r = <<>> ELSE Last(r) = top /\ r # <<>>
  <2>1. CASE path = <<>>
        BY <1>1, <2>1 DEF Descends
  <2>2. CASE path # <<>>
    <3>1. Len(path) \in 1..Len(path)
          BY <1>1, <2>2
    <3>. QED  BY <1>1, <2>2, <3>1 DEF Descends, Last
  <2>. QED  BY <2>1, <2>2
<1>. QED  BY <1>1, <1>3, <1>4, <1>5, <1>6 DEF Linked, r, u

\* A chain of one header is linked; so is one of a header and its child.
LEMMA ShortChains ==
    ASSUME NEW a \in Blocks, NEW b \in Blocks, Links(b, a)
    PROVE  Linked(<<a>> \o Reverse(<<>>)) /\ Linked(<<a>> \o <<b>>)
<1>1. Reverse(<<>>) = <<>>
      BY DEF Reverse
<1>2. <<a>> \in Seq(Blocks) /\ <<b>> \in Seq(Blocks) /\ <<>> \in Seq(Blocks)
      OBVIOUS
<1>3. Linked(<<a>> \o Reverse(<<>>))
      BY <1>1, <1>2 DEF Linked
<1>4. Linked(<<a>> \o <<b>>)
  <2>. DEFINE u == <<a>> \o <<b>>
  <2>1. Len(u) = 2 /\ u[1] = a /\ u[2] = b
        BY <1>2
  <2>. HIDE DEF u
  <2>2. \A i \in 1..Len(u) - 1 : i = 1
        BY <2>1
  <2>3. Links(u[1 + 1], u[1])
        BY <2>1
  <2>4. Linked(u)
        BY <2>2, <2>3 DEF Linked
  <2>. QED  BY <2>4 DEF u
<1>. QED  BY <1>3, <1>4

\* What Linked says of the headers on top of one.
LEMMA LinkedOnTop ==
    ASSUME NEW a \in Blocks, NEW ups \in Seq(Blocks), Linked(<<a>> \o ups)
    PROVE  /\ \A i \in 1..Len(ups) - 1 : Parent[ups[i + 1]] = ups[i]
           /\ ups # <<>> => Parent[ups[1]] = a
<1>. DEFINE u == <<a>> \o ups
<1>1. /\ Len(ups) \in Nat /\ Len(u) = Len(ups) + 1 /\ u[1] = a
      /\ \A i \in 1..Len(ups) : u[i + 1] = ups[i]
      OBVIOUS
<1>. HIDE DEF u
<1>2. \A i \in 1..Len(u) - 1 : Parent[u[i + 1]] = u[i]
      BY DEF Linked, Links, u
<1>3. ASSUME NEW i \in 1..Len(ups) - 1 PROVE Parent[ups[i + 1]] = ups[i]
  <2>1. i \in 1..Len(ups) /\ i + 1 \in 1..Len(ups) /\ i + 1 \in 1..Len(u) - 1
        BY <1>1
  <2>2. u[i + 1] = ups[i] /\ u[(i + 1) + 1] = ups[i + 1]
        BY <1>1, <2>1
  <2>. QED  BY <1>2, <2>1, <2>2
<1>4. ASSUME ups # <<>> PROVE Parent[ups[1]] = a
  <2>1. 1 \in 1..Len(ups) /\ 1 \in 1..Len(u) - 1
        BY <1>1, <1>4
  <2>2. u[1 + 1] = ups[1]
        BY <1>1, <2>1
  <2>. QED  BY <1>1, <1>2, <2>1, <2>2
<1>. QED  BY <1>3, <1>4
-----------------------------------------------------------------------------
(* Sets of rows. *)

\* Headers one height after the other, each the parent of the next, are one chain
\* that ends in the last of them.
LEMMA SequenceIsChain ==
    ASSUME NEW ups \in Seq(Blocks), NEW n \in Nat,
           \A i \in 1..Len(ups) : Height[ups[i]] = n + i,
           \A i \in 1..Len(ups) - 1 : Parent[ups[i + 1]] = ups[i]
    PROVE  /\ OneChain(Range(ups))
           /\ ups # <<>> => IsTop(Last(ups), Range(ups)) /\ Height[Last(ups)] = n + Len(ups)
<1>1. Len(ups) \in Nat /\ DOMAIN ups = 1..Len(ups)
      OBVIOUS
<1>2. \A b \in Range(ups) : \E i \in 1..Len(ups) : b = ups[i]
      BY <1>1 DEF Range
<1>3. \A i \in 1..Len(ups) : ups[i] \in Range(ups)
      BY <1>1 DEF Range
<1>4. ASSUME NEW b \in Range(ups), NEW c \in Range(ups), Height[b] = Height[c]
      PROVE  b = c
  <2>1. PICK i \in 1..Len(ups) : b = ups[i]
        BY <1>2
  <2>2. PICK j \in 1..Len(ups) : c = ups[j]
        BY <1>2
  <2>3. n + i = n + j
        BY <1>4, <2>1, <2>2
  <2>4. i = j
        BY <1>1, <2>3
  <2>. QED  BY <2>1, <2>2, <2>4
<1>5. ASSUME NEW b \in Range(ups), NEW c \in Range(ups), Height[c] < Height[b]
      PROVE  \E q \in Range(ups) : Links(b, q)
  <2>1. PICK i \in 1..Len(ups) : b = ups[i]
        BY <1>2
  <2>2. PICK j \in 1..Len(ups) : c = ups[j]
        BY <1>2
  <2>3. n + j < n + i
        BY <1>5, <2>1, <2>2
  <2>4. i - 1 \in 1..Len(ups) /\ i - 1 \in 1..Len(ups) - 1 /\ (i - 1) + 1 = i
        BY <1>1, <2>3
  <2>5. Parent[ups[i]] = ups[i - 1]
        BY <2>4
  <2>6. Height[ups[i]] = n + i /\ Height[ups[i - 1]] = n + (i - 1)
        BY <2>4
  <2>7. n + i = n + (i - 1) + 1
        OBVIOUS
  <2>. QED  BY <1>3, <2>1, <2>4, <2>5, <2>6, <2>7 DEF Links
<1>6. ASSUME ups # <<>>
      PROVE  IsTop(Last(ups), Range(ups)) /\ Height[Last(ups)] = n + Len(ups)
  <2>1. Len(ups) \in 1..Len(ups)
        BY <1>1, <1>6
  <2>2. Last(ups) = ups[Len(ups)] /\ Height[Last(ups)] = n + Len(ups)
        BY <2>1 DEF Last
  <2>3. ASSUME NEW c \in Range(ups) PROVE Height[c] <= Height[Last(ups)]
    <3>1. PICK i \in 1..Len(ups) : c = ups[i]
          BY <1>2
    <3>2. Height[c] = n + i
          BY <3>1
    <3>. QED  BY <1>1, <2>2, <3>2
  <2>. QED  BY <1>3, <2>1, <2>2, <2>3 DEF IsTop
<1>. QED  BY <1>4, <1>5, <1>6 DEF OneChain

\* The top of a chain is cut off above one of its headers and others put there.
Graft(S, a, ups) == (S \ Above(S, a)) \cup Range(ups)

LEMMA Grafted ==
    ASSUME NEW S \in SUBSET Blocks, OneChain(S), NEW a \in S, NEW ups \in Seq(Blocks),
           \A i \in 1..Len(ups) : Height[ups[i]] = Height[a] + i,
           \A i \in 1..Len(ups) - 1 : Parent[ups[i + 1]] = ups[i],
           ups # <<>> => Parent[ups[1]] = a
    PROVE  /\ OneChain(Graft(S, a, ups))
           /\ LET top == IF ups = <<>> THEN a ELSE Last(ups)
              IN  IsTop(top, Graft(S, a, ups)) /\ Height[top] = Height[a] + Len(ups)
<1>. DEFINE kept == S \ Above(S, a)
            T == kept \cup Range(ups)
<1>h. /\ \A b \in S : Height[b] \in Nat
      /\ Height[a] \in Nat /\ a \in Blocks
      BY HeightAssumption
<1>1. /\ OneChain(Range(ups))
      /\ ups # <<>> => IsTop(Last(ups), Range(ups)) /\ Height[Last(ups)] = Height[a] + Len(ups)
      BY <1>h, SequenceIsChain
<1>2. /\ \A b \in kept : b \in S /\ Height[b] <= Height[a]
      /\ \A b \in S : Height[b] <= Height[a] => b \in kept
      BY <1>h DEF Above
<1>3. \A b \in Range(ups) : Height[b] \in Nat /\ Height[b] > Height[a]
      BY <1>h DEF Range
<1>4. a \in kept
      BY <1>2, <1>h
<1>. HIDE DEF kept
<1>5. ASSUME NEW b \in T, NEW c \in T, Height[b] = Height[c]
      PROVE  b = c
  <2>1. CASE b \in kept /\ c \in kept
        BY <1>2, <1>5, <2>1 DEF OneChain
  <2>2. CASE b \in Range(ups) /\ c \in Range(ups)
        BY <1>1, <1>5, <2>2 DEF OneChain
  <2>3. ASSUME NEW x \in kept, NEW y \in Range(ups) PROVE Height[x] # Height[y]
        BY <1>2, <1>3, <1>h
  <2>. QED  BY <1>5, <2>1, <2>2, <2>3
<1>6. ASSUME NEW b \in T, NEW c \in T, Height[c] < Height[b]
      PROVE  \E q \in T : Links(b, q)
  <2>1. CASE b \in kept
    <3>1. c \in kept
          BY <1>2, <1>3, <1>6, <1>h, <2>1
    <3>2. PICK q \in S : Links(b, q)
          BY <1>2, <1>6, <2>1, <3>1 DEF OneChain
    <3>3. Height[q] <= Height[a]
          BY <1>2, <1>h, <2>1, <3>2 DEF Links
    <3>. QED  BY <1>2, <3>2, <3>3
  <2>2. CASE b \in Range(ups)
    <3>1. PICK i \in 1..Len(ups) : b = ups[i]
          BY <2>2 DEF Range
    <3>2. CASE i = 1
      <4>1. ups # <<>> /\ 1 \in 1..Len(ups)
            BY <3>1, <3>2
      <4>2. Links(b, a)
            BY <3>1, <3>2, <4>1 DEF Links
      <4>. QED  BY <1>4, <4>2
    <3>3. CASE i > 1
      <4>1. 1 \in 1..Len(ups) /\ DOMAIN ups = 1..Len(ups) /\ Len(ups) \in Nat
            BY <3>1
      <4>2. ups[1] \in Range(ups) /\ Height[ups[1]] = Height[a] + 1 /\ Height[b] = Height[a] + i
            BY <3>1, <4>1 DEF Range
      <4>3. Height[ups[1]] < Height[b]
            BY <1>h, <3>3, <4>2
      <4>. QED  BY <1>1, <2>2, <4>2, <4>3 DEF OneChain
    <3>. QED  BY <3>1, <3>2, <3>3
  <2>. QED  BY <1>6, <2>1, <2>2
<1>7. OneChain(T)
      BY <1>5, <1>6 DEF OneChain
<1>8. CASE ups = <<>>
  <2>1. Range(ups) = {} /\ Len(ups) = 0
        BY <1>8 DEF Range
  <2>2. IsTop(a, T) /\ Height[a] = Height[a] + Len(ups)
        BY <1>2, <1>4, <1>h, <2>1 DEF IsTop
  <2>. QED  BY <1>7, <1>8, <2>2 DEF Graft, kept
<1>9. CASE ups # <<>>
  <2>1. IsTop(Last(ups), Range(ups)) /\ Height[Last(ups)] = Height[a] + Len(ups)
        BY <1>1, <1>9
  <2>2. Last(ups) \in Range(ups) /\ Height[Last(ups)] > Height[a] /\ Height[Last(ups)] \in Nat
        BY <1>3, <2>1 DEF IsTop
  <2>3. IsTop(Last(ups), T)
        BY <1>2, <1>h, <2>1, <2>2 DEF IsTop
  <2>. QED  BY <1>7, <1>9, <2>1, <2>3 DEF Graft, kept
<1>. QED  BY <1>8, <1>9
-----------------------------------------------------------------------------
(* The header cache. *)

\* Sequences of headers within the bound of the cache.
Caches == {q \in Seq(Blocks) : Len(q) <= CacheSize}

\* HeaderCache::insert keeps the bound: a full cache drops its oldest header first.
LEMMA Inserted ==
    ASSUME NEW q \in Caches, NEW b \in Blocks
    PROVE  CacheInsert(q, b) \in Caches
<1>1. q \in Seq(Blocks) /\ Len(q) \in Nat /\ Len(q) <= CacheSize /\ CacheSize \in Nat \ {0}
      BY BoundsAssumption DEF Caches
<1>2. CASE b \in Range(q)
      BY <1>2 DEF CacheInsert
<1>3. CASE b \notin Range(q) /\ Len(q) = CacheSize
  <2>1. q # <<>>
        BY <1>1, <1>3
  <2>2. Tail(q) \in Seq(Blocks) /\ Len(Tail(q)) = Len(q) - 1
        BY <1>1, <2>1
  <2>. DEFINE r == Tail(q)
  <2>. HIDE DEF r
  <2>3. Append(r, b) \in Seq(Blocks) /\ Len(Append(r, b)) = Len(r) + 1
        BY <2>2 DEF r
  <2>4. Append(r, b) \in Caches
        BY <1>1, <1>3, <2>2, <2>3 DEF Caches, r
  <2>. QED  BY <1>3, <2>4 DEF CacheInsert, r
<1>4. CASE b \notin Range(q) /\ Len(q) # CacheSize
  <2>1. Append(q, b) \in Seq(Blocks) /\ Len(Append(q, b)) = Len(q) + 1
        BY <1>1
  <2>2. Append(q, b) \in Caches
        BY <1>1, <1>4, <2>1 DEF Caches
  <2>. QED  BY <1>4, <2>2 DEF CacheInsert
<1>. QED  BY <1>2, <1>3, <1>4

\* A set that holds 0 and with every number the next, up to n, holds them all.
LEMMA Upwards ==
    ASSUME NEW S, NEW n \in Nat, 0 \in S, \A i \in Nat : i < n /\ i \in S => i + 1 \in S
    PROVE  \A i \in 0..n : i \in S
<1>. DEFINE Missing == {i \in Nat : i <= n /\ i \notin S}
<1>1. Missing = {}
  <2>1. SUFFICES ASSUME Missing # {} PROVE FALSE
        OBVIOUS
  <2>2. PICK k \in Missing : \A j \in Missing : ~(<<j, k>> \in OpToRel(<, Nat))
        BY <2>1, WFMin, NatLessThanWellFounded
  <2>3. k \in Nat /\ k <= n /\ k \notin S
        OBVIOUS
  <2>4. \A j \in Nat : j < k => <<j, k>> \in OpToRel(<, Nat)
        BY <2>3, Zenon DEF OpToRel
  <2>. HIDE DEF Missing
  <2>5. k # 0
        BY <2>3
  <2>6. k - 1 \in Nat /\ k - 1 < k /\ k - 1 < n /\ k - 1 <= n /\ (k - 1) + 1 = k
        BY <2>3, <2>5
  <2>7. k - 1 \notin Missing
        BY <2>2, <2>4, <2>6
  <2>8. k - 1 \in S
        BY <2>6, <2>7 DEF Missing
  <2>9. (k - 1) + 1 \in S
        BY <2>6, <2>8
  <2>. QED  BY <2>3, <2>6, <2>9
<1>. QED  BY <1>1

\* So do any number of insertions, whatever is inserted.
LEMMA InsertedAll ==
    ASSUME NEW q \in Caches, NEW bs \in Seq(Blocks)
    PROVE  CacheInsertAll(q, bs) \in Caches
<1>. DEFINE n == Len(bs)
            Entry(f, i) == IF i = 0 THEN q ELSE CacheInsert(f[i - 1], bs[i])
            Built(m) == {g \in [0..m -> Caches] : \A i \in 0..m : g[i] = Entry(g, i)}
            Buildable == {m \in Nat : Built(m) # {}}
            after == CHOOSE f : f = [i \in 0..n |-> Entry(f, i)]
<1>1. n \in Nat /\ \A i \in 1..n : bs[i] \in Blocks
      OBVIOUS
<1>. HIDE DEF n
<1>2. 0 \in Buildable
  <2>. DEFINE g == [i \in 0..0 |-> q]
  <2>1. g \in [0..0 -> Caches] /\ \A i \in 0..0 : i = 0 /\ g[i] = q
        OBVIOUS
  <2>. HIDE DEF g
  <2>2. g \in Built(0)
        BY <2>1
  <2>. QED  BY <2>2
<1>3. ASSUME NEW m \in Nat, m < n, m \in Buildable PROVE m + 1 \in Buildable
  <2>1. PICK g \in [0..m -> Caches] : \A i \in 0..m : g[i] = Entry(g, i)
        BY <1>3
  <2>. DEFINE more == CacheInsert(g[m], bs[m + 1])
              h == [i \in 0..m + 1 |-> IF i = m + 1 THEN more ELSE g[i]]
  <2>2. more \in Caches
    <3>1. m \in 0..m /\ m + 1 \in 1..n
          BY <1>1, <1>3
    <3>2. g[m] \in Caches /\ bs[m + 1] \in Blocks
          BY <1>1, <2>1, <3>1
    <3>. QED  BY <3>2, Inserted
  <2>3. \A i \in 0..m + 1 : i # m + 1 => i \in 0..m
        OBVIOUS
  <2>. HIDE DEF more
  <2>4. h \in [0..m + 1 -> Caches]
        BY <2>1, <2>2, <2>3
  <2>5. h[m + 1] = more /\ \A i \in 0..m : h[i] = g[i]
    <3>1. m + 1 \in 0..m + 1 /\ \A i \in 0..m : i \in 0..m + 1 /\ i # m + 1
          OBVIOUS
    <3>. QED  BY <3>1
  <2>. HIDE DEF h
  <2>6. ASSUME NEW i \in 0..m + 1 PROVE h[i] = Entry(h, i)
    <3>1. CASE i = m + 1
      <4>1. i # 0 /\ i - 1 = m /\ m \in 0..m
            BY <3>1
      <4>2. h[i] = CacheInsert(g[m], bs[i]) /\ h[i - 1] = g[m]
            BY <2>5, <3>1, <4>1 DEF more
      <4>. QED  BY <4>1, <4>2
    <3>2. CASE i \in 0..m /\ i # 0
      <4>1. i - 1 \in 0..m
            BY <3>2
      <4>. QED  BY <2>1, <2>5, <3>2, <4>1
    <3>3. CASE i = 0
      <4>1. 0 \in 0..m
            OBVIOUS
      <4>. QED  BY <2>1, <2>5, <3>3, <4>1
    <3>. QED  BY <2>3, <3>1, <3>2, <3>3
  <2>7. h \in Built(m + 1)
        BY <2>4, <2>6
  <2>. QED  BY <2>7
<1>4. n \in Buildable
  <2>1. n \in 0..n
        BY <1>1
  <2>. HIDE DEF Buildable
  <2>. QED  BY <1>1, <1>2, <1>3, <2>1, Upwards
<1>5. after = [i \in 0..n |-> Entry(after, i)]
  <2>1. PICK g \in [0..n -> Caches] : \A i \in 0..n : g[i] = Entry(g, i)
        BY <1>4
  <2>2. g = [i \in 0..n |-> Entry(g, i)]
        BY <2>1
  <2>. HIDE DEF Entry
  <2>. QED  BY <2>2
<1>6. \A i \in 0..n : after[i] = Entry(after, i)
      BY <1>5
<1>. HIDE DEF after
<1>. DEFINE Fine == {i \in Nat : after[i] \in Caches}
<1>7. 0 \in Fine
      BY <1>1, <1>6
<1>8. ASSUME NEW i \in Nat, i < n, i \in Fine PROVE i + 1 \in Fine
  <2>1. i + 1 \in 0..n /\ i + 1 \in 1..n /\ i + 1 # 0 /\ (i + 1) - 1 = i
        BY <1>1, <1>8
  <2>2. after[i + 1] = CacheInsert(after[i], bs[i + 1])
        BY <1>6, <2>1
  <2>3. CacheInsert(after[i], bs[i + 1]) \in Caches
        BY <1>1, <1>8, <2>1, Inserted
  <2>. QED  BY <2>2, <2>3
<1>9. after[n] \in Caches
  <2>1. n \in 0..n
        BY <1>1
  <2>. HIDE DEF Fine
  <2>2. n \in Fine
        BY <1>1, <1>7, <1>8, <2>1, Upwards
  <2>. QED  BY <2>2 DEF Fine
<1>. QED  BY <1>9, Zenon DEF CacheInsertAll, after, n
-----------------------------------------------------------------------------
(* The steps of a call. *)

\* The parts of a path that Climb can extend: parent_for returns nothing but the
\* linked parent, whoever answered.
LEMMA Climbed ==
    ASSUME cursor \in Blocks, NEW answer \in Blocks \cup {None}, Climb(answer)
    PROVE  \/ \E e \in Errors : FailWith(e)
           \/ /\ cursor' \in Blocks /\ Links(cursor, cursor')
              /\ UNCHANGED <<memory, phase, head, ancestor, result>>
<1>1. Parent[cursor] \in Blocks \cup {None}
      BY ParentAssumption
<1>2. {"MissingParent", "InvalidParentLink"} \subseteq Errors
      BY DEF Errors
<1>. DEFINE parent == IF HeldLocally(cursor) THEN Parent[cursor] ELSE answer
<1>3. parent \in Blocks \cup {None}
      BY <1>1
<1>4. \/ FailWith("MissingParent") \/ FailWith("InvalidParentLink")
      \/ /\ parent # None /\ Links(cursor, parent) /\ cursor' = parent
         /\ UNCHANGED <<memory, phase, head, ancestor, result>>
      BY DEF Climb
<1>. QED  BY <1>2, <1>3, <1>4

\* A call that fails leaves the rows and the memory as they were.
LEMMA CallFailed ==
    ASSUME NEW old, CallInv(old), phase # "returned", NEW e, FailWith(e), UNCHANGED canonical
    PROVE  CallInv(old)'
<1>1. ChainShape'
      BY DEF CallInv, ChainShape, FailWith, ClearWalk, memory
<1>2. WalkInOrder' /\ BatchIsPath(old)' /\ RowsAreChain'
      BY DEF CallInv, WalkInOrder, BatchIsPath, RowsAreChain, OneChain, IsTop, FailWith, ClearWalk
<1>3. MemoryOnRows(old)' /\ RollbackOnRows' /\ BatchOnRows(old)'
      BY DEF CallInv, MemoryOnRows, RollbackOnRows, BatchOnRows, IsTop, FailWith, memory
<1>. QED  BY <1>1, <1>2, <1>3 DEF CallInv

\* commit keeps in the index what is still canonical after the batch.
LEMMA KnownIsKept ==
    ASSUME NEW downs, NEW ups, known \subseteq canonical
    PROVE  KnownAfter(downs, ups) \subseteq (canonical \ Range(downs)) \cup Range(ups)
BY DEF KnownAfter

\* A batch on top of a canonical block is returned.
LEMMA CallReturned ==
    ASSUME NEW old, CallInv(old), phase # "returned", tip \in Blocks,
           NEW anc \in canonical, NEW downs \in Seq(Blocks), NEW ups \in Seq(Blocks),
           NEW transition, Return(transition, anc, downs, ups),
           Len(downs) <= MaxReorgDepth, Len(ups) <= MaxReorgDepth,
           Linked(<<anc>> \o Reverse(downs)), Linked(<<anc>> \o ups),
           \A i \in 1..Len(ups) : Height[ups[i]] = Height[anc] + i,
           Range(downs) = Above(canonical, anc),
           IF downs = <<>> THEN anc = tip ELSE downs[1] = tip /\ Height[anc] >= finalized,
           head' \in Blocks, IF ups = <<>> THEN head' = anc ELSE head' = Last(ups),
           UNCHANGED canonical
    PROVE  CallInv(old)'
<1>1. anc \in Blocks /\ tip # None
      BY NoneAssumption DEF CallInv, ChainShape
<1>2. tip = old /\ IsTop(tip, canonical) /\ known \subseteq canonical
      BY <1>1 DEF CallInv, MemoryOnRows
<1>3. ups # <<>> => Last(ups) \in Blocks
      BY DEF Last
<1>4. known' \subseteq (canonical \ Range(downs)) \cup Range(ups)
      BY <1>2, KnownIsKept DEF Return
<1>5. Range(downs) \subseteq Blocks /\ Range(ups) \subseteq Blocks
      BY DEF Range
<1>6. tip' \in Blocks /\ known' \subseteq Blocks
      BY <1>3, <1>4, <1>5 DEF Return, CallInv, ChainShape
<1>7. ChainShape'
      BY <1>1, <1>6 DEF CallInv, ChainShape, Return
<1>8. WalkInOrder' /\ RowsAreChain'
      BY DEF CallInv, WalkInOrder, RowsAreChain, OneChain, IsTop, Return
<1>9. BatchIsPath(old)'
      BY <1>1, <1>2 DEF Return, BatchIsPath
<1>10. MemoryOnRows(old)' /\ RollbackOnRows' /\ BatchOnRows(old)'
  <2>1. MemoryOnRows(old)' /\ RollbackOnRows'
        BY DEF Return, MemoryOnRows, RollbackOnRows
  <2>2. IsTop(old, canonical') /\ old # None
        BY <1>1, <1>2
  <2>3. (known \subseteq CanonicalAfter)'
        BY <1>4 DEF CanonicalAfter, Return
  <2>4. BatchOnRows(old)'
        BY <1>2, <2>2, <2>3 DEF BatchOnRows, Return, Above, IsTop
  <2>. QED  BY <2>1, <2>4
<1>. QED  BY <1>7, <1>8, <1>9, <1>10 DEF CallInv

\* apply, up to the point where it needs a common ancestor.
LEMMA CallBegins ==
    ASSUME NEW old, CallInv(old), NEW h \in Blocks, Apply(h), UNCHANGED canonical
    PROVE  CallInv(old)'
<1>. phase = "idle"
     BY DEF Apply
<1>i. /\ ChainShape /\ tip = old /\ tip \in Blocks \cup {None} /\ h # None
      /\ replacement = <<>> /\ rollbacks = <<>> /\ ancestor = None
      /\ tip = None => canonical = {} /\ known = {}
      /\ tip # None => known \subseteq canonical /\ IsTop(tip, canonical)
      BY NoneAssumption DEF CallInv, ChainShape, WalkInOrder, MemoryOnRows
<1>r. Range(<<>>) = {} /\ Range(<<h>>) = {h}
      BY DEF Range
<1>1. CASE ApplyDuplicate(h)
  <2>1. tip \in Blocks /\ tip # None /\ h \in canonical
        BY <1>1, <1>i DEF ApplyDuplicate, IsTop
  <2>2. ChainShape' /\ WalkInOrder' /\ RowsAreChain'
        BY <1>1, <1>i DEF CallInv, ChainShape, WalkInOrder, RowsAreChain, OneChain, IsTop,
           ApplyDuplicate
  <2>3. BatchIsPath(old)'
    <3>1. Linked(<<h>> \o Reverse(<<>>)) /\ Linked(<<h>> \o <<>>)
          BY DEF Linked, Reverse
    <3>. QED  BY <1>1, <1>i, <3>1, BoundsAssumption DEF BatchIsPath, ApplyDuplicate
  <2>4. (known \subseteq CanonicalAfter)'
        BY <1>1, <1>i, <1>r, <2>1 DEF CanonicalAfter, ApplyDuplicate
  <2>5. IsTop(old, canonical') /\ old # None /\ tip' = old
        BY <1>1, <1>i, <2>1 DEF ApplyDuplicate
  <2>6. MemoryOnRows(old)' /\ RollbackOnRows' /\ BatchOnRows(old)'
        BY <1>1, <1>i, <2>1, <2>4, <2>5 DEF MemoryOnRows, RollbackOnRows, BatchOnRows, ApplyDuplicate
  <2>. QED  BY <2>2, <2>3, <2>6 DEF CallInv
<1>2. CASE ApplyFirst(h)
  <2>1. CASE Height[h] # 0
        BY <1>2, <2>1, CallFailed DEF ApplyFirst
  <2>2. CASE Height[h] = 0
    <3>1. /\ tip = None /\ canonical = {} /\ known = {} /\ head' = h
          /\ phase' = "returned" /\ ancestor' = None /\ rollbacks' = <<>>
          /\ replacement' = <<h>> /\ cursor' = None /\ known' = KnownAfter(<<>>, <<h>>)
          /\ tip' = h /\ finalized' = finalized
          BY <1>2, <1>i, <2>2 DEF ApplyFirst, Return, Last
    <3>2. known' = {h}
          BY <1>r, <3>1 DEF KnownAfter
    <3>3. ChainShape' /\ WalkInOrder' /\ RowsAreChain'
          BY <1>i, <3>1, <3>2 DEF CallInv, ChainShape, WalkInOrder, RowsAreChain, OneChain, IsTop
    <3>4. BatchIsPath(old)'
          BY <1>i, <3>1, BoundsAssumption DEF BatchIsPath, Last
    <3>5. MemoryOnRows(old)' /\ RollbackOnRows' /\ BatchOnRows(old)'
          BY <1>i, <2>2, <3>1, <3>2 DEF MemoryOnRows, RollbackOnRows, BatchOnRows
    <3>. QED  BY <3>3, <3>4, <3>5 DEF CallInv
  <2>. QED  BY <2>1, <2>2
<1>3. CASE ApplyExtend(h)
  <2>1. CASE Height[h] # Height[tip] + 1
        BY <1>3, <2>1, CallFailed DEF ApplyExtend
  <2>2. CASE Height[h] = Height[tip] + 1
    <3>1. /\ tip \in Blocks /\ tip \in canonical /\ head' = h
          /\ Return("Extend", tip, <<>>, <<h>>) /\ Links(h, tip)
          BY <1>3, <1>i, <2>2 DEF ApplyExtend, Links, IsTop
    <3>2. Range(<<>>) = Above(canonical, tip)
          BY <1>i, <1>r, <3>1, HeightAssumption DEF Above, IsTop, ChainShape
    <3>3. Linked(<<tip>> \o Reverse(<<>>)) /\ Linked(<<tip>> \o <<h>>)
          BY <3>1, ShortChains
    <3>4. \A i \in 1..Len(<<h>>) : Height[<<h>>[i]] = Height[tip] + i
          BY <2>2
    <3>5. /\ <<>> \in Seq(Blocks) /\ <<h>> \in Seq(Blocks) /\ <<h>> # <<>> /\ Last(<<h>>) = h
          /\ Len(<<>>) <= MaxReorgDepth /\ Len(<<h>>) <= MaxReorgDepth
          BY BoundsAssumption DEF Last
    <3>. QED  BY <3>1, <3>2, <3>3, <3>4, <3>5, CallReturned
  <2>. QED  BY <2>1, <2>2
<1>4. CASE ApplyElsewhere(h)
  <2>1. tip \in Blocks
        BY <1>4, <1>i DEF ApplyElsewhere
  <2>2. Descends(h, <<>>, h)
        BY DEF Descends
  <2>3. ChainShape' /\ RowsAreChain' /\ BatchIsPath(old)'
        BY <1>4, <1>i DEF CallInv, ChainShape, RowsAreChain, OneChain, IsTop, BatchIsPath,
           ApplyElsewhere, memory
  <2>4. WalkInOrder'
        BY <1>4, <1>i, <2>1, <2>2, BoundsAssumption DEF WalkInOrder, ApplyElsewhere, memory
  <2>5. MemoryOnRows(old)' /\ RollbackOnRows' /\ BatchOnRows(old)'
        BY <1>4, <1>i DEF MemoryOnRows, RollbackOnRows, BatchOnRows, IsTop,
           ApplyElsewhere, memory
  <2>. QED  BY <2>3, <2>4, <2>5 DEF CallInv
<1>. QED  BY <1>1, <1>2, <1>3, <1>4 DEF Apply

\* An iteration of either loop.  That a row was not found (`persisted` is false)
\* need not mean that there is none; that it was found means that there is one.
LEMMA CallWalks ==
    ASSUME NEW old, CallInv(old), UNCHANGED canonical,
           \/ \E persisted \in BOOLEAN :
                  AncestorFound(persisted) /\ (persisted => cursor \in canonical)
           \/ \E persisted \in BOOLEAN, answer \in Blocks \cup {None} :
                  AncestorStep(persisted, answer)
           \/ \E answer \in Blocks \cup {None} : RollbackStep(answer)
           \/ RollbackDone
           \/ ResolverFails
    PROVE  CallInv(old)'
<1>s. ChainShape /\ RowsAreChain
      BY DEF CallInv
<1>f. ASSUME phase \in {"ancestor", "rollback"}, NEW e, FailWith(e)
      PROVE  CallInv(old)'
      BY <1>f, CallFailed
<1>i. ASSUME phase \in {"ancestor", "rollback"}
      PROVE  /\ tip \in Blocks /\ tip # None /\ tip = old
             /\ head \in Blocks /\ cursor \in Blocks
             /\ known \subseteq canonical /\ IsTop(tip, canonical)
             /\ replacement \in Seq(Blocks) /\ rollbacks \in Seq(Blocks)
             /\ Len(replacement) <= MaxReorgDepth
      BY <1>i, NoneAssumption DEF CallInv, ChainShape, WalkInOrder, MemoryOnRows
<1>m. ASSUME phase' \in {"ancestor", "rollback"}, phase \in {"ancestor", "rollback"},
             UNCHANGED memory
      PROVE  RowsAreChain' /\ BatchIsPath(old)' /\ MemoryOnRows(old)' /\ BatchOnRows(old)'
      BY <1>m, <1>i, <1>s DEF RowsAreChain, OneChain, IsTop, BatchIsPath,
         MemoryOnRows, BatchOnRows, memory
<1>1. ASSUME NEW persisted \in BOOLEAN, AncestorFound(persisted), persisted => cursor \in canonical
      PROVE  CallInv(old)'
  <2>1. CASE Height[cursor] < finalized
        BY <1>1, <1>f, <2>1 DEF AncestorFound
  <2>2. CASE ~(Height[cursor] < finalized)
    <3>1. /\ phase = "ancestor" /\ phase' = "rollback" /\ ancestor' = cursor /\ cursor' = tip
          /\ UNCHANGED <<memory, head, replacement, rollbacks, result>>
          /\ cursor \in canonical
          BY <1>1, <1>i, <2>2 DEF AncestorFound
    <3>2. /\ rollbacks = <<>> /\ Descends(head, replacement, cursor)
          /\ Height[cursor] >= finalized
          BY <1>i, <1>s, <2>2, <3>1, HeightAssumption DEF CallInv, WalkInOrder, ChainShape
    <3>3. Descends(tip, <<>>, tip) /\ Len(<<>>) <= MaxReorgDepth
          BY BoundsAssumption DEF Descends
    <3>4. ChainShape'
          BY <1>i, <1>s, <3>1 DEF ChainShape, memory
    <3>5. WalkInOrder'
          BY <1>i, <3>1, <3>2, <3>3 DEF WalkInOrder, memory
    <3>6. RollbackOnRows'
      <4>1. Range(<<>>) = {}
            BY DEF Range
      <4>2. Above(canonical, tip) = {}
            BY <1>i, <1>s, <3>1, HeightAssumption DEF Above, IsTop, ChainShape
      <4>3. tip \in canonical /\ Height[tip] >= Height[cursor]
            BY <1>i, <1>s, <3>1, HeightAssumption DEF IsTop, ChainShape
      <4>. QED  BY <3>1, <3>2, <4>1, <4>2, <4>3 DEF RollbackOnRows, Above
    <3>. QED  BY <1>m, <3>1, <3>4, <3>5, <3>6 DEF CallInv
  <2>. QED  BY <2>1, <2>2
<1>2. ASSUME NEW persisted \in BOOLEAN, NEW answer \in Blocks \cup {None},
             AncestorStep(persisted, answer)
      PROVE  CallInv(old)'
  <2>. phase = "ancestor"
       BY <1>2 DEF AncestorStep
  <2>1. CASE Len(replacement) + 1 > MaxReorgDepth
        BY <1>2, <1>f, <2>1 DEF AncestorStep
  <2>2. CASE ~(Len(replacement) + 1 > MaxReorgDepth)
    <3>1. /\ Climb(answer)
          /\ phase' = "ancestor" => replacement' = Append(replacement, cursor) /\ rollbacks' = rollbacks
          BY <1>2, <2>2 DEF AncestorStep
    <3>2. CASE \E e \in Errors : FailWith(e)
          BY <1>f, <3>2
    <3>3. CASE /\ cursor' \in Blocks /\ Links(cursor, cursor')
               /\ UNCHANGED <<memory, phase, head, ancestor, result>>
      <4>1. /\ rollbacks = <<>> /\ ancestor = None /\ Descends(head, replacement, cursor)
            BY DEF CallInv, WalkInOrder
      <4>2. /\ replacement' = Append(replacement, cursor) /\ rollbacks' = rollbacks
            BY <3>1, <3>3
      <4>3. replacement' \in Seq(Blocks) /\ Descends(head', replacement', cursor')
            BY <1>i, <3>3, <4>1, <4>2, DescendsFurther
      <4>4. Len(replacement') <= MaxReorgDepth
            BY <1>i, <2>2, <4>2, BoundsAssumption
      <4>5. ChainShape'
            BY <1>i, <1>s, <3>3, <4>2, <4>3 DEF ChainShape, memory
      <4>6. WalkInOrder' /\ RollbackOnRows'
            BY <1>i, <3>3, <4>1, <4>2, <4>3, <4>4 DEF WalkInOrder, RollbackOnRows, memory
      <4>. QED  BY <1>m, <3>3, <4>5, <4>6 DEF CallInv
    <3>. QED  BY <1>i, <1>s, <3>1, <3>2, <3>3, Climbed
  <2>. QED  BY <2>1, <2>2
<1>3. ASSUME NEW answer \in Blocks \cup {None}, RollbackStep(answer)
      PROVE  CallInv(old)'
  <2>. phase = "rollback" /\ Height[cursor] > Height[ancestor]
       BY <1>3 DEF RollbackStep
  <2>1. CASE Len(rollbacks) + 1 > MaxReorgDepth
        BY <1>3, <1>f, <2>1 DEF RollbackStep
  <2>2. CASE ~(Len(rollbacks) + 1 > MaxReorgDepth)
    <3>1. /\ Climb(answer)
          /\ phase' = "rollback" => rollbacks' = Append(rollbacks, cursor) /\ replacement' = replacement
          BY <1>3, <2>2 DEF RollbackStep
    <3>2. CASE \E e \in Errors : FailWith(e)
          BY <1>f, <3>2
    <3>3. CASE /\ cursor' \in Blocks /\ Links(cursor, cursor')
               /\ UNCHANGED <<memory, phase, head, ancestor, result>>
      <4>1. /\ ancestor \in Blocks /\ Height[ancestor] >= finalized
            /\ Descends(head, replacement, ancestor) /\ Descends(tip, rollbacks, cursor)
            /\ ancestor \in canonical /\ cursor \in canonical
            /\ Range(rollbacks) = Above(canonical, cursor)
            BY DEF CallInv, WalkInOrder, RollbackOnRows
      <4>2. /\ rollbacks' = Append(rollbacks, cursor) /\ replacement' = replacement
            BY <3>1, <3>3
      <4>3. rollbacks' \in Seq(Blocks) /\ Descends(tip', rollbacks', cursor')
            BY <1>i, <3>3, <4>1, <4>2, DescendsFurther DEF memory
      <4>4. Len(rollbacks') <= MaxReorgDepth
            BY <1>i, <2>2, <4>2, BoundsAssumption
      <4>5. ChainShape'
            BY <1>i, <1>s, <3>3, <4>2, <4>3 DEF ChainShape, memory
      <4>6. WalkInOrder'
            BY <1>i, <3>3, <4>1, <4>2, <4>3, <4>4 DEF WalkInOrder, memory
      <4>h. /\ Height[cursor] \in Nat /\ Height[cursor'] \in Nat /\ Height[ancestor] \in Nat
            /\ \A c \in canonical : Height[c] \in Nat
            /\ Height[cursor] = Height[cursor'] + 1 /\ Parent[cursor] = cursor'
            BY <1>i, <1>s, <3>3, <4>1, HeightAssumption DEF ChainShape, Links
      <4>7. cursor' \in canonical
        <5>1. PICK q \in canonical : Links(cursor, q)
              BY <1>s, <4>1 DEF RowsAreChain, OneChain
        <5>. QED  BY <4>h, <5>1 DEF Links
      <4>8. Range(rollbacks') = Range(rollbacks) \cup {cursor}
        <5>1. /\ Len(rollbacks') = Len(rollbacks) + 1 /\ Len(rollbacks) \in Nat
              /\ rollbacks'[Len(rollbacks) + 1] = cursor
              /\ \A i \in 1..Len(rollbacks) : rollbacks'[i] = rollbacks[i]
              /\ DOMAIN rollbacks = 1..Len(rollbacks) /\ DOMAIN rollbacks' = 1..Len(rollbacks')
              BY <1>i, <4>2, <4>3
        <5>2. Range(rollbacks') \subseteq Range(rollbacks) \cup {cursor}
              BY <5>1 DEF Range
        <5>3. Range(rollbacks) \cup {cursor} \subseteq Range(rollbacks')
              BY <5>1 DEF Range
        <5>. QED  BY <5>2, <5>3
      <4>9. Above(canonical, cursor') = Above(canonical, cursor) \cup {cursor}
        <5>1. \A c \in canonical : Height[c] = Height[cursor] => c = cursor
              BY <1>s, <4>1 DEF RowsAreChain, OneChain
        <5>2. \A c \in canonical : Height[c] > Height[cursor'] <=> Height[c] > Height[cursor] \/ Height[c] = Height[cursor]
              BY <4>h
        <5>. QED  BY <4>1, <5>1, <5>2, <4>h DEF Above
      <4>10. RollbackOnRows'
        <5>1. Height[cursor'] >= Height[ancestor]
              BY <4>h
        <5>. QED  BY <3>3, <4>1, <4>7, <4>8, <4>9, <5>1 DEF RollbackOnRows, Above
      <4>. QED  BY <1>m, <3>3, <4>5, <4>6, <4>10 DEF CallInv
    <3>. QED  BY <1>i, <1>s, <3>1, <3>2, <3>3, Climbed
  <2>. QED  BY <2>1, <2>2
<1>4. CASE RollbackDone
  <2>. phase = "rollback"
       BY <1>4 DEF RollbackDone
  <2>1. CASE cursor # ancestor
        BY <1>4, <1>f, <2>1 DEF RollbackDone
  <2>2. CASE cursor = ancestor
    <3>. DEFINE ups == Reverse(replacement)
    <3>1. PICK transition : Return(transition, ancestor, rollbacks, ups)
          BY <1>4, <2>2 DEF RollbackDone
    <3>2. head' = head
          BY <1>4, <2>2 DEF RollbackDone
    <3>3. /\ ancestor \in Blocks /\ ancestor \in canonical /\ Height[ancestor] >= finalized
          /\ Len(rollbacks) <= MaxReorgDepth
          /\ Descends(head, replacement, ancestor) /\ Descends(tip, rollbacks, ancestor)
          /\ Range(rollbacks) = Above(canonical, ancestor)
          BY <2>2 DEF CallInv, WalkInOrder, RollbackOnRows
    <3>4. /\ ups \in Seq(Blocks) /\ Len(ups) = Len(replacement)
          /\ Linked(<<ancestor>> \o ups)
          /\ \A i \in 1..Len(ups) : Height[ups[i]] = Height[ancestor] + i
          /\ IF ups = <<>> THEN head = ancestor ELSE head = Last(ups)
          BY <1>i, <3>3, PathUpwards
    <3>5. Linked(<<ancestor>> \o Reverse(rollbacks))
          BY <1>i, <3>3, PathUpwards
    <3>6. IF rollbacks = <<>> THEN ancestor = tip ELSE rollbacks[1] = tip /\ Height[ancestor] >= finalized
          BY <3>3 DEF Descends
    <3>. HIDE DEF ups
    <3>. QED  BY <1>i, <3>1, <3>2, <3>3, <3>4, <3>5, <3>6, CallReturned
  <2>. QED  BY <2>1, <2>2
<1>5. CASE ResolverFails
      BY <1>5, <1>f DEF ResolverFails
<1>. QED  BY <1>1, <1>2, <1>3, <1>4, <1>5
-----------------------------------------------------------------------------
(* Types, whatever the rows are: these hold also for a caller whose rows the      *)
(* invariant of a call does not describe.                                         *)

Outcomes == Transitions \cup Errors \cup {None}

\* ChainTypeOK made inductive: the lists are sequences, and a walk has its ends.
CallTypes ==
    /\ ChainShape
    /\ cache \in Caches /\ result \in Outcomes
    /\ phase \in {"ancestor", "rollback"} => tip \in Blocks /\ cursor \in Blocks

LEMMA CallTypesSuffice ==
    ASSUME CallTypes
    PROVE  ChainTypeOK
<1>1. cache \in Seq(Blocks) /\ Len(cache) <= CacheSize
      BY DEF CallTypes, Caches
<1>2. \A s \in Seq(Blocks) : Range(s) \subseteq Blocks
      BY DEF Range
<1>. QED  BY <1>1, <1>2 DEF CallTypes, ChainShape, ChainTypeOK, Outcomes

\* A state that was dropped, or was never there.
LEMMA DroppedTypes ==
    ASSUME Drop, canonical' \subseteq Blocks
    PROVE  CallTypes'
<1>1. <<>> \in Caches
      BY BoundsAssumption DEF Caches
<1>. QED  BY <1>1 DEF Drop, ClearWalk, CallTypes, ChainShape, Outcomes

\* from_canonical_chain.
LEMMA SeededTypes ==
    ASSUME CallTypes, phase = "idle", NEW chain \in Seq(Blocks), NEW f \in Nat, Seed(chain, f),
           UNCHANGED <<walk, canonical>>
    PROVE  CallTypes'
<1>1. <<>> \in Caches
      BY BoundsAssumption DEF Caches
<1>2. cache' \in Caches
      BY <1>1, InsertedAll DEF Seed
<1>3. tip' \in Blocks /\ known' \subseteq Blocks /\ finalized' \in Nat
      BY DEF Seed, Last, Range
<1>. QED  BY <1>2, <1>3 DEF CallTypes, ChainShape, walk

\* An error leaves the memory alone.
LEMMA FailedTypes ==
    ASSUME CallTypes, NEW e \in Errors, FailWith(e), UNCHANGED canonical
    PROVE  CallTypes'
BY DEF CallTypes, ChainShape, FailWith, ClearWalk, memory, Outcomes

\* commit.
LEMMA ReturnedTypes ==
    ASSUME CallTypes, NEW transition \in Transitions, NEW anc \in Blocks \cup {None},
           NEW downs \in Seq(Blocks), NEW ups \in Seq(Blocks), Return(transition, anc, downs, ups),
           head' \in Blocks \cup {None}, UNCHANGED canonical
    PROVE  CallTypes'
<1>1. cache' \in Caches
  <2>1. downs \o ups \in Seq(Blocks) /\ cache \in Caches
        BY DEF CallTypes
  <2>. QED  BY <2>1, InsertedAll DEF Return
<1>2. tip' \in Blocks \cup {None}
  <2>1. ups # <<>> => Last(ups) \in Blocks
        BY DEF Last
  <2>. QED  BY <2>1 DEF Return, CallTypes, ChainShape
<1>3. known' \subseteq Blocks
  <2>1. Range(ups) \subseteq Blocks /\ known \subseteq Blocks
        BY DEF CallTypes, ChainShape, Range
  <2>. QED  BY <2>1 DEF Return, KnownAfter
<1>. QED  BY <1>1, <1>2, <1>3 DEF Return, CallTypes, ChainShape, Outcomes

\* apply, up to the point where it needs a common ancestor.
LEMMA BegunTypes ==
    ASSUME CallTypes, NEW h \in Blocks, Apply(h), UNCHANGED canonical
    PROVE  CallTypes'
<1>s. ChainShape /\ cache \in Caches /\ result \in Outcomes /\ phase = "idle"
      BY DEF CallTypes, Apply
<1>q. <<>> \in Seq(Blocks) /\ <<h>> \in Seq(Blocks)
      OBVIOUS
<1>e. {"MissingParent", "InvalidExtensionHeight"} \subseteq Errors
      BY DEF Errors
<1>t. {"Bootstrap", "Duplicate", "Extend"} \subseteq Transitions
      BY DEF Transitions
<1>1. CASE ApplyDuplicate(h)
  <2>1. cache' \in Caches
        BY <1>1, <1>s, Inserted DEF ApplyDuplicate
  <2>2. result' \in Outcomes
        BY <1>1, <1>t DEF ApplyDuplicate, Outcomes
  <2>. QED  BY <1>1, <1>s, <2>1, <2>2 DEF ApplyDuplicate, CallTypes, ChainShape
<1>2. CASE ApplyFirst(h)
  <2>1. \/ FailWith("MissingParent")
        \/ head' = h /\ Return("Bootstrap", None, <<>>, <<h>>)
        BY <1>2 DEF ApplyFirst
  <2>. QED  BY <1>e, <1>q, <1>t, <2>1, FailedTypes, ReturnedTypes
<1>3. CASE ApplyExtend(h)
  <2>1. \/ FailWith("InvalidExtensionHeight")
        \/ head' = h /\ Return("Extend", tip, <<>>, <<h>>)
        BY <1>3 DEF ApplyExtend
  <2>2. tip \in Blocks \cup {None}
        BY <1>s DEF ChainShape
  <2>. QED  BY <1>e, <1>q, <1>t, <2>1, <2>2, FailedTypes, ReturnedTypes
<1>4. CASE ApplyElsewhere(h)
      BY <1>4, <1>s DEF ApplyElsewhere, CallTypes, ChainShape, memory
<1>. QED  BY <1>1, <1>2, <1>3, <1>4 DEF Apply

\* An iteration of either loop.
LEMMA WalkedTypes ==
    ASSUME CallTypes, UNCHANGED canonical,
           \/ \E persisted \in BOOLEAN : AncestorFound(persisted)
           \/ \E persisted \in BOOLEAN, answer \in Blocks \cup {None} :
                  AncestorStep(persisted, answer)
           \/ \E answer \in Blocks \cup {None} : RollbackStep(answer)
           \/ RollbackDone
           \/ ResolverFails
    PROVE  CallTypes'
<1>p. phase \in {"ancestor", "rollback"}
      BY DEF AncestorFound, AncestorStep, RollbackStep, RollbackDone, ResolverFails
<1>s. /\ ChainShape /\ cache \in Caches /\ result \in Outcomes
      /\ tip \in Blocks /\ cursor \in Blocks
      /\ replacement \in Seq(Blocks) /\ rollbacks \in Seq(Blocks)
      /\ Append(replacement, cursor) \in Seq(Blocks) /\ Append(rollbacks, cursor) \in Seq(Blocks)
      /\ Reverse(replacement) \in Seq(Blocks)
      /\ ancestor \in Blocks \cup {None} /\ head \in Blocks \cup {None}
      BY <1>p DEF CallTypes, ChainShape, Reverse
<1>e. {"FinalizedBoundary", "MaxDepthExceeded", "MissingParent", "Resolver"} \subseteq Errors
      BY DEF Errors
<1>t. {"Reorg", "Gap", "Duplicate"} \subseteq Transitions
      BY DEF Transitions
<1>1. ASSUME NEW persisted \in BOOLEAN, AncestorFound(persisted) PROVE CallTypes'
  <2>1. CASE FailWith("FinalizedBoundary")
        BY <1>e, <2>1, FailedTypes
  <2>2. CASE /\ phase' = "rollback" /\ ancestor' = cursor /\ cursor' = tip
             /\ UNCHANGED <<memory, head, replacement, rollbacks, result>>
        BY <1>s, <2>2 DEF CallTypes, ChainShape, memory
  <2>. QED  BY <1>1, <2>1, <2>2 DEF AncestorFound
<1>2. ASSUME NEW answer \in Blocks \cup {None}, Climb(answer),
             \/ /\ phase' = "ancestor" => replacement' = Append(replacement, cursor) /\ UNCHANGED rollbacks
                /\ phase = "ancestor"
             \/ /\ phase' = "rollback" => rollbacks' = Append(rollbacks, cursor) /\ UNCHANGED replacement
                /\ phase = "rollback"
      PROVE  CallTypes'
  <2>1. CASE \E e \in Errors : FailWith(e)
        BY <2>1, FailedTypes
  <2>2. CASE /\ cursor' \in Blocks
             /\ UNCHANGED <<memory, phase, head, ancestor, result>>
    <3>1. replacement' \in Seq(Blocks) /\ rollbacks' \in Seq(Blocks)
          BY <1>2, <1>s, <2>2
    <3>. QED  BY <1>s, <2>2, <3>1 DEF CallTypes, ChainShape, memory
  <2>. QED  BY <1>2, <1>s, <2>1, <2>2, Climbed
<1>3. ASSUME NEW persisted \in BOOLEAN, NEW answer \in Blocks \cup {None},
             AncestorStep(persisted, answer)
      PROVE  CallTypes'
  <2>1. CASE FailWith("MaxDepthExceeded")
        BY <1>e, <2>1, FailedTypes
  <2>. QED  BY <1>2, <1>3, <2>1 DEF AncestorStep
<1>4. ASSUME NEW answer \in Blocks \cup {None}, RollbackStep(answer)
      PROVE  CallTypes'
  <2>1. CASE FailWith("MaxDepthExceeded")
        BY <1>e, <2>1, FailedTypes
  <2>. QED  BY <1>2, <1>4, <2>1 DEF RollbackStep
<1>5. CASE RollbackDone
  <2>1. CASE FailWith("MissingParent")
        BY <1>e, <2>1, FailedTypes
  <2>2. CASE cursor = ancestor
    <3>1. /\ head' = head
          /\ \E transition \in {"Reorg", "Gap", "Duplicate"} :
                 Return(transition, ancestor, rollbacks, Reverse(replacement))
          BY <1>5, <2>2 DEF RollbackDone
    <3>. QED  BY <1>s, <1>t, <3>1, ReturnedTypes
  <2>. QED  BY <1>5, <2>1, <2>2 DEF RollbackDone
<1>6. CASE ResolverFails
      BY <1>6, <1>e, FailedTypes DEF ResolverFails
<1>. QED  BY <1>1, <1>3, <1>4, <1>5, <1>6
-----------------------------------------------------------------------------
(* What the writer makes of the batch. *)

\* The writer takes it: what is rolled back is there, and no row that stays is at
\* a height that is applied.
LEMMA BatchIsTaken ==
    ASSUME NEW old, ChainShape, BatchOnRows(old), phase = "returned"
    PROVE  /\ Range(rollbacks) \subseteq canonical
           /\ \A b \in canonical \ Range(rollbacks), c \in Range(replacement) :
                  Height[b] # Height[c]
<1>1. CASE old = None
  <2>1. canonical = {} /\ rollbacks = <<>>
        BY <1>1 DEF BatchOnRows
  <2>. QED  BY <2>1 DEF Range
<1>2. CASE old # None /\ rollbacks = <<>> /\ replacement = <<>>
      BY <1>2 DEF Range
<1>3. CASE old # None /\ (rollbacks # <<>> \/ replacement # <<>>)
  <2>1. /\ ancestor \in canonical /\ Range(rollbacks) = Above(canonical, ancestor)
        /\ \A i \in 1..Len(replacement) : Height[replacement[i]] = Height[ancestor] + i
        BY <1>3 DEF BatchOnRows
  <2>2. /\ \A b \in canonical : Height[b] \in Nat
        /\ replacement \in Seq(Blocks)
        BY HeightAssumption DEF ChainShape
  <2>3. ASSUME NEW b \in canonical \ Range(rollbacks), NEW c \in Range(replacement)
        PROVE  Height[b] # Height[c]
    <3>1. PICK i \in 1..Len(replacement) : c = replacement[i]
          BY <2>2 DEF Range
    <3>2. Height[c] = Height[ancestor] + i
          BY <2>1, <3>1
    <3>3. ~(Height[b] > Height[ancestor])
          BY <2>1 DEF Above
    <3>. QED  BY <2>1, <2>2, <3>2, <3>3
  <2>. QED  BY <2>1, <2>3 DEF Above
<1>. QED  BY <1>1, <1>2, <1>3

\* A batch that is not empty leaves one chain, whose top is the last block applied
\* or, when there is none, the ancestor.
LEMMA BatchLeavesChain ==
    ASSUME NEW old, old # None, ChainShape, RowsAreChain, BatchOnRows(old), BatchIsPath(old),
           phase = "returned", rollbacks # <<>> \/ replacement # <<>>
    PROVE  /\ OneChain(CanonicalAfter)
           /\ IsTop(IF replacement = <<>> THEN ancestor ELSE Last(replacement), CanonicalAfter)
<1>1. /\ ancestor \in canonical
      /\ \A i \in 1..Len(replacement) : Height[replacement[i]] = Height[ancestor] + i
      /\ Range(rollbacks) = Above(canonical, ancestor)
      BY DEF BatchOnRows
<1>2. ancestor \in Blocks /\ ancestor # None /\ replacement \in Seq(Blocks)
      BY <1>1, NoneAssumption DEF ChainShape
<1>3. Linked(<<ancestor>> \o replacement)
      BY <1>2 DEF BatchIsPath
<1>4. /\ \A i \in 1..Len(replacement) - 1 : Parent[replacement[i + 1]] = replacement[i]
      /\ replacement # <<>> => Parent[replacement[1]] = ancestor
      BY <1>2, <1>3, LinkedOnTop
<1>5. CanonicalAfter = Graft(canonical, ancestor, replacement)
      BY <1>1 DEF CanonicalAfter, Graft
<1>6. canonical \in SUBSET Blocks /\ OneChain(canonical)
      BY DEF ChainShape, RowsAreChain
<1>. QED  BY <1>1, <1>2, <1>4, <1>5, <1>6, Grafted

\* It is a graft: the rows up to the ancestor stay, and no row lost is below the
\* finalized height.
LEMMA BatchIsGraft ==
    ASSUME NEW old, old # None, ChainShape, BatchOnRows(old), BatchIsPath(old),
           phase = "returned", rollbacks # <<>> \/ replacement # <<>>
    PROVE  /\ ancestor \in canonical
           /\ \A b \in Blocks : Height[b] <= Height[ancestor] =>
                  (b \in CanonicalAfter <=> b \in canonical)
           /\ Height[ancestor] < finalized => canonical \subseteq CanonicalAfter
<1>1. /\ ancestor \in canonical /\ ancestor \in Blocks /\ ancestor # None
      /\ \A i \in 1..Len(replacement) : Height[replacement[i]] = Height[ancestor] + i
      /\ Range(rollbacks) = Above(canonical, ancestor)
      /\ replacement \in Seq(Blocks) /\ canonical \subseteq Blocks /\ finalized \in Nat
      BY NoneAssumption DEF BatchOnRows, ChainShape
<1>2. /\ Height[ancestor] \in Nat
      /\ \A b \in Blocks : Height[b] \in Nat
      BY <1>1, HeightAssumption
<1>3. ASSUME NEW b \in Range(replacement) PROVE Height[b] > Height[ancestor]
  <2>1. PICK i \in 1..Len(replacement) : b = replacement[i]
        BY <1>1 DEF Range
  <2>. QED  BY <1>1, <1>2, <2>1
<1>4. ASSUME NEW b \in Blocks, Height[b] <= Height[ancestor]
      PROVE  b \in CanonicalAfter <=> b \in canonical
  <2>1. b \notin Range(replacement) /\ b \notin Range(rollbacks)
        BY <1>1, <1>2, <1>3, <1>4 DEF Above
  <2>. QED  BY <2>1 DEF CanonicalAfter
<1>5. ASSUME Height[ancestor] < finalized PROVE canonical \subseteq CanonicalAfter
  <2>1. rollbacks = <<>>
        BY <1>1, <1>2, <1>5 DEF BatchIsPath
  <2>. QED  BY <2>1 DEF CanonicalAfter, Range
<1>. QED  BY <1>1, <1>4, <1>5
=============================================================================
