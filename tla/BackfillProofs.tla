--------------------------- MODULE BackfillProofs ---------------------------
(***************************************************************************)
(* Proofs about the bounded backfill, for every range, window, span and    *)
(* budget and any set of chains the provider may move between: no height   *)
(* is lost or fetched twice, what a run commits is one chain, all runs     *)
(* together leave one chain, and a run that reports success is complete.   *)
(***************************************************************************)
EXTENDS Backfill, FiniteSetTheorems, WellFoundedInduction, TLAPS

FetchStates == {"logs", "blocks", "limited", "error", "fetched"}

BlockMaps == {<<>>} \cup UNION {[I -> Blocks] : I \in SUBSET (FromBlock..ToBlock)}

Ranges ==
    [from : Nat, to : Nat, at : FetchStates, logs : SUBSET HasLogs, blocks : BlockMaps]

InRange(r) == FromBlock <= r.from /\ r.from <= r.to /\ r.to <= ToBlock

\* The blocks of a fetched range are of one chain.
OfOneChain(r) == \E c \in Chains : r.blocks = [h \in Heights(r) |-> c[h]]

Disjoint(r, s) == r.to < s.from \/ s.to < r.from

\* The ranges handed out and not committed.
WindowShape ==
    /\ tasks \subseteq Ranges /\ IsFiniteSet(tasks)
    /\ pending \subseteq Ranges
    /\ queued \in Seq(Ranges)
    /\ \A r \in tasks \cup pending : InRange(r) /\ (r.at = "fetched" => OfOneChain(r))
    /\ \A r \in pending : r.at = "fetched"
    /\ \A i \in 1..Len(queued) : InRange(queued[i]) /\ queued[i].at = "logs"

Running == pc \in {"fill", "join", "drain"}

Between(r) == nextHeight <= r.from /\ r.to < nextUnallocated

\* They lie between what is committed and what is not handed out yet, ...
Bounded ==
    /\ nextHeight <= nextUnallocated
    /\ \A r \in tasks \cup pending : Between(r)
    /\ \A i \in 1..Len(queued) : Between(queued[i])

\* ... share no height ...
Apart ==
    /\ \A r, s \in tasks : r # s => Disjoint(r, s)
    /\ \A r, s \in pending : r # s => Disjoint(r, s)
    /\ \A r \in tasks, s \in pending : Disjoint(r, s)
    /\ \A i, j \in 1..Len(queued) : i # j => Disjoint(queued[i], queued[j])
    /\ \A i \in 1..Len(queued), r \in tasks \cup pending : Disjoint(queued[i], r)

InWindow(h) ==
    \/ \E r \in tasks \cup pending : h \in Heights(r)
    \/ \E i \in 1..Len(queued) : h \in Heights(queued[i])

\* ... and leave none out.
Covered == \A h \in nextHeight..nextUnallocated - 1 : InWindow(h)

\* Before the first fetch nothing is handed out; after the last nothing is in flight.
Fresh ==
    /\ pc \in {"ready", "anchor"} =>
           /\ tasks = {} /\ pending = {} /\ queued = <<>>
           /\ nextHeight = FromBlock /\ nextUnallocated = FromBlock
    /\ pc \in {"reference", "done", "failed"} => tasks = {}

\* A chain that holds everything committed by the run.
CommittedOn(c) ==
    /\ c[nextHeight - 1] = anchor
    /\ \A h \in FromBlock..nextHeight - 1 : c[h] \in rows
    /\ checkpoint = anchor

\* A run that passed the checks.
Complete ==
    pc \in {"reference", "done"} =>
        /\ nextHeight = ToBlock + 1
        /\ \E c \in Chains : CommittedOn(c)
        /\ ToIsHead => anchor = captured
        /\ pc = "done" =>
               \A i \in DOMAIN reference :
                   reference[i] \in rows \cap HasLogs => reference[i] \in logged

BackfillInv ==
    /\ TypeOK /\ WindowShape /\ Fresh /\ ~refused
    /\ Running => Bounded /\ Apart /\ Covered
    /\ CommittedIsChain /\ RowsOneChain /\ Complete
-----------------------------------------------------------------------------
(* Ranges and chunks. *)

LEMMA ProductMonotone ==
    ASSUME NEW a \in Nat, NEW b \in Nat, NEW s \in Nat, a <= b
    PROVE  a * s <= b * s /\ a * s \in Nat /\ b * s \in Nat
<1>1. PICK d \in Nat : b = a + d
      <2>1. b - a \in Nat /\ b = a + (b - a)
            OBVIOUS
      <2>. QED  BY <2>1
<1>2. b * s = a * s + d * s /\ d * s \in Nat /\ a * s \in Nat
      BY <1>1
<1>. QED  BY <1>2

LEMMA Quotient ==
    ASSUME NEW n \in Nat, NEW s \in Nat, s > 0
    PROVE  n \div s \in Nat /\ (n \div s) * s <= n /\ n < (n \div s + 1) * s
OBVIOUS

LEMMA FetchIsRange ==
    ASSUME NEW from \in Nat, NEW to \in Nat
    PROVE  /\ Fetch(from, to) \in Ranges
           /\ Fetch(from, to).from = from /\ Fetch(from, to).to = to
           /\ Fetch(from, to).at = "logs"
BY DEF Fetch, Ranges, FetchStates, BlockMaps

\* enqueue_chunks_front splits a range completely and without overlap.
LEMMA ChunksPartition ==
    ASSUME NEW from \in Nat, NEW to \in Nat, from <= to, NEW size \in Nat, size > 0,
           FromBlock <= from, to <= ToBlock
    PROVE  LET q == Chunks(from, to, size) IN
           /\ q \in Seq(Ranges)
           /\ \A i \in 1..Len(q) : /\ InRange(q[i]) /\ q[i].at = "logs"
                                   /\ from <= q[i].from /\ q[i].to <= to
           /\ \A i, j \in 1..Len(q) : i # j => Disjoint(q[i], q[j])
           /\ \A h \in from..to : \E i \in 1..Len(q) : h \in Heights(q[i])
<1>. DEFINE n == (to - from + size) \div size
            q == Chunks(from, to, size)
            low(i) == from + (i - 1) * size
            high(i) == Smaller(from + i * size - 1, to)
<1>1. to - from + size \in Nat /\ to - from \in Nat
      OBVIOUS
<1>2. n \in Nat /\ n * size <= to - from + size /\ to - from + size < (n + 1) * size
      BY <1>1, Quotient
<1>. HIDE DEF n
<1>3. ASSUME NEW i \in 1..n
      PROVE  /\ (i - 1) * size \in Nat /\ i * size = (i - 1) * size + size
             /\ (i - 1) * size <= to - from
  <2>1. i - 1 \in Nat /\ i \in Nat /\ i <= n
        BY <1>2, <1>3
  <2>2. i * size <= n * size /\ i * size \in Nat
        BY <1>2, <2>1, ProductMonotone
  <2>3. (i - 1) * size \in Nat
        BY <2>1, ProductMonotone
  <2>4. i * size = (i - 1) * size + size
        BY <2>1
  <2>. QED  BY <1>2, <2>2, <2>3, <2>4, <1>1
<1>4. ASSUME NEW i \in 1..n
      PROVE  /\ low(i) \in Nat /\ high(i) \in Nat
             /\ from <= low(i) /\ low(i) <= high(i) /\ high(i) <= to
             /\ high(i) < low(i) + size
             /\ high(i) = to \/ high(i) = low(i) + size - 1
  <2>. DEFINE k == (i - 1) * size
  <2>1. k \in Nat /\ i * size = k + size /\ k <= to - from
        BY <1>3
  <2>. HIDE DEF k
  <2>2. low(i) = from + k /\ high(i) = Smaller(from + (k + size) - 1, to)
        BY <2>1 DEF k
  <2>. QED  BY <2>1, <2>2 DEF Smaller
<1>5. /\ q = [i \in 1..n |-> Fetch(low(i), high(i))]
      BY DEF Chunks, n
<1>6. ASSUME NEW i \in 1..n
      PROVE  q[i] \in Ranges /\ q[i].from = low(i) /\ q[i].to = high(i) /\ q[i].at = "logs"
  <2>1. q[i] = Fetch(low(i), high(i))
        BY <1>5
  <2>2. low(i) \in Nat /\ high(i) \in Nat
        BY <1>4
  <2>. HIDE DEF low, high, q
  <2>. QED  BY <2>1, <2>2, FetchIsRange
<1>7. q \in Seq(Ranges) /\ Len(q) = n
  <2>. HIDE DEF low, high
  <2>1. q \in [1..n -> Ranges]
        BY <1>5, <1>6
  <2>. HIDE DEF q
  <2>. QED  BY <1>2, <2>1
<1>. HIDE DEF q
<1>8. ASSUME NEW i \in 1..n, NEW j \in 1..n, i < j
      PROVE  high(i) < low(j)
  <2>1. i - 1 \in Nat /\ j - 1 \in Nat /\ i <= j - 1 /\ i \in Nat
        BY <1>2, <1>8
  <2>2. i * size <= (j - 1) * size
        BY <2>1, ProductMonotone
  <2>. DEFINE k == (i - 1) * size
              m == (j - 1) * size
  <2>3. k \in Nat /\ i * size = k + size /\ m \in Nat
        BY <1>3
  <2>4. k + size <= m
        BY <2>2, <2>3
  <2>5. high(i) < low(i) + size
        BY <1>4
  <2>6. high(i) \in Nat
        BY <1>4
  <2>7. low(i) = from + k /\ low(j) = from + m
        OBVIOUS
  <2>. HIDE DEF k, m, high, low
  <2>. QED  BY <2>3, <2>4, <2>5, <2>6, <2>7
<1>9. ASSUME NEW h \in from..to PROVE \E i \in 1..n : low(i) <= h /\ h <= high(i)
  <2>. DEFINE k == (h - from) \div size
  <2>1. h - from \in Nat /\ h \in Nat
        OBVIOUS
  <2>2. k \in Nat /\ k * size <= h - from /\ h - from < (k + 1) * size
        BY <2>1, Quotient
  <2>. HIDE DEF k
  <2>3. k + 1 \in 1..n
    <3>1. SUFFICES ASSUME k + 1 > n PROVE FALSE
          BY <1>2, <2>2
    <3>2. n + 1 <= k + 1 + 1 /\ n <= k
          BY <1>2, <2>2, <3>1
    <3>3. n * size <= k * size /\ n * size \in Nat /\ k * size \in Nat
          BY <1>2, <2>2, <3>2, ProductMonotone
    <3>4. (n + 1) * size = n * size + size
          BY <1>2
    <3>. QED  BY <1>1, <1>2, <2>1, <2>2, <3>3, <3>4
  <2>4. low(k + 1) <= h
    <3>1. (k + 1) - 1 = k
          BY <2>2
    <3>2. k * size \in Nat
          BY <2>2, ProductMonotone
    <3>. QED  BY <2>1, <2>2, <3>1, <3>2
  <2>5. h <= high(k + 1)
    <3>. DEFINE m == (k + 1) * size
    <3>1. m \in Nat /\ h - from < m
          BY <2>2, ProductMonotone
    <3>2. high(k + 1) = Smaller(from + m - 1, to)
          OBVIOUS
    <3>. HIDE DEF m, high
    <3>. QED  BY <2>1, <3>1, <3>2 DEF Smaller
  <2>. QED  BY <2>3, <2>4, <2>5
<1>. HIDE DEF low, high
<1>10. \A i \in 1..n : InRange(q[i]) /\ q[i].at = "logs" /\ from <= q[i].from /\ q[i].to <= to
  <2>1. FromBlock \in Nat /\ ToBlock \in Nat
        BY SpanAssumption
  <2>. QED  BY <1>4, <1>6, <2>1 DEF InRange
<1>11. \A i, j \in 1..n : i # j => Disjoint(q[i], q[j])
  <2>1. \A i, j \in 1..n : i # j => i < j \/ j < i
        BY <1>2
  <2>. QED  BY <1>6, <1>8, <2>1 DEF Disjoint
<1>12. \A h \in from..to : \E i \in 1..n : h \in Heights(q[i])
  <2>1. ASSUME NEW h \in from..to PROVE \E i \in 1..n : h \in Heights(q[i])
    <3>1. PICK i \in 1..n : low(i) <= h /\ h <= high(i)
          BY <1>9
    <3>2. low(i) \in Nat /\ high(i) \in Nat /\ h \in Nat
          BY <1>4
    <3>3. h \in low(i)..high(i)
          BY <3>1, <3>2
    <3>. QED  BY <1>6, <3>3 DEF Heights
  <2>. QED  BY <2>1
<1>. QED  BY <1>7, <1>10, <1>11, <1>12 DEF q

\* What the numbers are.
LEMMA Numbers ==
    /\ FromBlock \in Nat /\ ToBlock \in Nat /\ FromBlock <= ToBlock
    /\ Workers \in Nat /\ Workers > 0 /\ MaxRequests \in Nat /\ MaxRequests > 0
    /\ MinSpan \in Nat /\ MaxSpan \in Nat /\ InitialSpan \in Nat
    /\ 0 < MinSpan /\ MinSpan <= InitialSpan /\ InitialSpan <= MaxSpan
    /\ MaxMoves \in Nat /\ MaxFaults \in Nat /\ MaxRuns \in Nat
BY SpanAssumption, BoundsAssumption

\* The adaptive span stays within its bounds.
LEMMA SpanBounds ==
    ASSUME NEW s \in MinSpan..MaxSpan
    PROVE  Grow(s) \in MinSpan..MaxSpan /\ Shrink(s) \in MinSpan..MaxSpan
<1>1. s \in Nat /\ MinSpan <= s /\ s <= MaxSpan
      BY Numbers
<1>2. s \div 2 \in Nat /\ s \div 2 <= s
      BY <1>1
<1>. QED  BY <1>1, <1>2, Numbers DEF Grow, Shrink, Larger, Smaller

\* next_range stays within the range.
LEMMA NextRangeFits ==
    ASSUME NEW from \in FromBlock..ToBlock, span \in MinSpan..MaxSpan
    PROVE  LET r == NextRange(from) IN
           /\ r \in Ranges /\ r.from = from /\ r.from <= r.to /\ r.to <= ToBlock
           /\ r.at = "logs" /\ InRange(r)
<1>. DEFINE to == Smaller(from + span - 1, ToBlock)
<1>1. to \in Nat /\ from \in Nat /\ from <= to /\ to <= ToBlock /\ FromBlock <= from
      BY Numbers DEF Smaller
<1>. HIDE DEF to
<1>2. NextRange(from) = Fetch(from, to)
      BY DEF NextRange, to
<1>. QED  BY <1>1, <1>2, FetchIsRange DEF InRange
-----------------------------------------------------------------------------
(* Chains. *)

\* Two chains that agree at a height agree below it.
LEMMA SameBelow ==
    ASSUME NEW c \in Chains, NEW d \in Chains, NEW n \in 0..ToBlock, c[n] = d[n], NEW m \in 0..n
    PROVE  c[m] = d[m]
<1>. DEFINE Differ == {k \in Nat : k <= n /\ c[n - k] # d[n - k]}
<1>0. n \in Nat /\ m \in Nat /\ m <= n /\ ToBlock \in Nat /\ n <= ToBlock
      BY Numbers
<1>1. Differ = {}
  <2>1. SUFFICES ASSUME Differ # {} PROVE FALSE
        OBVIOUS
  <2>2. PICK k \in Differ : \A j \in Differ : ~(<<j, k>> \in OpToRel(<, Nat))
        BY <2>1, WFMin, NatLessThanWellFounded
  <2>3. k \in Nat /\ k <= n /\ c[n - k] # d[n - k]
        OBVIOUS
  <2>4. \A j \in Nat : j < k => <<j, k>> \in OpToRel(<, Nat)
        BY <2>3, Zenon DEF OpToRel
  <2>. HIDE DEF Differ
  <2>5. k # 0
    <3>1. n - 0 = n
          BY <1>0
    <3>. QED  BY <2>3, <3>1
  <2>6. k - 1 \in Nat /\ k - 1 < k /\ k - 1 <= n
        BY <1>0, <2>3, <2>5
  <2>7. k - 1 \notin Differ
        BY <2>2, <2>4, <2>6
  <2>8. c[n - (k - 1)] = d[n - (k - 1)]
        BY <2>6, <2>7 DEF Differ
  <2>9. n - (k - 1) \in 1..ToBlock /\ (n - (k - 1)) - 1 = n - k
        BY <1>0, <2>3, <2>5
  <2>10. \A e \in Chains : Parent[e[n - (k - 1)]] = e[(n - (k - 1)) - 1]
        BY <2>9, ChainsAssumption
  <2>. QED  BY <2>3, <2>8, <2>9, <2>10
<1>2. n - m \in Nat /\ n - m <= n /\ n - (n - m) = m
      BY <1>0
<1>3. n - m \notin Differ
      BY <1>1
<1>. QED  BY <1>2, <1>3

\* A block of a chain is of no other height.
LEMMA OneHeight ==
    ASSUME NEW c \in Chains, NEW d \in Chains, NEW h \in 0..ToBlock, NEW i \in 0..ToBlock, c[h] = d[i]
    PROVE  h = i
BY ChainsAssumption

LEMMA ChainBlocks ==
    ASSUME NEW c \in Chains, NEW h \in 0..ToBlock
    PROVE  c[h] \in Blocks
BY ChainsAssumption
-----------------------------------------------------------------------------
(* The fetch window. *)

Window == Bounded /\ Apart /\ Covered

\* A step that changes the window only.
LEMMA WindowOnly ==
    ASSUME BackfillInv, Running, pc' \in {"fill", "join", "drain"}, TypeOK', WindowShape', Window',
           UNCHANGED <<durable, nextHeight, anchor, refused>>
    PROVE  BackfillInv'
<1>. UNCHANGED <<rows, logged, checkpoint, nextHeight, anchor, refused>>
     BY DEF durable
<1>1. CommittedIsChain' /\ RowsOneChain'
      BY DEF BackfillInv, CommittedIsChain, RowsOneChain, Running
<1>2. Fresh' /\ Complete' /\ ~refused'
      BY DEF BackfillInv, Fresh, Complete
<1>. QED  BY <1>1, <1>2 DEF BackfillInv, Window

\* A task goes on with its range.
LEMMA TaskReplaced ==
    ASSUME BackfillInv, Running, NEW t \in tasks, NEW u \in Ranges,
           u.from = t.from, u.to = t.to, u.at = "fetched" => OfOneChain(u),
           tasks' = (tasks \ {t}) \cup {u},
           UNCHANGED <<queued, nextUnallocated, nextHeight, pending>>
    PROVE  WindowShape' /\ Window' /\ Cardinality(tasks') <= Workers
<1>s. WindowShape /\ Window /\ TypeOK
      BY DEF BackfillInv, Window
<1>1. IsFiniteSet(tasks') /\ Cardinality(tasks') <= Workers
  <2>1. IsFiniteSet(tasks) /\ Cardinality(tasks) <= Workers
        BY <1>s DEF WindowShape, TypeOK
  <2>2. /\ IsFiniteSet(tasks \ {t})
        /\ Cardinality(tasks \ {t}) = Cardinality(tasks) - 1
        BY <2>1, FS_RemoveElement
  <2>3. Cardinality(tasks) \in Nat
        BY <2>1, FS_CardinalityType
  <2>4. /\ IsFiniteSet((tasks \ {t}) \cup {u})
        /\ \/ Cardinality((tasks \ {t}) \cup {u}) = Cardinality(tasks \ {t})
           \/ Cardinality((tasks \ {t}) \cup {u}) = Cardinality(tasks \ {t}) + 1
        BY <2>2, FS_AddElement
  <2>. QED  BY <2>1, <2>2, <2>3, <2>4, Numbers
<1>2. WindowShape'
  <2>1. InRange(t)
        BY <1>s DEF WindowShape
  <2>2. InRange(u)
        BY <2>1 DEF InRange
  <2>. QED  BY <1>1, <1>s, <2>2 DEF WindowShape, OfOneChain, Heights
<1>3. \A r : Between(u) = Between(t) /\ Disjoint(u, r) = Disjoint(t, r) /\ Disjoint(r, u) = Disjoint(r, t)
      BY DEF Between, Disjoint
<1>4. Bounded'
      BY <1>s, <1>3 DEF Window, Bounded, Between
<1>5. Apart'
  <2>1. \A r, s \in tasks' : r # s => Disjoint(r, s)
        BY <1>s, <1>3 DEF Window, Apart
  <2>2. \A r \in tasks', s \in pending : Disjoint(r, s)
        BY <1>s, <1>3 DEF Window, Apart
  <2>3. \A i \in 1..Len(queued), r \in tasks' \cup pending : Disjoint(queued[i], r)
        BY <1>s, <1>3 DEF Window, Apart
  <2>. QED  BY <1>s, <2>1, <2>2, <2>3 DEF Window, Apart
<1>6. Covered'
  <2>1. Heights(u) = Heights(t)
        BY DEF Heights
  <2>2. ASSUME NEW h, InWindow(h) PROVE InWindow(h)'
        BY <2>1, <2>2 DEF InWindow
  <2>. QED  BY <1>s, <2>2 DEF Window, Covered
<1>. QED  BY <1>1, <1>2, <1>4, <1>5, <1>6 DEF Window

\* What BlocksByNumber fetches is of the provider's chain.
LEMMA FetchedBlocks ==
    ASSUME chain \in Chains, NEW t \in Ranges, InRange(t)
    PROVE  /\ BlocksByNumber(t) \in BlockMaps
           /\ BlocksByNumber(t) = [h \in Heights(t) |-> chain[h]]
           /\ AnchoredLogs(t) \subseteq HasLogs
<1>1. t.from \in FromBlock..ToBlock /\ t.to \in FromBlock..ToBlock
      BY Numbers DEF InRange, Ranges
<1>2. \A h \in t.from..t.to : h \in 0..ToBlock
      BY <1>1, Numbers
<1>3. BlocksByNumber(t) \in [t.from..t.to -> Blocks]
      BY <1>2, ChainBlocks DEF BlocksByNumber, Heights
<1>4. t.from..t.to \in SUBSET (FromBlock..ToBlock)
      BY <1>1, Numbers
<1>5. BlocksByNumber(t) \in BlockMaps
      BY <1>3, <1>4 DEF BlockMaps
<1>. QED  BY <1>5 DEF BlocksByNumber, AnchoredLogs

\* One call of a fetch: nothing but its task and the budget changes.
LEMMA TaskMoves ==
    ASSUME BackfillInv, NEW t \in tasks, Running, NEW u \in Ranges,
           u.from = t.from, u.to = t.to, u.at = "fetched" => OfOneChain(u),
           NEW cost \in Nat, requests + cost <= MaxRequests, TaskGoes(t, u, cost)
    PROVE  BackfillInv'
<1>. /\ tasks' = (tasks \ {t}) \cup {u} /\ requests' = requests + cost
     /\ UNCHANGED <<chain, moves, faults, runs, durable, pc, captured, span, queued,
                    nextUnallocated, coordinator, reference>>
     /\ UNCHANGED <<rows, logged, checkpoint, nextHeight, anchor, pending, refused>>
     BY DEF TaskGoes, durable, coordinator
<1>1. WindowShape' /\ Window' /\ Cardinality(tasks') <= Workers
      BY TaskReplaced
<1>2. requests' \in 0..MaxRequests
      BY Numbers DEF BackfillInv, TypeOK
<1>3. TypeOK'
      BY <1>1, <1>2 DEF BackfillInv, TypeOK
<1>. QED  BY <1>1, <1>3, WindowOnly DEF Running

LEMMA TaskSteps ==
    ASSUME BackfillInv, NEW t \in tasks, TaskStep(t)
    PROVE  BackfillInv'
<1>s. /\ t \in Ranges /\ InRange(t) /\ chain \in Chains /\ requests \in Nat /\ requests <= MaxRequests
      BY Numbers DEF BackfillInv, WindowShape, TypeOK
<1>r. Running
      BY DEF TaskStep, FetchLogs, FetchBlocks, FetchRetry, BudgetExceeded, Fetching, Running
<1>p. Span(t) \in Nat /\ MaxRequests - requests \in Nat /\ 1 \in Nat
      BY <1>s, Numbers DEF Span, InRange, Ranges
<1>t. \A a \in FetchStates \ {"fetched"} :
          /\ [t EXCEPT !.at = a] \in Ranges
          /\ [t EXCEPT !.at = a].from = t.from /\ [t EXCEPT !.at = a].to = t.to
          /\ [t EXCEPT !.at = a].at # "fetched"
      BY <1>s DEF Ranges
<1>a. /\ {"limited", "error"} \subseteq FetchStates \ {"fetched"}
      /\ {"blocks", "fetched"} \subseteq FetchStates
      BY DEF FetchStates
<1>1. CASE FetchLogs(t)
  <2>1. requests + 1 <= MaxRequests
        BY <1>1 DEF FetchLogs, Affords
  <2>2. CASE TaskGoes(t, [t EXCEPT !.at = "blocks", !.logs = AnchoredLogs(t)], 1)
    <3>. DEFINE u == [t EXCEPT !.at = "blocks", !.logs = AnchoredLogs(t)]
    <3>1. u \in Ranges /\ u.from = t.from /\ u.to = t.to /\ u.at = "blocks"
          BY <1>s, <1>a, FetchedBlocks DEF Ranges
    <3>. HIDE DEF u
    <3>2. TaskGoes(t, u, 1)
          BY <2>2 DEF u
    <3>. QED  BY <1>r, <1>p, <2>1, <3>1, <3>2, TaskMoves
  <2>3. CASE TaskGoes(t, [t EXCEPT !.at = "limited"], 1)
        BY <1>r, <1>p, <1>t, <1>a, <2>1, <2>3, TaskMoves
  <2>. QED  BY <1>1, <2>2, <2>3 DEF FetchLogs
<1>2. CASE FetchBlocks(t)
  <2>1. requests + Span(t) <= MaxRequests
        BY <1>2 DEF FetchBlocks, Affords
  <2>. DEFINE got == BlocksByNumber(t)
              u == [t EXCEPT !.at = "fetched", !.blocks = got]
  <2>2. CASE TaskGoes(t, [t EXCEPT !.at = "error"], Span(t))
        BY <1>r, <1>p, <1>t, <1>a, <2>1, <2>2, TaskMoves
  <2>3. CASE TaskGoes(t, u, Span(t))
    <3>1. got \in BlockMaps /\ got = [h \in Heights(t) |-> chain[h]]
          BY <1>s, FetchedBlocks
    <3>. HIDE DEF got
    <3>2. u \in Ranges /\ u.from = t.from /\ u.to = t.to /\ u.blocks = got
          BY <1>s, <1>a, <3>1 DEF Ranges
    <3>. HIDE DEF u
    <3>3. Heights(u) = Heights(t)
          BY <3>2 DEF Heights
    <3>4. OfOneChain(u)
          BY <1>s, <3>1, <3>2, <3>3 DEF OfOneChain
    <3>. QED  BY <1>r, <1>p, <2>1, <2>3, <3>2, <3>4, TaskMoves
  <2>. QED  BY <1>2, <2>2, <2>3 DEF FetchBlocks
<1>3. CASE FetchRetry(t)
  <2>1. t.at # "fetched"
        BY <1>3 DEF FetchRetry, Fetching
  <2>2. CASE Affords(1) /\ TaskGoes(t, t, 1)
        BY <1>r, <1>s, <1>p, <2>1, <2>2, TaskMoves DEF Affords
  <2>3. CASE Affords(Span(t)) /\ TaskGoes(t, t, Span(t))
        BY <1>r, <1>s, <1>p, <2>1, <2>3, TaskMoves DEF Affords
  <2>. QED  BY <1>3, <2>2, <2>3 DEF FetchRetry
<1>4. CASE BudgetExceeded(t)
  <2>1. TaskGoes(t, [t EXCEPT !.at = "error"], MaxRequests - requests)
        BY <1>4 DEF BudgetExceeded
  <2>2. requests + (MaxRequests - requests) <= MaxRequests
        BY <1>s, Numbers
  <2>. QED  BY <1>r, <1>p, <1>t, <1>a, <2>1, <2>2, TaskMoves
<1>. QED  BY <1>1, <1>2, <1>3, <1>4 DEF TaskStep

LEMMA FetchGivesUp ==
    ASSUME BackfillInv, NEW t \in tasks, FetchFails(t)
    PROVE  BackfillInv'
<1>. DEFINE u == [t EXCEPT !.at = "error"]
<1>1. /\ Running /\ faults < MaxFaults /\ faults' = faults + 1 /\ tasks' = (tasks \ {t}) \cup {u}
      /\ UNCHANGED <<chain, moves, runs, durable, pc, captured, span, queued,
                     nextUnallocated, requests, coordinator, reference>>
      /\ UNCHANGED <<rows, logged, checkpoint, nextHeight, anchor, pending, refused>>
      BY DEF FetchFails, Fetching, Running, durable, coordinator
<1>2. u \in Ranges /\ u.from = t.from /\ u.to = t.to /\ u.at = "error"
      BY DEF BackfillInv, WindowShape, Ranges, FetchStates
<1>. HIDE DEF u
<1>3. WindowShape' /\ Window' /\ Cardinality(tasks') <= Workers
      BY <1>1, <1>2, TaskReplaced
<1>4. faults' \in 0..MaxFaults
      BY <1>1, Numbers DEF BackfillInv, TypeOK
<1>5. TypeOK'
      BY <1>1, <1>3, <1>4 DEF BackfillInv, TypeOK
<1>. QED  BY <1>1, <1>3, <1>5, WindowOnly DEF Running

\* A task more, whose range overlaps nothing.
LEMMA TaskAdded ==
    ASSUME WindowShape, NEW r \in Ranges, Cardinality(tasks) < Workers
    PROVE  IsFiniteSet(tasks \cup {r}) /\ Cardinality(tasks \cup {r}) <= Workers
<1>1. IsFiniteSet(tasks)
      BY DEF WindowShape
<1>2. Cardinality(tasks) \in Nat
      BY <1>1, FS_CardinalityType
<1>3. /\ IsFiniteSet(tasks \cup {r})
      /\ \/ Cardinality(tasks \cup {r}) = Cardinality(tasks)
         \/ Cardinality(tasks \cup {r}) = Cardinality(tasks) + 1
      BY <1>1, FS_AddElement
<1>. QED  BY <1>2, <1>3, Numbers

LEMMA QueuedHandedOut ==
    ASSUME BackfillInv, FillQueued
    PROVE  BackfillInv'
<1>. DEFINE r == Head(queued)
            q == Tail(queued)
<1>1. /\ Running /\ pc = "fill" /\ tasks' = tasks \cup {r} /\ queued' = q
      /\ Cardinality(tasks) < Workers /\ queued # <<>>
      /\ UNCHANGED <<chain, moves, faults, runs, durable, pc, captured, span,
                     nextUnallocated, requests, coordinator, reference>>
      /\ UNCHANGED <<rows, logged, checkpoint, nextHeight, anchor, pending, refused>>
      BY DEF FillQueued, Running, durable, coordinator
<1>s. WindowShape /\ Window /\ TypeOK
      BY <1>1 DEF BackfillInv, Window
<1>2. /\ r = queued[1] /\ 1 \in 1..Len(queued) /\ r \in Ranges /\ q \in Seq(Ranges)
      /\ Len(queued) \in Nat /\ Len(q) = Len(queued) - 1
      /\ \A i \in 1..Len(q) : q[i] = queued[i + 1] /\ i + 1 \in 1..Len(queued) /\ i + 1 # 1
      BY <1>1, <1>s DEF WindowShape
<1>. HIDE DEF r, q
<1>3. InRange(r) /\ Between(r) /\ (\A s \in tasks \cup pending : Disjoint(r, s))
      BY <1>2, <1>s DEF WindowShape, Window, Bounded, Apart
<1>4. IsFiniteSet(tasks') /\ Cardinality(tasks') <= Workers
      BY <1>1, <1>2, <1>s, TaskAdded
<1>5. WindowShape'
  <2>1. \A i \in 1..Len(q) : InRange(q[i]) /\ q[i].at = "logs"
        BY <1>2, <1>s DEF WindowShape
  <2>2. r.at # "fetched"
        BY <1>2, <1>s DEF WindowShape
  <2>. QED  BY <1>1, <1>2, <1>3, <1>4, <1>s, <2>1, <2>2 DEF WindowShape
<1>6. Bounded'
  <2>1. \A i \in 1..Len(q) : Between(q[i])
        BY <1>2, <1>s DEF Window, Bounded
  <2>. QED  BY <1>1, <1>3, <1>s, <2>1 DEF Window, Bounded, Between
<1>7. Apart'
  <2>1. \A x, y : Disjoint(x, y) <=> Disjoint(y, x)
        BY DEF Disjoint
  <2>2. \A x, y \in tasks' : x # y => Disjoint(x, y)
        BY <1>1, <1>3, <1>s, <2>1 DEF Window, Apart
  <2>3. \A x \in tasks', y \in pending : Disjoint(x, y)
        BY <1>1, <1>3, <1>s DEF Window, Apart
  <2>4. ASSUME NEW i \in 1..Len(q), NEW j \in 1..Len(q), i # j PROVE Disjoint(q[i], q[j])
    <3>1. i + 1 # j + 1
          BY <1>2, <2>4
    <3>. QED  BY <1>2, <1>s, <3>1 DEF Window, Apart
  <2>5. ASSUME NEW i \in 1..Len(q), NEW x \in tasks' \cup pending PROVE Disjoint(q[i], x)
    <3>1. CASE x = r
          BY <1>2, <1>s, <3>1 DEF Window, Apart
    <3>2. CASE x \in tasks \cup pending
          BY <1>2, <1>s, <3>2 DEF Window, Apart
    <3>. QED  BY <1>1, <2>5, <3>1, <3>2
  <2>. QED  BY <1>1, <1>s, <2>2, <2>3, <2>4, <2>5 DEF Window, Apart
<1>8. Covered'
  <2>1. ASSUME NEW h, InWindow(h) PROVE InWindow(h)'
    <3>1. CASE \E x \in tasks \cup pending : h \in Heights(x)
          BY <1>1, <3>1 DEF InWindow
    <3>2. ASSUME NEW i \in 1..Len(queued), h \in Heights(queued[i]) PROVE InWindow(h)'
      <4>1. CASE i = 1
            BY <1>1, <1>2, <3>2, <4>1 DEF InWindow
      <4>2. CASE i # 1
        <5>1. i - 1 \in 1..Len(q) /\ (i - 1) + 1 = i
              BY <1>2, <4>2
        <5>2. q[i - 1] = queued[i]
              BY <1>2, <5>1
        <5>. QED  BY <1>1, <3>2, <5>1, <5>2 DEF InWindow
      <4>. QED  BY <4>1, <4>2
    <3>. QED  BY <2>1, <3>1, <3>2 DEF InWindow
  <2>. QED  BY <1>1, <1>s, <2>1 DEF Window, Covered
<1>9. TypeOK'
      BY <1>1, <1>4, <1>s DEF TypeOK
<1>. QED  BY <1>1, <1>5, <1>6, <1>7, <1>8, <1>9, WindowOnly DEF Window

LEMMA NextHandedOut ==
    ASSUME BackfillInv, FillNext
    PROVE  BackfillInv'
<1>. DEFINE r == NextRange(nextUnallocated)
<1>1. /\ Running /\ pc = "fill" /\ tasks' = tasks \cup {r} /\ nextUnallocated' = r.to + 1
      /\ Cardinality(tasks) < Workers /\ queued = <<>> /\ nextUnallocated <= ToBlock
      /\ UNCHANGED <<chain, moves, faults, runs, durable, pc, captured, span, queued,
                     requests, coordinator, reference>>
      /\ UNCHANGED <<rows, logged, checkpoint, nextHeight, anchor, pending, refused>>
      BY DEF FillNext, Running, durable, coordinator
<1>s. WindowShape /\ Window /\ TypeOK
      BY <1>1 DEF BackfillInv, Window
<1>2. /\ nextUnallocated \in FromBlock..ToBlock /\ nextUnallocated \in Nat /\ nextHeight \in Nat
      /\ span \in MinSpan..MaxSpan /\ nextHeight <= nextUnallocated
      BY <1>1, <1>s, Numbers DEF TypeOK, Window, Bounded
<1>3. /\ r \in Ranges /\ r.from = nextUnallocated /\ r.from <= r.to /\ r.to <= ToBlock
      /\ r.at = "logs" /\ InRange(r) /\ r.to \in Nat
      BY <1>2, NextRangeFits DEF Ranges
<1>. HIDE DEF r
<1>4. IsFiniteSet(tasks') /\ Cardinality(tasks') <= Workers
      BY <1>1, <1>3, <1>s, TaskAdded
<1>5. WindowShape'
      BY <1>1, <1>3, <1>4, <1>s DEF WindowShape
<1>t. \A s \in tasks \cup pending : s.from \in Nat /\ s.to \in Nat /\ Between(s) /\ s.from <= s.to
      BY <1>s DEF WindowShape, Window, Bounded, Ranges, InRange
<1>6. Bounded'
      BY <1>1, <1>2, <1>3, <1>t DEF Bounded, Between
<1>d. \A s \in tasks \cup pending : Disjoint(r, s) /\ Disjoint(s, r)
      BY <1>2, <1>3, <1>t DEF Disjoint, Between
<1>7. Apart'
      BY <1>1, <1>s, <1>d DEF Window, Apart
<1>8. Covered'
  <2>1. ASSUME NEW h \in nextHeight'..nextUnallocated' - 1 PROVE InWindow(h)'
    <3>1. CASE h < nextUnallocated
      <4>1. InWindow(h)
            BY <1>1, <1>2, <1>s, <2>1, <3>1 DEF Window, Covered
      <4>. QED  BY <1>1, <4>1 DEF InWindow
    <3>2. CASE h >= nextUnallocated
      <4>1. h \in Heights(r)
            BY <1>1, <1>2, <1>3, <2>1, <3>2 DEF Heights
      <4>. QED  BY <1>1, <4>1 DEF InWindow
    <3>. QED  BY <1>1, <1>2, <2>1, <3>1, <3>2
  <2>. QED  BY <2>1 DEF Covered
<1>9. TypeOK'
  <2>1. nextUnallocated' \in FromBlock..ToBlock + 1
        BY <1>1, <1>2, <1>3, Numbers
  <2>. QED  BY <1>1, <1>4, <1>s, <2>1 DEF TypeOK
<1>. QED  BY <1>1, <1>5, <1>6, <1>7, <1>8, <1>9, WindowOnly DEF Window

\* ProviderLimit: the chunks take the place of the task.
LEMMA LimitedSplit ==
    ASSUME BackfillInv, NEW t \in tasks, JoinLimited(t)
    PROVE  BackfillInv'
<1>. DEFINE ch == Chunks(t.from, t.to, Shrink(span))
            q == ch \o queued
<1>1. /\ Running /\ pc' = "fill" /\ tasks' = tasks \ {t} /\ queued' = q /\ span' = Shrink(span)
      /\ UNCHANGED <<chain, moves, faults, runs, durable, captured, nextUnallocated,
                     requests, coordinator, reference>>
      /\ UNCHANGED <<rows, logged, checkpoint, nextHeight, anchor, pending, refused>>
      BY DEF JoinLimited, Running, durable, coordinator
<1>s. WindowShape /\ Window /\ TypeOK
      BY <1>1 DEF BackfillInv, Window
<1>2. span' \in MinSpan..MaxSpan /\ Shrink(span) \in Nat /\ Shrink(span) > 0
  <2>1. span \in MinSpan..MaxSpan
        BY <1>s DEF TypeOK
  <2>2. Shrink(span) \in MinSpan..MaxSpan
        BY <2>1, SpanBounds
  <2>. QED  BY <1>1, <2>2, Numbers
<1>3. /\ t \in Ranges /\ t.from \in Nat /\ t.to \in Nat /\ InRange(t) /\ Between(t)
      BY <1>s DEF WindowShape, Window, Bounded, Ranges
<1>4. /\ ch \in Seq(Ranges)
      /\ \A i \in 1..Len(ch) : /\ InRange(ch[i]) /\ ch[i].at = "logs"
                               /\ t.from <= ch[i].from /\ ch[i].to <= t.to
      /\ \A i, j \in 1..Len(ch) : i # j => Disjoint(ch[i], ch[j])
      /\ \A h \in t.from..t.to : \E i \in 1..Len(ch) : h \in Heights(ch[i])
      BY <1>2, <1>3, ChunksPartition DEF InRange
<1>. HIDE DEF ch
<1>5. /\ queued \in Seq(Ranges) /\ q \in Seq(Ranges) /\ Len(ch) \in Nat /\ Len(queued) \in Nat
      /\ Len(q) = Len(ch) + Len(queued)
      /\ \A i \in 1..Len(ch) : i \in 1..Len(q) /\ q[i] = ch[i]
      /\ \A i \in 1..Len(queued) : i + Len(ch) \in 1..Len(q) /\ q[i + Len(ch)] = queued[i]
      BY <1>4, <1>s DEF WindowShape
<1>. HIDE DEF q
<1>6. ASSUME NEW i \in 1..Len(q)
      PROVE  \/ i \in 1..Len(ch) /\ q[i] = ch[i]
             \/ i - Len(ch) \in 1..Len(queued) /\ q[i] = queued[i - Len(ch)]
  <2>1. CASE i <= Len(ch)
        BY <1>5, <2>1
  <2>2. CASE ~(i <= Len(ch))
    <3>1. i - Len(ch) \in 1..Len(queued) /\ (i - Len(ch)) + Len(ch) = i
          BY <1>5, <2>2
    <3>. QED  BY <1>5, <3>1
  <2>. QED  BY <2>1, <2>2
<1>7. IsFiniteSet(tasks') /\ Cardinality(tasks') <= Workers
  <2>1. IsFiniteSet(tasks) /\ Cardinality(tasks) <= Workers
        BY <1>s DEF WindowShape, TypeOK
  <2>2. IsFiniteSet(tasks \ {t}) /\ Cardinality(tasks \ {t}) = Cardinality(tasks) - 1
        BY <2>1, FS_RemoveElement
  <2>3. Cardinality(tasks) \in Nat
        BY <2>1, FS_CardinalityType
  <2>. QED  BY <1>1, <2>1, <2>2, <2>3, Numbers
<1>8. WindowShape'
  <2>1. \A i \in 1..Len(q) : InRange(q[i]) /\ q[i].at = "logs"
        BY <1>4, <1>6, <1>s DEF WindowShape
  <2>. QED  BY <1>1, <1>5, <1>7, <1>s, <2>1 DEF WindowShape
<1>9. Bounded'
  <2>1. ASSUME NEW i \in 1..Len(ch) PROVE Between(ch[i])
    <3>1. ch[i].from \in Nat /\ ch[i].to \in Nat
      <4>1. ch[i] \in Ranges
            BY <1>4
      <4>. QED  BY <4>1 DEF Ranges
    <3>2. nextHeight \in Nat /\ nextUnallocated \in Nat
          BY <1>s, Numbers DEF TypeOK
    <3>. QED  BY <1>3, <1>4, <3>1, <3>2 DEF Between
  <2>2. \A i \in 1..Len(q) : Between(q[i])
        BY <1>6, <1>s, <2>1 DEF Window, Bounded
  <2>. QED  BY <1>1, <1>s, <2>2 DEF Window, Bounded, Between
<1>10. Apart'
  <2>. DEFINE Other(s) == s \in (tasks \ {t}) \cup pending \/ \E j \in 1..Len(queued) : s = queued[j]
  <2>1. ASSUME NEW i \in 1..Len(ch), NEW s \in Ranges, Other(s)
        PROVE  Disjoint(ch[i], s) /\ Disjoint(s, ch[i])
    <3>1. Disjoint(t, s)
          BY <1>s, <2>1 DEF Window, Apart, Disjoint
    <3>2. ch[i].from \in Nat /\ ch[i].to \in Nat /\ s.from \in Nat /\ s.to \in Nat
      <4>1. ch[i] \in Ranges
            BY <1>4
      <4>. QED  BY <2>1, <4>1 DEF Ranges
    <3>. QED  BY <1>3, <1>4, <3>1, <3>2 DEF Disjoint
  <2>2. \A s : Other(s) => s \in Ranges
        BY <1>s, <1>5 DEF WindowShape
  <2>3. ASSUME NEW i \in 1..Len(q), NEW j \in 1..Len(q), i # j PROVE Disjoint(q[i], q[j])
    <3>1. CASE i \in 1..Len(ch) /\ q[i] = ch[i] /\ j \in 1..Len(ch) /\ q[j] = ch[j]
          BY <1>4, <2>3, <3>1
    <3>2. CASE i \in 1..Len(ch) /\ q[i] = ch[i] /\ Other(q[j])
          BY <2>1, <2>2, <3>2
    <3>3. CASE Other(q[i]) /\ j \in 1..Len(ch) /\ q[j] = ch[j]
          BY <2>1, <2>2, <3>3
    <3>4. CASE /\ i - Len(ch) \in 1..Len(queued) /\ q[i] = queued[i - Len(ch)]
               /\ j - Len(ch) \in 1..Len(queued) /\ q[j] = queued[j - Len(ch)]
      <4>1. i - Len(ch) # j - Len(ch)
            BY <1>5, <2>3
      <4>. QED  BY <1>s, <3>4, <4>1 DEF Window, Apart
    <3>. QED  BY <1>6, <3>1, <3>2, <3>3, <3>4
  <2>4. ASSUME NEW i \in 1..Len(q), NEW s \in tasks' \cup pending PROVE Disjoint(q[i], s)
    <3>1. Other(s)
          BY <1>1, <2>4
    <3>2. CASE i \in 1..Len(ch) /\ q[i] = ch[i]
          BY <2>1, <2>2, <3>1, <3>2
    <3>3. CASE i - Len(ch) \in 1..Len(queued) /\ q[i] = queued[i - Len(ch)]
          BY <1>1, <1>s, <2>4, <3>3 DEF Window, Apart
    <3>. QED  BY <1>6, <3>2, <3>3
  <2>. QED  BY <1>1, <1>s, <2>3, <2>4 DEF Window, Apart
<1>11. Covered'
  <2>1. ASSUME NEW h, InWindow(h) PROVE InWindow(h)'
    <3>1. CASE \E x \in (tasks \ {t}) \cup pending : h \in Heights(x)
          BY <1>1, <3>1 DEF InWindow
    <3>2. CASE h \in Heights(t)
      <4>1. PICK i \in 1..Len(ch) : h \in Heights(ch[i])
            BY <1>4, <3>2 DEF Heights
      <4>. QED  BY <1>1, <1>5, <4>1 DEF InWindow
    <3>3. CASE \E i \in 1..Len(queued) : h \in Heights(queued[i])
      <4>1. PICK i \in 1..Len(queued) : h \in Heights(queued[i])
            BY <3>3
      <4>. QED  BY <1>1, <1>5, <4>1 DEF InWindow
    <3>. QED  BY <2>1, <3>1, <3>2, <3>3 DEF InWindow
  <2>. QED  BY <1>1, <1>s, <2>1 DEF Window, Covered
<1>12. TypeOK'
      BY <1>1, <1>2, <1>7, <1>s DEF TypeOK
<1>. QED  BY <1>1, <1>8, <1>9, <1>10, <1>11, <1>12, WindowOnly DEF Window

\* insert_pending never has a reason to refuse.
LEMMA NeverRefused ==
    ASSUME BackfillInv, NEW t \in tasks, JoinFetched(t)
    PROVE  ~Refuses(t)
<1>1. Running
      BY DEF JoinFetched, Running
<1>2. WindowShape /\ Window /\ TypeOK
      BY <1>1 DEF BackfillInv, Window
<1>3. \A r \in tasks \cup pending : /\ r.from \in Nat /\ r.to \in Nat /\ r.from <= r.to
                                    /\ r.to <= ToBlock /\ nextHeight <= r.from
      BY <1>2 DEF WindowShape, Ranges, InRange, Window, Bounded, Between
<1>4. ~(t.to > ToBlock) /\ ~(t.from < nextHeight)
      BY <1>2, <1>3, Numbers DEF TypeOK
<1>5. ASSUME NEW r \in pending, r.from = t.from PROVE FALSE
  <2>1. Disjoint(t, r)
        BY <1>2 DEF Window, Apart
  <2>. QED  BY <1>3, <1>5, <2>1 DEF Disjoint
<1>. QED  BY <1>4, <1>5 DEF Refuses

LEMMA FetchedBuffered ==
    ASSUME BackfillInv, NEW t \in tasks, JoinFetched(t)
    PROVE  BackfillInv'
<1>0. ~Refuses(t)
      BY NeverRefused
<1>1. /\ Running /\ pc = "join" /\ t.at = "fetched" /\ pc' = "drain"
      /\ tasks' = tasks \ {t} /\ span' = Grow(span) /\ pending' = pending \cup {t}
      /\ UNCHANGED <<chain, moves, faults, runs, durable, captured, queued,
                     nextUnallocated, requests, nextHeight, anchor, refused, reference>>
      /\ UNCHANGED <<rows, logged, checkpoint>>
      BY <1>0 DEF JoinFetched, Running, durable
<1>s. WindowShape /\ Window /\ TypeOK
      BY <1>1 DEF BackfillInv, Window
<1>2. span' \in MinSpan..MaxSpan
  <2>1. span \in MinSpan..MaxSpan
        BY <1>s DEF TypeOK
  <2>. QED  BY <1>1, <2>1, SpanBounds
<1>3. IsFiniteSet(tasks') /\ Cardinality(tasks') <= Workers
  <2>1. IsFiniteSet(tasks) /\ Cardinality(tasks) <= Workers
        BY <1>s DEF WindowShape, TypeOK
  <2>2. IsFiniteSet(tasks \ {t}) /\ Cardinality(tasks \ {t}) = Cardinality(tasks) - 1
        BY <2>1, FS_RemoveElement
  <2>3. Cardinality(tasks) \in Nat
        BY <2>1, FS_CardinalityType
  <2>. QED  BY <1>1, <2>1, <2>2, <2>3, Numbers
<1>4. tasks' \cup pending' = tasks \cup pending
      BY <1>1
<1>5. WindowShape'
      BY <1>1, <1>3, <1>s DEF WindowShape
<1>6. Bounded'
      BY <1>1, <1>4, <1>s DEF Window, Bounded, Between
<1>7. Apart'
  <2>1. \A x, y : Disjoint(x, y) <=> Disjoint(y, x)
        BY DEF Disjoint
  <2>2. \A x, y \in pending' : x # y => Disjoint(x, y)
        BY <1>1, <1>s, <2>1 DEF Window, Apart
  <2>3. \A x \in tasks', y \in pending' : Disjoint(x, y)
        BY <1>1, <1>s DEF Window, Apart
  <2>4. \A i \in 1..Len(queued), x \in tasks' \cup pending' : Disjoint(queued[i], x)
        BY <1>4, <1>s DEF Window, Apart
  <2>. QED  BY <1>1, <1>s, <2>2, <2>3, <2>4 DEF Window, Apart
<1>8. Covered'
      BY <1>1, <1>4, <1>s DEF Window, Covered, InWindow
<1>9. TypeOK'
      BY <1>1, <1>2, <1>3, <1>s DEF TypeOK
<1>. QED  BY <1>1, <1>5, <1>6, <1>7, <1>8, <1>9, WindowOnly DEF Window

\* A run that ends with an error, or dies: only the rows stay.
LEMMA Aborted ==
    ASSUME BackfillInv, Abort, faults' \in 0..MaxFaults, ~refused', refused' \in BOOLEAN
    PROVE  BackfillInv'
<1>. /\ pc' = "failed" /\ tasks' = {}
     /\ UNCHANGED <<chain, moves, runs, rows, logged, checkpoint, captured, span, queued,
                    nextUnallocated, requests, nextHeight, anchor, pending, reference>>
     BY DEF Abort, durable
<1>1. IsFiniteSet({}) /\ Cardinality({}) = 0
      BY FS_EmptySet
<1>2. TypeOK'
      BY <1>1, Numbers DEF BackfillInv, TypeOK
<1>3. WindowShape'
      BY <1>1 DEF BackfillInv, WindowShape
<1>4. Fresh' /\ ~Running' /\ CommittedIsChain' /\ RowsOneChain' /\ Complete'
      BY DEF BackfillInv, Fresh, Running, CommittedIsChain, RowsOneChain, Complete
<1>. QED  BY <1>2, <1>3, <1>4 DEF BackfillInv

\* A suffix that no longer follows is thrown away and queued again.
LEMMA SuffixRequeued ==
    ASSUME BackfillInv, DrainInvalidated
    PROVE  BackfillInv'
<1>1. PICK r \in Ready : queued' = Chunks(r.from, ToBlock, span)
      BY DEF DrainInvalidated
<1>2. /\ Running /\ pc' = "fill" /\ tasks' = {} /\ pending' = {} /\ nextUnallocated' = ToBlock + 1
      /\ UNCHANGED <<chain, moves, faults, runs, durable, captured, span, requests,
                     nextHeight, anchor, refused, reference>>
      /\ UNCHANGED <<rows, logged, checkpoint>>
      BY DEF DrainInvalidated, Running, durable
<1>s. WindowShape /\ Window /\ TypeOK
      BY <1>2 DEF BackfillInv, Window
<1>3. r \in pending /\ r.from = nextHeight
      BY DEF Ready
<1>4. nextHeight \in Nat /\ FromBlock <= nextHeight /\ nextHeight <= ToBlock
  <2>1. InRange(r) /\ r \in Ranges
        BY <1>3, <1>s DEF WindowShape
  <2>. QED  BY <1>3, <2>1, Numbers DEF InRange, Ranges
<1>5. span \in Nat /\ span > 0
      BY <1>s, Numbers DEF TypeOK
<1>. DEFINE q == Chunks(nextHeight, ToBlock, span)
<1>6. /\ q \in Seq(Ranges)
      /\ \A i \in 1..Len(q) : /\ InRange(q[i]) /\ q[i].at = "logs"
                              /\ nextHeight <= q[i].from /\ q[i].to <= ToBlock
      /\ \A i, j \in 1..Len(q) : i # j => Disjoint(q[i], q[j])
      /\ \A h \in nextHeight..ToBlock : \E i \in 1..Len(q) : h \in Heights(q[i])
  <2>1. ToBlock \in Nat /\ ToBlock <= ToBlock
        BY Numbers
  <2>. QED  BY <1>4, <1>5, <2>1, ChunksPartition
<1>7. queued' = q
      BY <1>1, <1>3
<1>. HIDE DEF q
<1>8. IsFiniteSet({}) /\ Cardinality({}) = 0
      BY FS_EmptySet
<1>9. WindowShape'
      BY <1>2, <1>6, <1>7, <1>8 DEF WindowShape
<1>10. Bounded'
  <2>1. ASSUME NEW i \in 1..Len(q) PROVE nextHeight <= q[i].from /\ q[i].to < ToBlock + 1
    <3>1. q[i] \in Ranges
          BY <1>6
    <3>. QED  BY <1>6, <3>1, Numbers DEF Ranges
  <2>. QED  BY <1>2, <1>4, <1>7, <2>1, Numbers DEF Bounded, Between
<1>11. Apart'
      BY <1>2, <1>6, <1>7 DEF Apart
<1>12. Covered'
  <2>1. nextHeight' = nextHeight /\ nextUnallocated' - 1 = ToBlock
        BY <1>2, Numbers
  <2>2. \A h \in nextHeight..ToBlock : InWindow(h)'
        BY <1>6, <1>7 DEF InWindow
  <2>. QED  BY <2>1, <2>2 DEF Covered
<1>13. TypeOK'
  <2>1. ToBlock + 1 \in FromBlock..ToBlock + 1
        BY Numbers
  <2>. QED  BY <1>2, <1>8, <1>s, <2>1, Numbers DEF TypeOK
<1>. QED  BY <1>2, <1>9, <1>10, <1>11, <1>12, <1>13, WindowOnly DEF Window

\* The chain a ready range is of holds everything the run committed before it.
LEMMA RangeContinues ==
    ASSUME BackfillInv, pc = "drain", NEW r \in Ready, Follows(r)
    PROVE  /\ r \in Ranges /\ InRange(r) /\ r \in pending /\ r.from = nextHeight
           /\ \E c \in Chains :
                  /\ \A h \in r.from..r.to : r.blocks[h] = c[h]
                  /\ \A h \in FromBlock..nextHeight - 1 : c[h] \in rows
<1>1. /\ r \in Ranges /\ InRange(r) /\ r \in pending /\ r.from = nextHeight /\ OfOneChain(r)
      BY DEF BackfillInv, WindowShape, Ready
<1>2. PICK c \in Chains : r.blocks = [h \in Heights(r) |-> c[h]]
      BY <1>1 DEF OfOneChain
<1>3. \A h \in r.from..r.to : r.blocks[h] = c[h]
      BY <1>2 DEF Heights
<1>4. r.from \in Nat /\ r.to \in Nat /\ FromBlock <= r.from /\ r.from <= r.to /\ r.to <= ToBlock
      BY <1>1 DEF InRange, Ranges
<1>5. \A h \in FromBlock..nextHeight - 1 : c[h] \in rows
  <2>1. CASE nextHeight = FromBlock
        BY <2>1, Numbers
  <2>2. CASE nextHeight > FromBlock
    <3>1. PICK d \in Chains : /\ d[nextHeight - 1] = anchor
                              /\ \A h \in FromBlock..nextHeight - 1 : d[h] \in rows
          BY <2>2 DEF BackfillInv, CommittedIsChain
    <3>2. nextHeight - 1 \in 0..ToBlock /\ nextHeight \in 1..ToBlock /\ nextHeight \in r.from..r.to
          BY <1>1, <1>4, <2>2, Numbers
    <3>3. anchor # None
          BY <3>1, <3>2, ChainBlocks, NoneAssumption
    <3>4. Parent[c[nextHeight]] = anchor
          BY <1>1, <1>3, <3>2, <3>3 DEF Follows
    <3>5. c[nextHeight - 1] = d[nextHeight - 1]
          BY <3>1, <3>2, <3>4, ChainsAssumption
    <3>6. ASSUME NEW h \in FromBlock..nextHeight - 1 PROVE c[h] \in rows
      <4>1. h \in 0..nextHeight - 1
            BY <3>2, Numbers
      <4>2. c[h] = d[h]
            BY <3>2, <3>5, <4>1, SameBelow
      <4>. QED  BY <3>1, <4>2
    <3>. QED  BY <3>6
  <2>. QED  BY <1>1, <1>4, <2>1, <2>2, Numbers
<1>. QED  BY <1>1, <1>3, <1>5

\* The rows of all runs, with those of a range the writer takes, are one chain.
LEMMA RowsGrow ==
    ASSUME RowsOneChain, NEW c \in Chains, NEW n \in FromBlock..ToBlock, NEW to \in n..ToBlock,
           \A h \in FromBlock..n - 1 : c[h] \in rows,
           \A h \in n..to : rows \cap AtHeight(h) \subseteq {c[h]},
           rows' = rows \cup {c[h] : h \in n..to}
    PROVE  RowsOneChain'
<1>0. n \in Nat /\ to \in Nat /\ FromBlock <= n /\ n <= to /\ to <= ToBlock
      /\ FromBlock \in Nat /\ ToBlock \in Nat
      BY Numbers
<1>h. /\ \A h \in FromBlock..ToBlock : h \in 0..ToBlock
      /\ \A h \in FromBlock..to : h \in FromBlock..ToBlock
      BY <1>0
<1>1. CASE rows = {}
  <2>1. n = FromBlock
    <3>1. SUFFICES ASSUME n # FromBlock PROVE FALSE
          OBVIOUS
    <3>2. FromBlock \in FromBlock..n - 1
          BY <1>0, <3>1
    <3>. QED  BY <1>1, <3>2
  <2>2. rows' = {c[h] : h \in FromBlock..to} /\ to \in FromBlock..ToBlock
        BY <1>0, <1>1, <2>1
  <2>. QED  BY <2>2 DEF RowsOneChain
<1>2. ASSUME NEW d \in Chains, NEW top \in FromBlock..ToBlock, rows = {d[h] : h \in FromBlock..top}
      PROVE  RowsOneChain'
  <2>0. top \in Nat /\ FromBlock <= top /\ top <= ToBlock
        BY <1>0
  <2>1. ASSUME NEW h \in FromBlock..n - 1 PROVE h <= top /\ c[h] = d[h]
    <3>1. PICK i \in FromBlock..top : c[h] = d[i]
          BY <1>2
    <3>2. h \in 0..ToBlock /\ i \in 0..ToBlock /\ i <= top
          BY <1>0, <2>0
    <3>3. h = i
          BY <3>1, <3>2, OneHeight
    <3>. QED  BY <3>1, <3>2, <3>3
  <2>2. n - 1 <= top
    <3>1. CASE n = FromBlock
          BY <1>0, <2>0, <3>1
    <3>2. CASE n # FromBlock
      <4>1. n - 1 \in FromBlock..n - 1
            BY <1>0, <3>2
      <4>. QED  BY <2>1, <4>1
    <3>. QED  BY <3>1, <3>2
  <2>3. ASSUME NEW h \in n..to, h <= top PROVE c[h] = d[h]
    <3>1. h \in FromBlock..top
          BY <1>0, <2>0, <2>3
    <3>2. d[h] \in rows /\ d[h] \in AtHeight(h)
          BY <1>2, <3>1 DEF AtHeight
    <3>. QED  BY <3>2
  <2>4. CASE to <= top
    <3>1. \A h \in n..to : h <= top /\ h \in FromBlock..top
          BY <1>0, <2>0, <2>4
    <3>2. \A h \in n..to : c[h] \in rows
          BY <1>2, <2>3, <3>1
    <3>3. rows' = rows
          BY <3>2
    <3>. QED  BY <1>2, <3>3 DEF RowsOneChain
  <2>5. CASE ~(to <= top)
    <3>1. ASSUME NEW h \in FromBlock..top PROVE d[h] \in {c[k] : k \in FromBlock..to}
      <4>1. h \in FromBlock..n - 1 \/ (h \in n..to /\ h <= top)
            BY <1>0, <2>0, <2>5
      <4>2. h \in FromBlock..to
            BY <1>0, <2>0, <2>5
      <4>3. c[h] = d[h]
            BY <2>1, <2>3, <4>1
      <4>. QED  BY <4>2, <4>3
    <3>2. \A h \in n..to : h \in FromBlock..to
          BY <1>0
    <3>3. rows' \subseteq {c[k] : k \in FromBlock..to}
          BY <1>2, <3>1, <3>2
    <3>4. \A h \in FromBlock..to : h \in FromBlock..n - 1 \/ h \in n..to
          BY <1>0
    <3>5. {c[k] : k \in FromBlock..to} \subseteq rows'
          BY <3>4
    <3>6. to \in FromBlock..ToBlock
          BY <1>0
    <3>7. rows' = {c[k] : k \in FromBlock..to}
          BY <3>3, <3>5
    <3>. QED  BY <3>6, <3>7 DEF RowsOneChain
  <2>. QED  BY <2>4, <2>5
<1>. QED  BY <1>1, <1>2 DEF RowsOneChain

\* The transaction of a range.
LEMMA RangeCommitted ==
    ASSUME BackfillInv, DrainCommit
    PROVE  BackfillInv'
<1>1. PICK r \in Ready :
        /\ Follows(r) /\ WriterTakes(r)
        /\ rows' = rows \cup {r.blocks[h] : h \in Heights(r)}
        /\ logged' = logged \cup r.logs
        /\ checkpoint' = r.blocks[r.to] /\ anchor' = r.blocks[r.to]
        /\ nextHeight' = r.to + 1 /\ pending' = pending \ {r}
      BY DEF DrainCommit
<1>2. /\ Running /\ pc = "drain" /\ pc' = "drain"
      /\ UNCHANGED <<chain, moves, faults, runs, captured, window, refused, reference>>
      /\ UNCHANGED <<span, queued, nextUnallocated, tasks, requests>>
      BY DEF DrainCommit, Running, window
<1>s. WindowShape /\ Window /\ TypeOK
      BY <1>2 DEF BackfillInv, Window
<1>3. /\ r \in Ranges /\ InRange(r) /\ r \in pending /\ r.from = nextHeight
      /\ \E c \in Chains : /\ \A h \in r.from..r.to : r.blocks[h] = c[h]
                           /\ \A h \in FromBlock..nextHeight - 1 : c[h] \in rows
      BY <1>1, <1>2, RangeContinues
<1>4. PICK c \in Chains : /\ \A h \in r.from..r.to : r.blocks[h] = c[h]
                          /\ \A h \in FromBlock..nextHeight - 1 : c[h] \in rows
      BY <1>3
<1>5. /\ r.from \in Nat /\ r.to \in Nat /\ FromBlock <= r.from /\ r.from <= r.to
      /\ r.to <= ToBlock /\ nextHeight \in Nat /\ FromBlock \in Nat /\ ToBlock \in Nat
      /\ r.logs \subseteq HasLogs
      BY <1>3, Numbers DEF InRange, Ranges
<1>6. rows' = rows \cup {c[h] : h \in nextHeight..r.to}
  <2>1. Heights(r) = nextHeight..r.to
        BY <1>3 DEF Heights
  <2>. QED  BY <1>1, <1>3, <1>4, <2>1
<1>7. r.blocks[r.to] = c[r.to] /\ c[r.to] \in Blocks
  <2>1. r.to \in r.from..r.to /\ r.to \in 0..ToBlock
        BY <1>5
  <2>. QED  BY <1>4, <2>1, ChainBlocks
<1>8. RowsOneChain'
  <2>1. nextHeight \in FromBlock..ToBlock /\ r.to \in nextHeight..ToBlock
        BY <1>3, <1>5
  <2>2. \A h \in nextHeight..r.to : rows \cap AtHeight(h) \subseteq {c[h]}
        BY <1>1, <1>3, <1>4 DEF WriterTakes, Heights
  <2>. QED  BY <1>4, <1>6, <2>1, <2>2, RowsGrow DEF BackfillInv
<1>9. CommittedIsChain'
  <2>1. nextHeight' - 1 = r.to
        BY <1>1, <1>5
  <2>2. ASSUME NEW h \in FromBlock..r.to PROVE c[h] \in rows'
    <3>1. h \in FromBlock..nextHeight - 1 \/ h \in nextHeight..r.to
          BY <1>5
    <3>. QED  BY <1>4, <1>6, <3>1
  <2>. QED  BY <1>1, <1>7, <2>1, <2>2 DEF CommittedIsChain
<1>10. TypeOK'
  <2>1. \A h \in nextHeight..r.to : h \in 0..ToBlock
        BY <1>5
  <2>2. rows' \subseteq Blocks
        BY <1>6, <1>s, <2>1, ChainBlocks DEF TypeOK
  <2>3. nextHeight' \in FromBlock..ToBlock + 1
        BY <1>1, <1>5
  <2>. QED  BY <1>1, <1>2, <1>5, <1>7, <1>s, <2>2, <2>3 DEF TypeOK
<1>11. WindowShape'
      BY <1>1, <1>2, <1>s DEF WindowShape
<1>12. ASSUME NEW x \in Ranges, InRange(x), Between(x), Disjoint(x, r)
       PROVE  nextHeight' <= x.from
      BY <1>1, <1>3, <1>5, <1>12 DEF Between, Disjoint, InRange, Ranges
<1>13. Bounded'
  <2>1. \A x, y : Disjoint(x, y) <=> Disjoint(y, x)
        BY DEF Disjoint
  <2>2. \A x \in tasks' \cup pending' : x \in Ranges /\ InRange(x) /\ Between(x) /\ Disjoint(x, r)
        BY <1>1, <1>2, <1>3, <1>s DEF WindowShape, Window, Bounded, Apart
  <2>3. ASSUME NEW i \in 1..Len(queued)
        PROVE  queued[i] \in Ranges /\ InRange(queued[i]) /\ Between(queued[i]) /\ Disjoint(queued[i], r)
        BY <1>3, <1>s DEF WindowShape, Window, Bounded, Apart
  <2>4. nextHeight' <= nextUnallocated'
    <3>1. nextUnallocated \in Nat
          BY <1>s, Numbers DEF TypeOK
    <3>2. r.to < nextUnallocated
          BY <1>3, <1>s DEF Window, Bounded, Between
    <3>. QED  BY <1>1, <1>2, <1>5, <3>1, <3>2
  <2>. QED  BY <1>2, <1>12, <2>2, <2>3, <2>4 DEF Bounded, Between
<1>14. Apart'
      BY <1>1, <1>2, <1>s DEF Window, Apart
<1>15. Covered'
  <2>1. ASSUME NEW h \in nextHeight'..nextUnallocated' - 1 PROVE InWindow(h)'
    <3>1. h \in nextHeight..nextUnallocated - 1 /\ h \notin Heights(r)
          BY <1>1, <1>2, <1>3, <1>5 DEF Heights
    <3>2. InWindow(h)
          BY <1>s, <3>1 DEF Window, Covered
    <3>. QED  BY <1>1, <1>2, <3>1, <3>2 DEF InWindow
  <2>. QED  BY <2>1 DEF Covered
<1>16. Fresh' /\ Complete' /\ ~refused'
      BY <1>2 DEF BackfillInv, Fresh, Complete
<1>. QED  BY <1>8, <1>9, <1>10, <1>11, <1>13, <1>14, <1>15, <1>16 DEF BackfillInv
-----------------------------------------------------------------------------
(* The rest of the command. *)

\* A step of the loop that changes nothing but where it stands.
LEMMA LoopTurns ==
    ASSUME BackfillInv, Running, pc' \in {"fill", "join", "drain"},
           UNCHANGED <<chain, moves, faults, runs, durable, captured, window, coordinator, reference>>
    PROVE  BackfillInv'
<1>. UNCHANGED <<chain, moves, faults, runs, rows, logged, checkpoint, captured, span, queued,
                 nextUnallocated, tasks, requests, nextHeight, anchor, pending, refused, reference>>
     BY DEF durable, window, coordinator
<1>1. TypeOK'
      BY DEF BackfillInv, TypeOK
<1>2. WindowShape'
      BY DEF BackfillInv, WindowShape
<1>3. Window'
      BY DEF BackfillInv, Window, Bounded, Between, Apart, Covered, InWindow
<1>. QED  BY <1>1, <1>2, <1>3, WindowOnly

\* Outside the loop and with the rows as they are.
LEMMA OutsideTheLoop ==
    ASSUME BackfillInv, pc' \in {"ready", "anchor", "failed"}, TypeOK', WindowShape', Fresh',
           UNCHANGED <<rows, refused>>
    PROVE  BackfillInv'
BY DEF BackfillInv, CommittedIsChain, RowsOneChain, Complete, Running

LEMMA Captured ==
    ASSUME BackfillInv, Capture
    PROVE  BackfillInv'
<1>1. /\ pc = "ready" /\ runs < MaxRuns /\ runs' = runs + 1 /\ pc' = "anchor"
      /\ captured' = chain[ToBlock]
      /\ UNCHANGED <<chain, moves, faults, rows, logged, checkpoint, span, queued,
                 nextUnallocated, tasks, requests, nextHeight, anchor, pending, refused, reference>>
      BY DEF Capture, durable, window, coordinator
<1>2. runs' \in 0..MaxRuns
      BY <1>1, Numbers DEF BackfillInv, TypeOK
<1>3. captured' \in Blocks
  <2>1. ToBlock \in 0..ToBlock
        BY Numbers
  <2>. QED  BY <1>1, <2>1, ChainBlocks DEF BackfillInv, TypeOK
<1>4. TypeOK'
      BY <1>1, <1>2, <1>3 DEF BackfillInv, TypeOK
<1>5. WindowShape' /\ Fresh'
      BY <1>1 DEF BackfillInv, WindowShape, Fresh
<1>. QED  BY <1>1, <1>4, <1>5, OutsideTheLoop

LEMMA Started ==
    ASSUME BackfillInv, Start
    PROVE  BackfillInv'
<1>1. /\ pc = "anchor" /\ pc' = "fill"
      /\ requests' = IF FromBlock = 0 THEN 0 ELSE 1
      /\ anchor' = IF FromBlock = 0 THEN None ELSE chain[FromBlock - 1]
      /\ UNCHANGED <<chain, moves, faults, runs, rows, logged, checkpoint, captured, span, queued,
                     nextUnallocated, tasks, nextHeight, pending, refused, reference>>
      BY DEF Start, durable
<1>2. /\ tasks = {} /\ pending = {} /\ queued = <<>>
      /\ nextHeight = FromBlock /\ nextUnallocated = FromBlock
      BY <1>1 DEF BackfillInv, Fresh
<1>3. requests' \in 0..MaxRequests
      BY <1>1, Numbers
<1>4. anchor' \in Blocks \cup {None}
  <2>1. FromBlock # 0 => FromBlock - 1 \in 0..ToBlock
        BY Numbers
  <2>. QED  BY <1>1, <2>1, ChainBlocks DEF BackfillInv, TypeOK
<1>5. TypeOK'
      BY <1>1, <1>3, <1>4 DEF BackfillInv, TypeOK
<1>6. WindowShape'
      BY <1>1 DEF BackfillInv, WindowShape
<1>7. Window'
  <2>1. FromBlock..FromBlock - 1 = {}
        BY Numbers
  <2>. QED  BY <1>1, <1>2, <2>1, Numbers DEF Window, Bounded, Apart, Covered
<1>8. CommittedIsChain' /\ RowsOneChain' /\ Complete' /\ Fresh' /\ ~refused'
      BY <1>1, <1>2, Numbers DEF BackfillInv, CommittedIsChain, RowsOneChain, Complete, Fresh
<1>. QED  BY <1>5, <1>6, <1>7, <1>8 DEF BackfillInv, Window

LEMMA StartGivesUp ==
    ASSUME BackfillInv, StartFails
    PROVE  BackfillInv'
<1>1. /\ pc = "anchor" /\ pc' = "failed" /\ faults < MaxFaults /\ faults' = faults + 1
      /\ UNCHANGED <<chain, moves, runs, rows, logged, checkpoint, captured, span, queued,
                 nextUnallocated, tasks, requests, nextHeight, anchor, pending, refused, reference>>
      BY DEF StartFails, durable, window, coordinator
<1>2. faults' \in 0..MaxFaults
      BY <1>1, Numbers DEF BackfillInv, TypeOK
<1>3. TypeOK' /\ WindowShape' /\ Fresh'
      BY <1>1, <1>2 DEF BackfillInv, TypeOK, WindowShape, Fresh
<1>. QED  BY <1>1, <1>3, OutsideTheLoop

LEMMA Finished ==
    ASSUME BackfillInv, Finish
    PROVE  BackfillInv'
<1>1. /\ pc = "join" /\ tasks = {} /\ reference' = <<>>
      /\ span' = IF pc' = "reference" THEN InitialSpan ELSE span
      /\ UNCHANGED <<chain, moves, faults, runs, rows, logged, checkpoint, captured, queued,
                 nextUnallocated, tasks, requests, nextHeight, anchor, pending, refused>>
      BY DEF Finish, durable, coordinator
<1>2. \/ ~Verified /\ pc' = "failed"
      \/ Verified /\ pc' \in {"reference", "done"}
      BY ReferenceAssumption DEF Finish
<1>3. TypeOK'
  <2>1. span' \in MinSpan..MaxSpan
        BY <1>1, Numbers DEF BackfillInv, TypeOK
  <2>2. <<>> \in Seq(Blocks) /\ Len(<<>>) <= ToBlock - FromBlock + 1
        BY Numbers
  <2>. QED  BY <1>1, <1>2, <2>1, <2>2 DEF BackfillInv, TypeOK
<1>4. WindowShape' /\ Fresh'
      BY <1>1, <1>2 DEF BackfillInv, WindowShape, Fresh
<1>5. CASE ~Verified /\ pc' = "failed"
      BY <1>1, <1>3, <1>4, <1>5, OutsideTheLoop
<1>6. CASE Verified /\ pc' \in {"reference", "done"}
  <2>1. nextHeight = ToBlock + 1 /\ nextHeight > FromBlock
        BY <1>6, Numbers DEF Verified, BackfillInv, TypeOK
  <2>2. \E c \in Chains : CommittedOn(c)
        BY <1>1, <2>1 DEF BackfillInv, CommittedIsChain, CommittedOn
  <2>3. ToIsHead => anchor = captured
        BY <1>6 DEF Verified
  <2>4. Complete'
        BY <1>1, <1>6, <2>1, <2>2, <2>3 DEF Complete, CommittedOn
  <2>5. CommittedIsChain' /\ RowsOneChain' /\ ~Running' /\ ~refused'
        BY <1>1, <1>6 DEF BackfillInv, CommittedIsChain, RowsOneChain, Running
  <2>. QED  BY <1>3, <1>4, <2>4, <2>5 DEF BackfillInv
<1>. QED  BY <1>2, <1>5, <1>6

\* The comparison with the reference reads only.
LEMMA ReferenceSteps ==
    ASSUME BackfillInv, ReadReference \/ ReferenceRetry \/ ReferenceFails \/ CompareReference
    PROVE  BackfillInv'
<1>1. /\ pc = "reference" /\ pc' \in {"reference", "done", "failed"}
      /\ UNCHANGED <<chain, moves, faults, runs, rows, logged, checkpoint, captured, queued,
                     nextUnallocated, tasks, nextHeight, anchor, pending, refused>>
      BY DEF ReadReference, ReferenceRetry, ReferenceFails, CompareReference, AsksReference,
             durable, window, coordinator
<1>2. requests' \in 0..MaxRequests
  <2>1. requests' = requests \/ (requests' = requests + 1 /\ requests + 1 <= MaxRequests)
    <3>1. CASE ReadReference \/ ReferenceRetry
          BY <3>1 DEF ReadReference, ReferenceRetry, Affords
    <3>2. CASE ReferenceFails \/ CompareReference
      <4>1. window' = window
            BY <3>2 DEF ReferenceFails, CompareReference
      <4>2. requests' = requests
            BY <4>1 DEF window
      <4>. QED  BY <4>2
    <3>. QED  BY <3>1, <3>2
  <2>. QED  BY <2>1, Numbers DEF BackfillInv, TypeOK
<1>3. span' \in MinSpan..MaxSpan
  <2>1. span \in MinSpan..MaxSpan
        BY DEF BackfillInv, TypeOK
  <2>2. span' = span \/ span' = Grow(span)
        BY DEF ReadReference, ReferenceRetry, ReferenceFails, CompareReference, window
  <2>. QED  BY <2>1, <2>2, SpanBounds
<1>4. reference' \in Seq(Blocks) /\ Len(reference') <= ToBlock - FromBlock + 1
  <2>1. reference \in Seq(Blocks) /\ Len(reference) <= ToBlock - FromBlock + 1
        BY DEF BackfillInv, TypeOK
  <2>2. CASE ReadReference
    <3>. DEFINE from == FromBlock + Len(reference)
                r == NextRange(from)
                n == Span(r)
    <3>1. from \in FromBlock..ToBlock
          BY <2>1, <2>2, Numbers DEF ReadReference, AsksReference, ReferenceNext
    <3>2. r \in Ranges /\ r.from = from /\ r.from <= r.to /\ r.to <= ToBlock
          BY <3>1, NextRangeFits DEF BackfillInv, TypeOK
    <3>3. PICK c \in Chains : reference' = reference \o [i \in 1..Span(r) |-> c[r.from + i - 1]]
          BY <2>2 DEF ReadReference, ReferenceNext
    <3>. DEFINE more == [i \in 1..n |-> c[r.from + i - 1]]
    <3>. HIDE DEF r
    <3>4. r.to \in Nat /\ from \in Nat /\ n \in Nat /\ n = r.to - from + 1
          BY <3>1, <3>2, Numbers DEF Ranges, Span
    <3>5. \A i \in 1..n : r.from + i - 1 \in 0..ToBlock
          BY <3>2, <3>4, Numbers
    <3>. HIDE DEF n
    <3>6. more \in [1..n -> Blocks]
          BY <3>5, ChainBlocks
    <3>8. reference' = reference \o more
          BY <3>3 DEF n
    <3>. HIDE DEF more
    <3>7. more \in Seq(Blocks) /\ Len(more) = n
          BY <3>4, <3>6
    <3>9. reference' \in Seq(Blocks) /\ Len(reference') = Len(reference) + n
          BY <2>1, <3>7, <3>8
    <3>. QED  BY <2>1, <3>2, <3>4, <3>9, Numbers
  <2>3. CASE reference' = reference
        BY <2>1, <2>3
  <2>. QED  BY <2>2, <2>3 DEF ReferenceRetry, ReferenceFails, CompareReference
<1>5. TypeOK'
      BY <1>1, <1>2, <1>3, <1>4 DEF BackfillInv, TypeOK
<1>6. WindowShape' /\ Fresh'
      BY <1>1 DEF BackfillInv, WindowShape, Fresh
<1>7. Complete'
  <2>1. /\ nextHeight = ToBlock + 1
        /\ \E c \in Chains : CommittedOn(c)
        /\ ToIsHead => anchor = captured
        BY <1>1 DEF BackfillInv, Complete
  <2>2. ASSUME pc' = "done", NEW i \in DOMAIN reference', reference'[i] \in rows \cap HasLogs
        PROVE  reference'[i] \in logged
    <3>1. CompareReference
          BY <1>1, <2>2 DEF ReadReference, ReferenceRetry, ReferenceFails
    <3>2. ReferenceMatches /\ reference' = reference
          BY <2>2, <3>1 DEF CompareReference
    <3>3. reference[i] \in ReferenceRecords
          BY <2>2, <3>2 DEF ReferenceRecords
    <3>. QED  BY <3>2, <3>3 DEF ReferenceMatches, DatabaseRecords
  <2>. QED  BY <1>1, <2>1, <2>2 DEF Complete, CommittedOn
<1>8. CommittedIsChain' /\ RowsOneChain' /\ ~Running' /\ ~refused'
      BY <1>1 DEF BackfillInv, CommittedIsChain, RowsOneChain, Running
<1>. QED  BY <1>5, <1>6, <1>7, <1>8 DEF BackfillInv

LEMMA RunAgain ==
    ASSUME BackfillInv, Again
    PROVE  BackfillInv'
<1>1. /\ pc \in {"done", "failed"} /\ pc' = "ready" /\ captured' = None /\ span' = InitialSpan
      /\ queued' = <<>> /\ nextUnallocated' = FromBlock /\ requests' = 0 /\ nextHeight' = FromBlock
      /\ anchor' = None /\ pending' = {} /\ reference' = <<>>
      /\ UNCHANGED <<chain, moves, faults, runs, rows, logged, checkpoint, tasks, refused>>
      BY DEF Again, durable
<1>2. tasks = {}
      BY <1>1 DEF BackfillInv, Fresh
<1>3. TypeOK'
  <2>1. /\ <<>> \in Seq(Blocks) /\ Len(<<>>) <= ToBlock - FromBlock + 1
        /\ InitialSpan \in MinSpan..MaxSpan /\ FromBlock \in FromBlock..ToBlock + 1
        /\ 0 \in 0..MaxRequests
        BY Numbers
  <2>. QED  BY <1>1, <2>1 DEF BackfillInv, TypeOK
<1>4. WindowShape' /\ Fresh'
      BY <1>1, <1>2 DEF BackfillInv, WindowShape, Fresh
<1>. QED  BY <1>1, <1>3, <1>4, OutsideTheLoop

LEMMA ProviderMoves ==
    ASSUME BackfillInv, moves' \in 0..MaxMoves, chain' \in Chains,
           UNCHANGED <<faults, runs, durable, pc, captured, window, coordinator, reference>>
    PROVE  BackfillInv'
<1>. UNCHANGED <<faults, runs, rows, logged, checkpoint, pc, captured, span, queued,
                 nextUnallocated, tasks, requests, nextHeight, anchor, pending, refused, reference>>
     BY DEF durable, window, coordinator
<1>1. TypeOK' /\ WindowShape' /\ Fresh'
      BY DEF BackfillInv, TypeOK, WindowShape, Fresh
<1>2. Running => Running /\ Bounded' /\ Apart' /\ Covered'
      BY DEF BackfillInv, Bounded, Between, Apart, Covered, InWindow
<1>3. CommittedIsChain' /\ RowsOneChain' /\ Complete' /\ (Running' <=> Running)
      BY DEF BackfillInv, CommittedIsChain, RowsOneChain, Complete, CommittedOn, Running
<1>. QED  BY <1>1, <1>2, <1>3 DEF BackfillInv

LEMMA BackfillBegins ==
    Init => BackfillInv
<1>. SUFFICES ASSUME Init PROVE BackfillInv
     OBVIOUS
<1>1. IsFiniteSet({}) /\ Cardinality({}) = 0
      BY FS_EmptySet
<1>2. TypeOK
  <2>1. /\ <<>> \in Seq(Blocks) /\ Len(<<>>) <= ToBlock - FromBlock + 1
        /\ InitialSpan \in MinSpan..MaxSpan /\ FromBlock \in FromBlock..ToBlock + 1
        /\ 0 \in 0..MaxRequests /\ 0 \in 0..MaxMoves /\ 0 \in 0..MaxFaults /\ 0 \in 0..MaxRuns
        /\ 0 <= Workers
        BY Numbers
  <2>. QED  BY <1>1, <2>1 DEF Init, TypeOK
<1>3. WindowShape
      BY <1>1 DEF Init, WindowShape
<1>4. Fresh /\ ~refused /\ ~Running /\ CommittedIsChain /\ RowsOneChain /\ Complete
      BY DEF Init, Fresh, Running, CommittedIsChain, RowsOneChain, Complete
<1>. QED  BY <1>2, <1>3, <1>4 DEF BackfillInv

LEMMA BackfillStep ==
    BackfillInv /\ [Next]_vars => BackfillInv'
<1>. SUFFICES ASSUME BackfillInv, [Next]_vars PROVE BackfillInv'
     OBVIOUS
<1>f. /\ faults \in 0..MaxFaults /\ (faults < MaxFaults => faults + 1 \in 0..MaxFaults)
      /\ ~refused /\ refused \in BOOLEAN
      BY Numbers DEF BackfillInv, TypeOK
<1>1. CASE Capture \/ Start \/ StartFails
      BY <1>1, Captured, Started, StartGivesUp
<1>2. CASE FillQueued \/ FillNext
      BY <1>2, QueuedHandedOut, NextHandedOut
<1>3. CASE FillDone \/ DrainDone
      BY <1>3, LoopTurns DEF FillDone, DrainDone, Running
<1>4. ASSUME NEW t \in tasks, TaskStep(t) \/ JoinError(t) \/ JoinLimited(t) \/ JoinFetched(t) \/ FetchFails(t)
      PROVE  BackfillInv'
  <2>1. CASE JoinError(t)
        BY <1>f, <2>1, Aborted DEF JoinError
  <2>. QED  BY <1>4, <2>1, TaskSteps, LimitedSplit, FetchedBuffered, FetchGivesUp
<1>5. CASE DrainCommit \/ DrainInvalidated
      BY <1>5, RangeCommitted, SuffixRequeued
<1>6. CASE DrainConflict
      BY <1>6, <1>f, Aborted DEF DrainConflict
<1>7. CASE Finish
      BY <1>7, Finished
<1>8. CASE ReadReference \/ ReferenceRetry \/ ReferenceFails \/ CompareReference
      BY <1>8, ReferenceSteps
<1>9. CASE Die
      BY <1>9, <1>f, Aborted DEF Die
<1>10. CASE Again
      BY <1>10, RunAgain
<1>11. CASE Move
  <2>1. moves' \in 0..MaxMoves /\ chain' \in Chains
        BY <1>11, Numbers DEF Move, BackfillInv, TypeOK
  <2>. QED  BY <1>11, <2>1, ProviderMoves DEF Move
<1>12. CASE UNCHANGED vars
  <2>1. moves' \in 0..MaxMoves /\ chain' \in Chains
        BY <1>12 DEF vars, BackfillInv, TypeOK
  <2>. QED  BY <1>12, <2>1, ProviderMoves DEF vars
<1>. QED  BY <1>1, <1>2, <1>3, <1>4, <1>5, <1>6, <1>7, <1>8, <1>9, <1>10, <1>11, <1>12
          DEF Next, Step

LEMMA BackfillSafe == Spec => []BackfillInv
BY BackfillBegins, BackfillStep, PTL DEF Spec
-----------------------------------------------------------------------------
(* The results. *)

\* Every variable keeps its type; the span its bounds, the window its size, the
\* budget its limit.
THEOREM BackfillTypeCorrect == Spec => []TypeOK
<1>1. BackfillInv => TypeOK
      BY DEF BackfillInv
<1>. QED  BY <1>1, BackfillSafe, PTL

\* A height of the range is in exactly one place while the loop runs, so
\* insert_pending never refuses a range.
THEOREM EveryHeightHandledOnce == Spec => []EveryHeightOnce
<1>1. BackfillInv => EveryHeightOnce
  <2>. SUFFICES ASSUME BackfillInv PROVE EveryHeightOnce
       OBVIOUS
  <2>1. ASSUME Running, NEW h \in FromBlock..ToBlock PROVE Places(h) = 1
    <3>. DEFINE P == {r \in pending : h \in Heights(r)}
                T == {r \in tasks : h \in Heights(r)}
                Q == {i \in 1..Len(queued) : h \in Heights(queued[i])}
    <3>s. WindowShape /\ Window /\ TypeOK
          BY <2>1 DEF BackfillInv, Window
    <3>n. h \in Nat /\ nextHeight \in Nat /\ nextUnallocated \in Nat /\ nextHeight <= nextUnallocated
          BY <3>s, Numbers DEF TypeOK, Window, Bounded
    <3>b. /\ \A r \in tasks \cup pending : r.from \in Nat /\ r.to \in Nat /\ Between(r)
          /\ \A i \in 1..Len(queued) : /\ queued[i].from \in Nat /\ queued[i].to \in Nat
                                       /\ Between(queued[i])
      <4>1. \A i \in 1..Len(queued) : queued[i] \in Ranges
            BY <3>s DEF WindowShape
      <4>. QED  BY <3>s, <4>1 DEF WindowShape, Window, Bounded, Ranges
    <3>d. ASSUME NEW r, NEW s,
                 r.from \in Nat, r.to \in Nat, s.from \in Nat, s.to \in Nat,
                 h \in Heights(r), h \in Heights(s)
          PROVE  ~Disjoint(r, s)
      <4>1. r.from <= h /\ h <= r.to /\ s.from <= h /\ h <= s.to
            BY <3>d DEF Heights
      <4>2. ~(r.to < s.from) /\ ~(s.to < r.from)
            BY <3>n, <3>d, <4>1
      <4>. QED  BY <4>2 DEF Disjoint
    <3>c. \A r : /\ r.from \in Nat /\ r.to \in Nat /\ h \in Heights(r) /\ Between(r)
                 => nextHeight <= h /\ h < nextUnallocated
          BY <3>n DEF Heights, Between
    <3>1. /\ Cardinality({}) = 0
          /\ \A x : Cardinality({x}) = 1
          BY FS_EmptySet, FS_Singleton
    <3>2. /\ \A r, s \in P : r = s
          /\ \A r, s \in T : r = s
          /\ \A i, j \in Q : i = j
          BY <3>s, <3>b, <3>d DEF Window, Apart
    <3>3. /\ P # {} => T = {} /\ Q = {}
          /\ T # {} => P = {} /\ Q = {}
          BY <3>s, <3>b, <3>d DEF Window, Apart
    <3>4. P # {} \/ T # {} \/ Q # {} => nextHeight <= h /\ h < nextUnallocated
          BY <3>b, <3>c
    <3>5. nextHeight <= h /\ h < nextUnallocated => P # {} \/ T # {} \/ Q # {}
      <4>1. ASSUME nextHeight <= h, h < nextUnallocated PROVE InWindow(h)
        <5>1. h \in nextHeight..nextUnallocated - 1
              BY <3>n, <4>1
        <5>. QED  BY <3>s, <5>1 DEF Window, Covered
      <4>. QED  BY <4>1 DEF InWindow
    <3>6. /\ Cardinality(P) = IF P = {} THEN 0 ELSE 1
          /\ Cardinality(T) = IF T = {} THEN 0 ELSE 1
          /\ Cardinality(Q) = IF Q = {} THEN 0 ELSE 1
      <4>1. ASSUME NEW S, S # {}, \A x, y \in S : x = y PROVE Cardinality(S) = 1
        <5>1. PICK x \in S : TRUE
              BY <4>1
        <5>2. S = {x}
              BY <4>1
        <5>. QED  BY <3>1, <5>2
      <4>. HIDE DEF P, T, Q
      <4>. QED  BY <3>1, <3>2, <4>1
    <3>7. Places(h) = (IF h < nextHeight THEN 1 ELSE 0) + Cardinality(P) + Cardinality(T)
                      + Cardinality(Q) + (IF h >= nextUnallocated THEN 1 ELSE 0)
          BY DEF Places, Holds
    <3>. HIDE DEF P, T, Q
    <3>8. CASE h < nextHeight
          BY <3>n, <3>4, <3>6, <3>7, <3>8
    <3>9. CASE h >= nextUnallocated
          BY <3>n, <3>4, <3>6, <3>7, <3>9
    <3>10. CASE nextHeight <= h /\ h < nextUnallocated
          BY <3>n, <3>3, <3>5, <3>6, <3>7, <3>10
    <3>. QED  BY <3>n, <3>8, <3>9, <3>10
  <2>. QED  BY <2>1 DEF BackfillInv, EveryHeightOnce, Running
<1>. QED  BY <1>1, BackfillSafe, PTL

\* What a run commits is one chain from the anchor to next_height - 1, in whatever
\* order the fetches end and however often the provider moves.
THEOREM CommitsAreChain == Spec => []CommittedIsChain
<1>1. BackfillInv => CommittedIsChain
      BY DEF BackfillInv
<1>. QED  BY <1>1, BackfillSafe, PTL

\* All runs together, on whatever branches, leave one chain.
THEOREM RowsAreOneChain == Spec => []RowsOneChain
<1>1. BackfillInv => RowsOneChain
      BY DEF BackfillInv
<1>. QED  BY <1>1, BackfillSafe, PTL

\* Success means complete: rows, checkpoint, captured head and verified logs.
THEOREM SuccessIsComplete == Spec => []DoneIsComplete
<1>1. BackfillInv => DoneIsComplete
  <2>. SUFFICES ASSUME BackfillInv, pc = "done"
                PROVE  \E c \in Chains :
                           /\ \A h \in FromBlock..ToBlock : c[h] \in rows
                           /\ checkpoint = c[ToBlock]
                           /\ ToIsHead => c[ToBlock] = captured
                           /\ \A i \in DOMAIN reference :
                                  reference[i] \in rows \cap HasLogs => reference[i] \in logged
       BY DEF DoneIsComplete
  <2>1. /\ nextHeight = ToBlock + 1 /\ nextHeight - 1 = ToBlock
        /\ \E c \in Chains : CommittedOn(c)
        /\ ToIsHead => anchor = captured
        /\ \A i \in DOMAIN reference :
               reference[i] \in rows \cap HasLogs => reference[i] \in logged
        BY Numbers DEF BackfillInv, Complete
  <2>. QED  BY <2>1 DEF CommittedOn
<1>. QED  BY <1>1, BackfillSafe, PTL
=============================================================================
