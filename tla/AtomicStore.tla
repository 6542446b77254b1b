----------------------------- MODULE AtomicStore -----------------------------
(***************************************************************************)
(* What apply_batch promises its callers: a batch takes effect in one      *)
(* indivisible step or not at all.  The effect is defined on the batch as  *)
(* a whole, not statement by statement.                                    *)
(***************************************************************************)
EXTENDS Naturals, Sequences

CONSTANTS Blocks, Height, None, Batches

VARIABLES rows, outbox, checkpoint

vars == <<rows, outbox, checkpoint>>

Init ==
    /\ rows = [b \in Blocks |-> "absent"]
    /\ outbox = <<>>
    /\ checkpoint = None

After(kind) == IF kind = "apply" THEN "canonical" ELSE "orphaned"

LastOf(S) == CHOOSE i \in S : \A j \in S : j <= i

\* The events of the batch before the i-th that are about block x.
Earlier(b, x, i) == {j \in 1..i - 1 : b.events[j].block = x}

\* The state of block x before event i of the batch, applied to a table.
StateBefore(table, b, x, i) ==
    IF Earlier(b, x, i) = {} THEN table[x]
    ELSE After(b.events[LastOf(Earlier(b, x, i))].kind)

\* Event i really changes a row.  A rollback of an orphaned block and an apply of
\* a canonical one are silent.
Flips(table, b, i) ==
    StateBefore(table, b, b.events[i].block, i) # After(b.events[i].kind)

Changes(table, b, n) == {i \in 1..n : Flips(table, b, i)}

\* f lists a set of event indices in ascending order.
Lists(f, S) ==
    /\ \A i, j \in DOMAIN f : i < j => f[i] < f[j]
    /\ {f[i] : i \in DOMAIN f} = S

\* A journal is continued by those of the first n events that change a row, in order.
Continued(table, b, n, before, after) ==
    \E m \in 0..n : \E f \in [1..m -> 1..n] :
        /\ Lists(f, Changes(table, b, n))
        /\ after = before \o [k \in 1..m |-> b.events[f[k]]]

Outcome(table, b) == [x \in Blocks |-> StateBefore(table, b, x, Len(b.events) + 1)]

\* Where the checkpoint ends up: the last block applied, or the common ancestor
\* when the batch ends with a rollback.
FinalTarget(b) ==
    LET last == b.events[Len(b.events)] IN
    IF last.kind = "apply" THEN last.block ELSE b.ancestor

Apply(b) ==
    /\ b.events # <<>>
    /\ \A i \in 1..Len(b.events) :
        b.events[i].kind = "rollback" => StateBefore(rows, b, b.events[i].block, i) # "absent"
    /\ rows' = Outcome(rows, b)
    /\ Continued(rows, b, Len(b.events), outbox, outbox')
    /\ checkpoint' = FinalTarget(b)
    /\ rows'[checkpoint'] = "canonical"
    /\ \A x, y \in Blocks :
        rows'[x] = "canonical" /\ rows'[y] = "canonical" /\ Height[x] = Height[y]
            => x = y

Next == \E b \in Batches : Apply(b)

Spec == Init /\ [][Next]_vars
=============================================================================
