---------------------------- MODULE BatchJournal ----------------------------
(***************************************************************************)
(* What a serialized writer promises: accepted batches are applied one at  *)
(* a time, in the order of acceptance, none left out; it stops either with *)
(* everything applied or because one batch failed, and takes nothing then. *)
(***************************************************************************)
EXTENDS Naturals, Sequences

CONSTANT Batch

VARIABLES
    accepted,           \* batches whose submission succeeded, in order
    applied,            \* batches applied, in order
    outcome             \* open, drained or failed

journalVars == <<accepted, applied, outcome>>

Init ==
    /\ accepted = <<>>
    /\ applied = <<>>
    /\ outcome = "open"

Accept(b) ==
    /\ outcome = "open"
    /\ accepted' = Append(accepted, b)
    /\ UNCHANGED <<applied, outcome>>

HasNext == outcome = "open" /\ Len(applied) < Len(accepted)
WithNext == Append(applied, accepted[Len(applied) + 1])

ApplyNext ==
    /\ HasNext
    /\ applied' = WithNext
    /\ UNCHANGED <<accepted, outcome>>

Drained ==
    /\ outcome = "open"
    /\ applied = accepted
    /\ outcome' = "drained"
    /\ UNCHANGED <<accepted, applied>>

\* The next batch fails, or fails after its COMMIT went through.
Failed ==
    /\ HasNext
    /\ applied' \in {applied, WithNext}
    /\ outcome' = "failed"
    /\ UNCHANGED accepted

Next ==
    \/ \E b \in Batch : Accept(b)
    \/ ApplyNext \/ Drained \/ Failed

Spec == Init /\ [][Next]_journalVars
=============================================================================
