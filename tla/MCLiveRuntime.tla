---------------------------- MODULE MCLiveRuntime ----------------------------
(* One head beyond the checkpoint, which may appear at any moment and on      *)
(* another branch, and two failures: enough for one on either side of a       *)
(* reconciliation, for both checkpoint reads of one, and for a connection     *)
(* lost while the process stops for another reason.                           *)
EXTENDS LiveRuntime, TLC
=============================================================================
