------------------------- MODULE MCSerializedWriter -------------------------
(* Two different batches, submitted up to five times in all, through a queue *)
(* of two: the queue fills, and the same batch may be submitted twice.       *)
EXTENDS SerializedWriter, TLC

CONSTANTS x, y

MCBatch == {x, y}
=============================================================================
