------------------------- MODULE MCOutboxDispatcher -------------------------
(* Two chains, two dispatchers running at once, two events, of one chain or  *)
(* of both, and three faults.                                                *)
EXTENDS OutboxDispatcher, TLC

CONSTANTS c1, c2, d1, d2

MCChains == {c1, c2}
MCDispatchers == {d1, d2}
=============================================================================
