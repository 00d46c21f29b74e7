------------------------------- MODULE MCFeed -------------------------------
(* Two timeframes of four and three ticks, a tick of grace and of minimum    *)
(* caching, scans that reach the symbol up to two ticks late.                *)
EXTENDS Feed

MCBar == [f \in Frames |-> IF f = "H1" THEN 4 ELSE 3]
=============================================================================
