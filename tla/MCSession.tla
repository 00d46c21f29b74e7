----------------------------- MODULE MCSession ------------------------------
(* The scan and the position poll, and two shapes: the one the broker serves *)
(* may be the first or the second, and may change.                           *)
EXTENDS Session

CONSTANTS scan, poll

MCThreads == {scan, poll}
MCShapes == <<"documented", "quotes-history">>
=============================================================================
