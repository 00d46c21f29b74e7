------------------------------- MODULE MCDesk -------------------------------
(* One position between a stop and a target, a poll thread and one more thread *)
(* that reads the positions.  Prices are in fractions of the planned risk, so   *)
(* that the levels computed from it are integers; the break-even buffer of a    *)
(* risk measured from a stop already moved, below 20 units, is rounded down.    *)
EXTENDS Desk

Levels == [BUY  |-> [bid |-> 160, stop |-> 80, target |-> 500],
           SELL |-> [bid |-> 160, stop |-> 230, target |-> 85]]

\* The same with the stop of a sale out of the way of the long's second R.
WideLevels == [Levels EXCEPT !.SELL.stop = 390]

=============================================================================
