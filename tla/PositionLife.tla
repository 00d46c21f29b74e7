--------------------------- MODULE PositionLife ---------------------------
(***************************************************************************)
(* What the rest of the bot may rely on for one position, whatever broker  *)
(* keeps it: it is opened once; its stop, from the moment it has one, is   *)
(* never taken away and never worse than the one it was sized with; its    *)
(* size only shrinks; and once closed it stays closed.                     *)
(***************************************************************************)
EXTENDS Integers

CONSTANTS Level,   \* stop levels, written so that larger is safer
          Size,    \* position sizes
          None     \* no stop

VARIABLES status, stop, planned, size

life == <<status, stop, planned, size>>

Init == status = "none" /\ stop \in Level /\ planned \in Level /\ size \in Size

Open ==
    /\ status = "none"
    /\ status' = "OPEN"
    /\ planned' \in Level
    /\ stop' \in {planned', None}
    /\ size' \in Size

Protect ==
    /\ status # "none"
    /\ stop' \in Level
    /\ stop' >= planned
    /\ UNCHANGED <<status, planned, size>>

Shrink ==
    /\ status # "none"
    /\ size' \in Size
    /\ size' < size
    /\ UNCHANGED <<status, stop, planned>>

Close ==
    /\ status = "OPEN"
    /\ status' = "CLOSED"
    /\ UNCHANGED <<stop, planned, size>>

Next == Open \/ Protect \/ Shrink \/ Close

Spec == Init /\ [][Next]_life

=============================================================================
