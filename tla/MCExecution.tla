---------------------------- MODULE MCExecution ----------------------------
(* Small instances of Execution: two scans of one setup, and two setups that  *)
(* trade the same instrument.                                                 *)
EXTENDS Execution

CONSTANTS p1, p2, s1, s2, EUR, BUY, SELL

\* p1 and p2 are the same setup seen by two scans (two execution ids).
OneSetup == [p \in {p1, p2} |-> s1]

\* Two setups on one instrument.
TwoSetups == [p \in {p1, p2} |-> IF p = p1 THEN s1 ELSE s2]

\* One plan alone, for the temporal properties.
LoneSetup == [p \in {p1} |-> s1]

LoneSymbol == [p \in {p1} |-> EUR]

LoneBuy == [p \in {p1} |-> BUY]

OneSymbol == [p \in {p1, p2} |-> EUR]

BothBuy == [p \in {p1, p2} |-> BUY]

BuyAndSell == [p \in {p1, p2} |-> IF p = p1 THEN BUY ELSE SELL]

TwoIds == 1..2

ThreeIds == 1..3

=============================================================================
