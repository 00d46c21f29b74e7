----------------------------- MODULE MCStrategy -----------------------------
(***************************************************************************)
(* Five short histories, each the start of charts on which the engine      *)
(* reaches a different part of its decision, and every way the next        *)
(* candles may close.  Quarter-hour candles from 05:30: the first two      *)
(* hours are Asian, then London opens.                                     *)
(***************************************************************************)
EXTENDS Strategy

Tick == 1200

\* Open, high, low and close of a candle, in ticks.
Ohlc(t) == [open |-> t[1] * Tick, high |-> t[2] * Tick,
            low |-> t[3] * Tick, close |-> t[4] * Tick]
History(rows) == [i \in DOMAIN rows |-> Ohlc(rows[i])]

Rotation == History(<<
  <<16, 18, 15, 15>>, <<15, 17, 14, 14>>, <<14, 17, 14, 17>>, <<17, 19, 17, 18>>,
  <<18, 21, 16, 20>>, <<20, 20, 16, 19>>, <<19, 22, 19, 20>>, <<20, 23, 17, 21>>,
  <<21, 21, 20, 21>>, <<21, 22, 19, 22>>, <<22, 22, 22, 22>>>>)

Reversal == History(<<
  <<14, 17, 12, 17>>, <<17, 17, 13, 16>>, <<16, 16, 13, 14>>, <<14, 15, 14, 14>>,
  <<14, 17, 12, 15>>, <<15, 16, 13, 15>>, <<15, 18, 13, 17>>, <<17, 17, 12, 12>>,
  <<12, 12, 7, 9>>, <<9, 11, 7, 7>>, <<7, 7, 6, 6>>>>)

WideStop == History(<<
  <<13, 16, 10, 16>>, <<16, 18, 12, 13>>, <<13, 18, 11, 16>>, <<16, 16, 11, 11>>,
  <<11, 12, 6, 6>>, <<6, 11, 3, 9>>, <<9, 10, 8, 8>>, <<8, 14, 5, 13>>,
  <<13, 13, 9, 10>>, <<10, 11, 9, 9>>, <<9, 10, 9, 9>>>>)

TightStop == History(<<
  <<13, 13, 10, 10>>, <<10, 11, 5, 7>>, <<7, 7, 4, 4>>, <<4, 7, 3, 6>>,
  <<6, 9, 4, 9>>, <<9, 9, 8, 8>>, <<8, 14, 7, 13>>, <<13, 13, 10, 12>>,
  <<12, 19, 9, 17>>, <<17, 24, 14, 22>>, <<22, 22, 19, 19>>>>)

RunningSession == History(<<
  <<11, 14, 11, 12>>, <<12, 12, 11, 11>>, <<11, 11, 11, 11>>, <<11, 13, 7, 10>>,
  <<10, 10, 8, 9>>, <<9, 15, 8, 14>>, <<14, 15, 14, 14>>, <<14, 16, 14, 16>>,
  <<16, 18, 16, 18>>, <<18, 19, 16, 16>>, <<16, 16, 10, 11>>>>)

MCHistories == {Rotation, Reversal, WideStop, TightStop, RunningSession}

Shape(t) == [gap |-> t[1] * Tick, move |-> t[2] * Tick,
             above |-> t[3] * Tick, below |-> t[4] * Tick]

MCShapes ==
  {Shape(t) : t \in {<<0, 5, 0, 0>>, <<0, -5, 0, 0>>, <<0, 1, 1, 1>>,
                     <<0, -1, 1, 1>>, <<0, 1, 0, 4>>, <<0, -1, 4, 0>>,
                     <<2, 3, 0, 0>>, <<-2, -3, 0, 0>>}}

MCH1Readings ==
  [bias: {"bullish", "bearish", "range"}, choppy: BOOLEAN, position: {-1, 1000, 9000}]

MCSpreads == {0, 240}

Positions == 1..(MaxCandles + 1)
MCDayOf == [i \in Positions |-> 1]
MCSessionsOf ==
  [i \in Positions |-> (IF i <= 10 THEN {"ASIAN"} ELSE {})
                       \cup (IF i >= 7 THEN {"LONDON"} ELSE {})]
=============================================================================
