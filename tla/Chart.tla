-------------------------------- MODULE Chart --------------------------------
(***************************************************************************)
(* What the SMC detectors (bot/smc) read off one candle series: average    *)
(* true range, swings, displacement, breaks of structure, fair value gaps, *)
(* order blocks, the liquidity map, sweeps, the regime, the dealing range  *)
(* and the bias.                                                           *)
(*                                                                         *)
(* A chart is a sequence of closed candles; an object found on it is named *)
(* by the position of its candle, counted from 1.  Prices are whole        *)
(* numbers of a unit fine enough for every average and ATR fraction below  *)
(* to be exact; a quality, a weight or a ratio is a whole number of        *)
(* ten-thousandths, rounded down.                                          *)
(***************************************************************************)
EXTENDS Integers, Sequences, FiniteSetsExt, TLC

CONSTANTS SwingWindow,      \* candles on each side a pivot dominates
          AtrPeriod,        \* true ranges an ATR averages
          ReactionCandles,  \* candles after a sweep that may confirm it
          DayOf,            \* the day a candle opens on, by position
          SessionsOf        \* the sessions a candle opens in, by position

ASSUME ChartAssumption ==
  /\ SwingWindow \in Nat \ {0}
  /\ AtrPeriod \in Nat \ {0}
  /\ ReactionCandles \in Nat

One == 10000
None == 0

Percent(p, x) == (p * x) \div 100
Ratio(a, b) == IF b = 0 THEN 0 ELSE (One * a) \div b
Capped(x) == Max({0, Min({One, x})})
Sum(f(_), S) == MapThenSumSet(f, S)

\* The latest element of a set of positions, or None; and its latest k.
Latest(S) == IF S = {} THEN None ELSE Max(S)
LastOf(S, k) == {i \in S : Cardinality({j \in S : j > i}) < k}

Opposite(d) == IF d = "bullish" THEN "bearish" ELSE "bullish"

(***************************************************************************)
(* Candles (marketdata/candles.py) and the ATR (smc/indicators.py)         *)
(***************************************************************************)
ValidCandle(c) ==
  /\ Min({c.open, c.high, c.low, c.close}) > 0
  /\ c.low <= Min({c.open, c.close}) /\ Max({c.open, c.close}) <= c.high

Abs(x) == IF x < 0 THEN -x ELSE x
Body(c) == Abs(c.close - c.open)
Span(c) == c.high - c.low

Direction(c) == CASE c.close > c.open -> "bullish"
                  [] c.close < c.open -> "bearish"
                  [] OTHER -> "neutral"

TrueRange(cs, i) ==
  IF i = 1 THEN Span(cs[1])
  ELSE Max({Span(cs[i]), Abs(cs[i].high - cs[i-1].close),
            Abs(cs[i].low - cs[i-1].close)})

Atr(cs, i) ==
  LET from == Max({1, i - AtrPeriod + 1})
      TR(j) == TrueRange(cs, j)
  IN  Sum(TR, from..i) \div (i - from + 1)

\* The element of a non-empty sequence of values at a fraction p/100 of its
\* sorted order, the position rounded half to even as Python's round does.
Percentile(s, p) ==
  LET ordered == SortSeq(s, <)
      num == p * (Len(s) - 1)
      half == (num % 100) * 2
      at == num \div 100
      up == half > 100 \/ (half = 100 /\ at % 2 = 1)
  IN  ordered[1 + at + (IF up THEN 1 ELSE 0)]

(***************************************************************************)
(* Swings (smc/swings.py): a pivot strictly beyond its neighbours, which   *)
(* can be known SwingWindow candles after it and not before.               *)
(***************************************************************************)
Around(i) == ((i - SwingWindow)..(i + SwingWindow)) \ {i}
Inner(cs) == (SwingWindow + 1)..(Len(cs) - SwingWindow)

SwingHighs(cs) ==
  {i \in Inner(cs) : \A j \in Around(i) : cs[i].high > cs[j].high}
SwingLows(cs) ==
  {i \in Inner(cs) : \A j \in Around(i) : cs[i].low < cs[j].low}

\* Mutant: a pivot is used from its own candle on.
KnownAtOnce(points, at) == {i \in points : i <= at}

Known(points, at) == {i \in points : i + SwingWindow <= at}

\* Trend of the two latest highs and the two latest lows.
SwingBias(cs, highs, lows) ==
  LET h == Latest(highs)   g == Latest(highs \ {h})
      l == Latest(lows)    k == Latest(lows \ {l})
      up == \/ g # None /\ cs[h].high > cs[g].high
            \/ k # None /\ cs[l].low > cs[k].low
      down == \/ g # None /\ cs[h].high < cs[g].high
              \/ k # None /\ cs[l].low < cs[k].low
  IN  CASE up /\ ~down -> "bullish"
        [] down /\ ~up -> "bearish"
        [] OTHER -> "range"

\* A pivot that a sweep made is liquidity taken, not structure.
WithoutSwept(points, swept) == IF points \subseteq swept THEN points
                               ELSE points \ swept

(***************************************************************************)
(* Displacement (smc/displacement.py)                                      *)
(***************************************************************************)
\* The imbalance a candle leaves: the two-candle form on the last candle,
\* the three-candle form once the next one has printed.
LeavesGap(cs, i) ==
  LET right == Min({i + 1, Len(cs)})
  IN  /\ i > 1
      /\ IF Direction(cs[i]) = "bullish"
           THEN cs[right].low > cs[i-1].high
           ELSE cs[right].high < cs[i-1].low

Displacements(cs) ==
  {i \in DOMAIN cs :
    LET c == cs[i]
        a == Atr(cs, i)
        net == c.close - cs[Max({1, i - 2})].open
    IN  /\ i > AtrPeriod \div 2
        /\ a > 0
        /\ 100 * Body(c) >= 130 * a
        /\ 100 * Body(c) >= 55 * (IF Span(c) = 0 THEN a ELSE Span(c))
        /\ \/ Direction(c) = "bullish" /\ net > 0
           \/ Direction(c) = "bearish" /\ net < 0}

DisplacementQuality(cs, i) ==
  LET c == cs[i]
      multiple == Ratio(10 * Body(c), 26 * Atr(cs, i))
      ratio == Ratio(Body(c), Span(c))
      firmness == (100 * (ratio - 5500)) \div 45
  IN  Capped(Percent(45, Capped(multiple)) + Percent(35, Capped(firmness))
             + (IF LeavesGap(cs, i) THEN 2000 ELSE 500))

(***************************************************************************)
(* Breaks of structure (smc/structure.py): one walk over the candles, that *)
(* carries the levels already broken and the prevailing direction.         *)
(***************************************************************************)
Break(cs, i, level, direction, trend, moves) ==
  LET move == Latest(moves \cap {i - 1, i})
      price == IF direction = "bullish" THEN cs[level].high ELSE cs[level].low
  IN  [index |-> i, direction |-> direction,
       type |-> IF trend = Opposite(direction) THEN "CHoCH" ELSE "BOS",
       level |-> level, price |-> price, displaced |-> move # None,
       quality |-> IF move = None THEN 0 ELSE DisplacementQuality(cs, move),
       clearance |-> Ratio(Abs(cs[i].close - price), Atr(cs, i))]

\* What candle i adds to the walk w: the levels known by then and not broken
\* yet are tested, the high first.
WalkOn(cs, moves, w, i) ==
  LET a == Atr(cs, i)
      buffer == Percent(8, a)
      highs == Known(SwingHighs(cs), i)
      lows == Known(SwingLows(cs), i)
      trend == IF w.trend # "none" THEN w.trend
               ELSE LET b == SwingBias(cs, highs, lows)
                    IN  IF b = "range" THEN "none" ELSE b
      h == Latest({p \in highs : <<"high", p>> \notin w.broken})
      l == Latest({p \in lows : <<"low", p>> \notin w.broken})
      up == h # None /\ cs[i].close > cs[h].high + buffer
      down == l # None /\ cs[i].close < cs[l].low - buffer
  IN  CASE a <= 0 -> w
        [] a > 0 /\ up ->
             [events |-> w.events \cup {Break(cs, i, h, "bullish", trend, moves)},
              broken |-> w.broken \cup {<<"high", h>>}, trend |-> "bullish"]
        [] a > 0 /\ ~up /\ down ->
             [events |-> w.events \cup {Break(cs, i, l, "bearish", trend, moves)},
              broken |-> w.broken \cup {<<"low", l>>}, trend |-> "bearish"]
        [] OTHER -> [w EXCEPT !.trend = trend]

StructureEvents(cs, moves) ==
  LET Walk[i \in 0..Len(cs)] ==
        IF i = 0 THEN [events |-> {}, broken |-> {}, trend |-> "none"]
        ELSE WalkOn(cs, moves, Walk[i - 1], i)
  IN  Walk[Len(cs)].events

LatestOf(objects) == CHOOSE o \in objects : \A p \in objects : o.index >= p.index

\* The last break and the swing sequence without the pivots that sweeps made.
StructuralBias(cs, events, sweeps) ==
  LET n == Len(cs)
      sweptBy(d) == {s.index : s \in {t \in sweeps : t.direction = d}}
      sequence == SwingBias(cs,
                    Known(WithoutSwept(SwingHighs(cs), sweptBy("bearish")), n),
                    Known(WithoutSwept(SwingLows(cs), sweptBy("bullish")), n))
      last == LatestOf(events)
  IN  IF events # {} /\ n - last.index <= 30
        /\ (last.type = "CHoCH" \/ sequence \in {last.direction, "range"})
      THEN last.direction
      ELSE sequence

(***************************************************************************)
(* Zones an entry may use: fair value gaps (smc/fvg.py) and order blocks   *)
(* (smc/orderblocks.py).  Both die at the first candle that trades through *)
(* the far edge or closes beyond it.                                       *)
(***************************************************************************)
\* Mutant: only the newest candle is asked whether the zone is spent.
SpentNow(cs, zone, from) ==
  LET far(c) == IF zone.direction = "bullish" THEN c.low <= zone.lower
                                              ELSE c.high >= zone.upper
  IN  IF from < Len(cs) /\ far(cs[Len(cs)]) THEN Len(cs) ELSE None

\* The position at which the zone was mitigated or invalidated, or None.  A
\* close beyond the edge also trades through it.
Spent(cs, zone, from) ==
  LET far(c) == IF zone.direction = "bullish" THEN c.low <= zone.lower
                                              ELSE c.high >= zone.upper
      hits == {p \in (from + 1)..Len(cs) : far(cs[p])}
  IN  IF hits = {} THEN None ELSE Min(hits)

GapDirection(cs, i) == CASE cs[i].low > cs[i-2].high -> "bullish"
                         [] cs[i].high < cs[i-2].low -> "bearish"
                         [] OTHER -> "none"

FairValueGap(cs, moves, i) ==
  LET d == GapDirection(cs, i)
      lower == IF d = "bullish" THEN cs[i-2].high ELSE cs[i].high
      upper == IF d = "bullish" THEN cs[i].low ELSE cs[i-2].low
      move == IF i - 1 \in moves THEN i - 1 ELSE Latest(moves \cap {i})
      zone == [index |-> i, direction |-> d, lower |-> lower, upper |-> upper]
  IN  [kind |-> "FVG", index |-> i, direction |-> d,
       lower |-> lower, upper |-> upper, formed |-> i,
       displaced |-> move # None /\ Direction(cs[move]) = d,
       size |-> Ratio(upper - lower, Atr(cs, i)),
       spent |-> Spent(cs, zone, i)]

FairValueGaps(cs, moves) ==
  LET gaps == {FairValueGap(cs, moves, i) :
                 i \in {j \in 3..Len(cs) :
                          Atr(cs, j) > 0 /\ GapDirection(cs, j) # "none"}}
  IN  {g \in gaps : 100 * (g.upper - g.lower) >= 12 * Atr(cs, g.index)}

\* The last opposing candle before a displacement.
Origin(cs, move) ==
  Latest({p \in Max({1, move - 6})..(move - 1) :
            Direction(cs[p]) = Opposite(Direction(cs[move]))})

OrderBlock(cs, events, gaps, move) ==
  LET o == Origin(cs, move)
      d == Direction(cs[move])
      broke == \E e \in events : e.direction = d /\ e.index \in move..(move + 3)
      imbalance == \E g \in gaps : g.direction = d
                                   /\ g.index \in (move - 1)..(move + 2)
      zone == [index |-> o, direction |-> d,
               lower |-> cs[o].low, upper |-> cs[o].high]
      reach == Capped(Ratio(Span(cs[o]), Atr(cs, move)))
  IN  [kind |-> "ORDER_BLOCK", index |-> o, direction |-> d,
       lower |-> cs[o].low, upper |-> cs[o].high, formed |-> move,
       qualified |-> broke \/ imbalance \/ LeavesGap(cs, move),
       strength |-> Capped(Percent(45, DisplacementQuality(cs, move))
                           + (IF broke THEN 3000 ELSE 0)
                           + (IF imbalance THEN 1500 ELSE 0)
                           + Percent(10, reach)),
       spent |-> Spent(cs, zone, move)]

\* A candle is the origin of the first displacement it precedes, and of no
\* later one in that direction.
OrderBlocks(cs, moves, events, gaps) ==
  LET led == {m \in moves : Origin(cs, m) # None}
      first == {m \in led : \A k \in led :
                  (Origin(cs, k) = Origin(cs, m)
                   /\ Direction(cs[k]) = Direction(cs[m])) => m <= k}
  IN  {b \in {OrderBlock(cs, events, gaps, m) : m \in first} : b.qualified}

\* Mutant: a zone that has been traded through may still be used.
IsLiveTouched(zone, at, maxAge) ==
  zone.formed <= at /\ at - zone.index <= maxAge

IsLive(zone, at, maxAge) ==
  /\ zone.formed <= at
  /\ zone.spent = None \/ zone.spent > at
  /\ at - zone.index <= maxAge

(***************************************************************************)
(* The liquidity map and the sweeps of its levels (smc/liquidity.py, with  *)
(* the session levels of smc/sessions.py).                                 *)
(***************************************************************************)
Price(cs, side, i) == IF side = "buy" THEN cs[i].high ELSE cs[i].low

\* Levels in the order the map lists them: of several at one price, the
\* first listed is the one a sweep names.
Kinds == <<"EQUAL", "SWING", "PREVIOUS_DAY", "ASIAN", "LONDON", "NEW_YORK">>
Weights == <<10000, 6000, 9500, 8000, 8000, 8000>>

Level(price, side, rank, source, touches) ==
  [price |-> price, side |-> side, rank |-> rank, weight |-> Weights[rank],
   source |-> source, touches |-> touches]

\* Points chained together by price steps of at most the tolerance.
Cluster(cs, side, points, tolerance, i) ==
  LET P(j) == Price(cs, side, j)
      chained(a, b) == \A k \in points : (a <= P(k) /\ P(k) < b) =>
                         \E m \in points : P(m) > P(k) /\ P(m) <= P(k) + tolerance
  IN  {j \in points : chained(Min({P(i), P(j)}), Max({P(i), P(j)}))}

EqualLevels(cs, side, points) ==
  LET tolerance == Percent(12, Atr(cs, Len(cs)))
      P(j) == Price(cs, side, j)
      clusters == {c \in {Cluster(cs, side, points, tolerance, i) : i \in points} :
                     Cardinality(c) >= 2}
  IN  IF tolerance <= 0 THEN {}
      ELSE {Level(Sum(P, c) \div Cardinality(c), side, 1,
                  Max(c) + SwingWindow, Cardinality(c)) : c \in clusters}

SwingLevels(cs, side, points) ==
  {Level(Price(cs, side, i), side, 2, i + SwingWindow, 1) : i \in LastOf(points, 8)}

\* Candles of the previous day (one is enough) and of today's sessions (two
\* are needed), today being the day of the moment the last candle closes.
SessionMembers(cs, rank) ==
  LET today == DayOf[Len(cs) + 1]
  IN  IF rank = 3 THEN {i \in DOMAIN cs : DayOf[i] = today - 1}
      ELSE LET S == {i \in DOMAIN cs : /\ DayOf[i] = today
                                       /\ Kinds[rank] \in SessionsOf[i]}
           IN  IF Cardinality(S) >= 2 THEN S ELSE {}

SessionLevels(cs) ==
  LET rank(r) ==
        LET S == SessionMembers(cs, r)
            high == Max({cs[i].high : i \in S})
            low == Min({cs[i].low : i \in S})
            source == Min({i \in DOMAIN cs : cs[i].high <= high /\ cs[i].low >= low}
                          \cup {Len(cs)})
        IN  IF S = {} THEN {}
            ELSE {Level(high, "buy", r, source, 1), Level(low, "sell", r, source, 1)}
  IN  UNION {rank(r) : r \in 3..6}

LiquidityMap(cs) ==
  LET H == SwingHighs(cs)
      L == SwingLows(cs)
  IN  EqualLevels(cs, "buy", H) \cup EqualLevels(cs, "sell", L)
        \cup SwingLevels(cs, "buy", H) \cup SwingLevels(cs, "sell", L)
        \cup SessionLevels(cs)

\* The level a candle took: the farthest of those it traded through and
\* closed back inside of, and of these the first listed.
SweptLevel(cs, levels, i, side) ==
  LET c == cs[i]
      taken == {l \in levels :
                  /\ l.source <= i - 1 /\ l.side = side
                  /\ IF side = "sell" THEN c.low < l.price /\ l.price <= c.close
                                      ELSE c.high > l.price /\ l.price >= c.close}
      far == IF side = "sell" THEN Min({l.price : l \in taken})
                              ELSE Max({l.price : l \in taken})
      there == {l \in taken : l.price = far}
  IN  IF taken = {} THEN {}
      ELSE {CHOOSE l \in there : \A m \in there : l.rank <= m.rank}

\* Mutant: a sweep is confirmed by candles that have not printed.
ConfirmedLater(cs, i) == i + ReactionCandles

\* The end of the reaction to a sweep, or the last candle until it has printed.
ConfirmedAt(cs, i) == Min({Len(cs), i + ReactionCandles})

Sweep(cs, moves, events, i, level) ==
  LET c == cs[i]
      d == IF level.side = "sell" THEN "bullish" ELSE "bearish"
      end == ConfirmedAt(cs, i)
      excursion == IF level.side = "sell" THEN level.price - c.low
                                          ELSE c.high - level.price
      back == IF level.side = "sell" THEN c.close - c.low ELSE c.high - c.close
      pushes == {m \in moves \cap (i..end) : Direction(cs[m]) = d}
      shift == \E e \in events : e.direction = d /\ e.index \in i..end
      rejection == Ratio(back, Span(c))
  IN  [index |-> i, confirmed |-> end, direction |-> d, level |-> level,
       excursion |-> excursion, rejection |-> rejection,
       displaced |-> pushes # {}, shift |-> shift,
       quality |-> Capped(Percent(28, level.weight)
                     + Percent(22, Capped((100 * rejection) \div 85))
                     + Percent(14, Capped(Ratio(10 * excursion, 6 * Atr(cs, i))))
                     + Percent(22, Max({DisplacementQuality(cs, m) : m \in pushes}
                                       \cup {0}))
                     + (IF shift THEN 1400 ELSE 0))]

Sweeps(cs, levels, moves, events) ==
  {s \in UNION {{Sweep(cs, moves, events, i, l) :
                   l \in SweptLevel(cs, levels, i, "sell")
                           \cup SweptLevel(cs, levels, i, "buy")} :
                i \in {j \in DOMAIN cs : Atr(cs, j) > 0}} :
     /\ 100 * s.excursion >= 5 * Atr(cs, s.index)
     /\ s.rejection >= 4500}

(***************************************************************************)
(* Regime (smc/regime.py) and dealing range (smc/dealing_range.py)         *)
(***************************************************************************)
Regime(cs, events) ==
  LET n == Len(cs)
      from == Max({1, n - 59})
      history == [i \in 1..(n - from + 1) |-> Atr(cs, from + i - 1)]
      a == Atr(cs, n)
      median == Percentile(history, 50)
      high == Percentile(history, 75)
      low == Percentile(history, 25)
      extreme == \/ median > 0 /\ 10 * a >= 35 * median
                 \/ 10 * a >= Max({16 * Percentile(history, 95), 22 * high})
      volatility == IF a <= 0 THEN "normal"
                    ELSE IF extreme THEN "extreme"
                    ELSE IF 100 * a >= 105 * high THEN "expanded"
                    ELSE IF 100 * a <= 95 * low THEN "compressed" ELSE "normal"
      Path(i) == Span(cs[i])
      strength == Capped(Ratio(6 * Abs(cs[n].close - cs[from].open),
                               Sum(Path, from..n)))
      recent == {e \in events : e.index > n - 60}
      same == {e \in recent : e.direction = LatestOf(recent).direction}
      consistent == recent # {} /\ 10 * Cardinality(same) >= 6 * Cardinality(recent)
  IN  IF n < 10 THEN [trend |-> "ranging", volatility |-> "normal",
                      strength |-> 0, tradeable |-> FALSE]
      ELSE [trend |-> CASE strength >= 4500 /\ consistent -> "trending"
                        [] strength <= 2000 -> "ranging"
                        [] OTHER -> "transitional",
            volatility |-> volatility, strength |-> strength,
            tradeable |-> volatility # "extreme"]

\* Where price stands between the recent extremes, or -1 without a range.
DealingPosition(cs) ==
  LET n == Len(cs)
      highs == Known(SwingHighs(cs), n)
      lows == Known(SwingLows(cs), n)
      high == Max({cs[i].high : i \in LastOf(highs, 5)})
      low == Min({cs[i].low : i \in LastOf(lows, 5)})
  IN  IF highs = {} \/ lows = {} THEN -1
      ELSE IF high <= low THEN -1
      ELSE Capped(Ratio(cs[n].close - low, high - low))

(***************************************************************************)
(* SmcEngine.analyze_timeframe: everything above, for one series.          *)
(***************************************************************************)
Analyze(cs) ==
  LET moves == Displacements(cs)
      events == StructureEvents(cs, moves)
      gaps == FairValueGaps(cs, moves)
      levels == LiquidityMap(cs)
      sweeps == Sweeps(cs, levels, moves, events)
  IN  [moves |-> moves, events |-> events, gaps |-> gaps,
       blocks |-> OrderBlocks(cs, moves, events, gaps),
       levels |-> levels, sweeps |-> sweeps,
       regime |-> Regime(cs, events), position |-> DealingPosition(cs),
       bias |-> StructuralBias(cs, events, sweeps), atr |-> Atr(cs, Len(cs))]
=============================================================================
