------------------------------ MODULE Strategy ------------------------------
(***************************************************************************)
(* What one scan makes of a chart: the multi-timeframe decision            *)
(* (bot/smc/mtf.py), the candidate of the SMC engine (bot/smc/engine.py)   *)
(* or of the reversion mode (bot/strategy/reversion.py), its identity      *)
(* (bot/smc/identity.py) and its score (bot/scoring/scorer.py), scan after *)
(* scan as M15 candles close.                                              *)
(*                                                                         *)
(* The H1 series is read by the same detectors; only what the decision     *)
(* uses of it is an input here: its bias, whether it is choppy and where   *)
(* price stands in its dealing range (-1 without one).  The thresholds are *)
(* the defaults of bot/config.py.                                          *)
(***************************************************************************)
EXTENDS Chart

CONSTANTS Histories,    \* the charts the first scan may find
          Shapes,       \* the candles that may close next, seen from the
                        \* last close: [gap, move, above, below]
          MaxCandles,   \* bound on the length of the chart
          H1Readings,   \* what H1 may say: [bias, choppy, position]
          Spreads,      \* the spreads a quote may show; 0 is none read
          MaxAge,       \* candles a trigger stays usable
          MinTradeable  \* ScoringConfig.min_tradeable_score, in points

VARIABLES candles,      \* the closed M15 candles, oldest first
          analysis      \* what the last scan read off them

vars == <<candles, analysis>>

Prices == [open: Int, high: Int, low: Int, close: Int]

\* A reading of H1 is one StructuralBias and DealingPosition can give.
ASSUME StrategyAssumption ==
  /\ \A h \in Histories : /\ h \in Seq(Prices) /\ h # <<>>
                         /\ \A i \in DOMAIN h : ValidCandle(h[i])
  /\ Shapes \subseteq [gap: Int, move: Int, above: Nat, below: Nat]
  /\ H1Readings \subseteq [bias: {"bullish", "bearish", "range"},
                           choppy: BOOLEAN, position: Int]
  /\ Spreads \subseteq Nat
  /\ MinTradeable \in Nat

The(S) == CHOOSE x \in S : TRUE

Side(wanted) == IF wanted = "bullish" THEN "BUY" ELSE "SELL"
Wanted(direction) == IF direction = "BUY" THEN "bullish" ELSE "bearish"

\* The session of the moment the last candle closes (smc/sessions.py).
Session(cs) ==
  LET in(name) == name \in SessionsOf[Len(cs) + 1]
  IN  IF in("WEEKEND") THEN "WEEKEND"
      ELSE IF in("LONDON") /\ in("NEW_YORK") THEN "OVERLAP"
      ELSE IF in("LONDON") THEN "LONDON"
      ELSE IF in("NEW_YORK") THEN "NEW_YORK"
      ELSE IF in("ASIAN") THEN "ASIAN" ELSE "OFF_HOURS"

(***************************************************************************)
(* The evidence M15 offers in one direction (mtf.gather_direction_         *)
(* evidence).  An optional member is a set of at most one element.         *)
(***************************************************************************)
Best(S, better(_, _)) ==
  IF S = {} THEN {} ELSE {CHOOSE x \in S : \A y \in S \ {x} : better(x, y)}

IndexOf(S) == IF S = {} THEN None ELSE The(S).index

Evidence(cs, a, wanted) ==
  LET n == Len(cs)
      sweeps == {s \in a.sweeps : /\ s.direction = wanted
                                  /\ s.confirmed <= n /\ n - s.index <= MaxAge}
      events == {e \in a.events : /\ e.direction = wanted
                                  /\ n - e.index <= MaxAge
                                  /\ e.displaced /\ e.clearance >= 1200}
      finer(s, t) == s.quality > t.quality
                     \/ (s.quality = t.quality /\ s.index > t.index)
      later(e, f) == e.index > f.index
      sweep == Best(sweeps, finer)
      event == Best(events, later)
      reference == Max({IndexOf(sweep), IndexOf(event)})
      moves == {m \in a.moves : /\ Direction(cs[m]) = wanted
                                /\ Abs(m - reference) <= 6}
  IN  [wanted |-> wanted, sweep |-> sweep, event |-> event,
       choch |-> Best({e \in events : e.type = "CHoCH"}, later),
       displacement |-> IF moves = {} THEN None
                        ELSE Max({DisplacementQuality(cs, m) : m \in moves}),
       reference |-> reference,
       latest |-> Latest({s.index : s \in sweeps} \cup {e.index : e \in events})]

HasTrigger(e) == e.sweep # {} \/ e.event # {}

TriggerQuality(e) ==
  Max({0} \cup {s.quality : s \in e.sweep}
          \cup {4500 + Percent(35, v.quality) : v \in e.event})

(***************************************************************************)
(* Classification of one direction against the H1 trend (mtf.classify).    *)
(* A floor is a score, in ten-thousandths of a point; TierB is the lowest. *)
(***************************************************************************)
Points(p) == p * One
TierB == Points(56)

Choppy(regime) == regime.trend = "transitional" /\ regime.strength < 2800

Refused(type) == [type |-> type, allowed |-> FALSE, floor |-> 0]

Taken(type, floor, h1, a) ==
  [type |-> type, allowed |-> TRUE,
   floor |-> Max({TierB, Points(floor)})
             + (IF h1.choppy \/ Choppy(a.regime) THEN Points(8) ELSE 0)]

\* What a move against the trend lacks before it is a reversal.
Shortfalls(e) ==
  \/ e.sweep = {}
  \/ \E s \in e.sweep : s.level.weight < 6000 \/ s.quality < 5500
  \/ e.displacement < 4500
  \/ e.choch = {}

\* Mutant: with no H1 trend, the M15 structure is not asked for its side.
WithoutPrimaryBiasEitherSide(e, h1, a) ==
  IF e.sweep # {} THEN Taken("RANGE_ROTATION", 60, h1, a)
  ELSE Taken("CONTINUATION", 60, h1, a)

WithoutPrimaryBias(e, h1, a) ==
  LET position == IF h1.position >= 0 THEN h1.position ELSE a.position
      extreme == /\ position >= 0
                 /\ IF e.wanted = "bullish" THEN position <= 3800
                                            ELSE position >= 6200
  IN  IF extreme /\ e.sweep # {} THEN Taken("RANGE_ROTATION", 60, h1, a)
      ELSE IF a.bias # e.wanted THEN Refused("NOISE")
      ELSE Taken("CONTINUATION", 60, h1, a)

Classify(e, h1, a) ==
  IF TriggerQuality(e) < 3500 THEN Refused("NOISE")
  ELSE IF h1.bias = e.wanted THEN Taken("CONTINUATION", 0, h1, a)
  ELSE IF h1.bias = "range" THEN WithoutPrimaryBias(e, h1, a)
  ELSE IF Shortfalls(e) THEN Refused("RETRACEMENT")
  ELSE Taken("REVERSAL", 70, h1, a)

\* The directions that may be traded: evidence with its classification.
Results(cs, a, h1) ==
  {r \in {[evidence |-> e, class |-> Classify(e, h1, a)] :
            e \in {f \in {Evidence(cs, a, w) : w \in {"bullish", "bearish"}} :
                     HasTrigger(f)}} :
     r.class.allowed}

Preference(type) == CASE type = "CONTINUATION" -> 1
                      [] type = "RANGE_ROTATION" -> 2
                      [] type = "REVERSAL" -> 3

\* mtf.decide: the freshest trigger, then the better one, then the
\* classification.  Empty when neither direction may be traded.
Decide(cs, a, h1) ==
  LET before(r, s) ==
        LET e == r.evidence   f == s.evidence
            q == TriggerQuality(e)   u == TriggerQuality(f)
        IN  \/ e.latest > f.latest
            \/ e.latest = f.latest /\ q > u
            \/ e.latest = f.latest /\ q = u
               /\ Preference(r.class.type) <= Preference(s.class.type)
  IN  Best(Results(cs, a, h1), before)

(***************************************************************************)
(* The SMC candidate (SmcEngine.evaluate): an entry zone that is still     *)
(* live, price at the zone, and levels built from structure.               *)
(***************************************************************************)
\* best_entry_gap and best_entry_block, for zones no older than 60 candles
\* that formed at most 12 candles before the trigger.
EntryZones(zones, e, n) ==
  {z \in zones : /\ z.direction = e.wanted /\ IsLive(z, n, 60)
                 /\ z.index >= e.reference - 12}

BestGap(gaps) ==
  LET better(g, h) ==
        \/ g.displaced /\ ~h.displaced
        \/ g.displaced = h.displaced
           /\ (g.size > h.size \/ (g.size = h.size /\ g.index > h.index))
  IN  Best(gaps, better)

BestBlock(blocks) ==
  LET better(b, c) == b.strength > c.strength
                      \/ (b.strength = c.strength /\ b.index > c.index)
  IN  Best(blocks, better)

ChoosePoi(gap, block) ==
  IF gap = {} THEN block
  ELSE IF block = {} THEN gap
  ELSE IF The(gap).displaced /\ The(gap).size >= 2000 THEN gap
  ELSE IF The(block).strength >= 6000 THEN block ELSE gap

\* Mutant: the pool is chosen without the offset the fill gives up.
NearestTargetBare(a, direction, price, n, distance) ==
  {l \in a.levels :
    /\ l.source <= n
    /\ IF direction = "BUY"
         THEN l.side = "buy" /\ l.price > price
              /\ l.price - price >= distance - Percent(10, a.atr)
         ELSE l.side = "sell" /\ l.price < price
              /\ price - l.price >= distance - Percent(10, a.atr)}

\* The opposing pools far enough away; the nearest is the target.
NearestTarget(a, direction, price, n, distance) ==
  {l \in a.levels :
    /\ l.source <= n
    /\ IF direction = "BUY" THEN l.side = "buy" /\ l.price > price
                                 /\ l.price - price >= distance
                            ELSE l.side = "sell" /\ l.price < price
                                 /\ price - l.price >= distance}

\* A fraction that is rounded up: a lowest reward that does not divide the
\* unit still pays, as R_EPSILON has it pay in the code.
PercentUp(p, x) == -((-(p * x)) \div 100)

\* SmcEngine._build_levels: the stop behind the zone, and behind the sweep
\* when the sweep is not older than the zone; the target short of a pool,
\* or projected at the lowest reward the risk engine accepts.
BuildLevels(cs, a, direction, e, poi, spread) ==
  LET n == Len(cs)
      entry == cs[n].close
      buffer == Percent(20, a.atr) + spread
      swept == {s \in e.sweep : s.index >= poi.index}
      stop == IF direction = "BUY"
                THEN Min({poi.lower} \cup {cs[s.index].low : s \in swept}) - buffer
                ELSE Max({poi.upper} \cup {cs[s.index].high : s \in swept}) + buffer
      distance == Abs(entry - stop)
      offset == Percent(10, a.atr)
      minimum == PercentUp(120, distance)
      pools == {l.price : l \in NearestTarget(a, direction, entry, n, minimum + offset)}
      target == IF direction = "BUY"
                  THEN IF pools = {} THEN entry + minimum ELSE Min(pools) - offset
                  ELSE IF pools = {} THEN entry - minimum ELSE Max(pools) + offset
      ordered == IF direction = "BUY" THEN stop < entry /\ entry < target
                                      ELSE target < entry /\ entry < stop
  IN  IF ~ordered THEN {}
      ELSE {[entry |-> entry, stop |-> stop, target |-> target,
             distance |-> distance, projected |-> pools = {}]}

Identity(direction, e) ==
  <<direction,
    {<<s.level.rank, s.level.touches, s.level.price, s.index>> : s \in e.sweep},
    {<<v.type, v.price, v.index>> : v \in e.event}>>

\* The gates both strategies share: the week, the regime, the ATR.
Analysable(cs, a) ==
  Session(cs) # "WEEKEND" /\ a.regime.tradeable /\ a.atr > 0

\* Entry needs price at the zone: within 0.35 ATR of it.
AtZone(price, zone, atr) ==
  zone.lower - Percent(35, atr) <= price /\ price <= zone.upper + Percent(35, atr)

\* The stop is neither inside the noise nor too wide, and the target pays.
SoundLevels(l, atr) ==
  /\ 100 * l.distance >= 35 * atr
  /\ 100 * l.distance <= 350 * atr
  /\ 100 * Abs(l.target - l.entry) >= 120 * l.distance

SmcCandidate(direction, levels, poi, decision) ==
  [strategy |-> "smc", direction |-> direction, levels |-> levels, zone |-> poi,
   evidence |-> decision.evidence, type |-> decision.class.type,
   floor |-> decision.class.floor, id |-> Identity(direction, decision.evidence)]

\* SmcEngine.evaluate: the candidate, if the chart has one.
Evaluate(cs, a, h1, spread) ==
  LET n == Len(cs)
      decision == Decide(cs, a, h1)
      d == The(decision)
      direction == Side(d.evidence.wanted)
      poi == ChoosePoi(BestGap(EntryZones(a.gaps, d.evidence, n)),
                       BestBlock(EntryZones(a.blocks, d.evidence, n)))
      levels == BuildLevels(cs, a, direction, d.evidence, The(poi), spread)
  IN  IF ~Analysable(cs, a) THEN {}
      ELSE IF decision = {} THEN {}
      ELSE IF poi = {} THEN {}
      ELSE IF ~AtZone(cs[n].close, The(poi), a.atr) THEN {}
      ELSE {SmcCandidate(direction, l, poi, d) :
              l \in {k \in levels : SoundLevels(k, a.atr)}}

(***************************************************************************)
(* The reversion candidate (ReversionStrategy.build_candidate): fade the   *)
(* newest sweep, never against H1, with a target at 1.5 times the risk.    *)
(***************************************************************************)
RecentSweep(a, n) ==
  LET usable == {s \in a.sweeps : /\ s.confirmed <= n /\ n - s.confirmed <= 3
                                  /\ s.rejection >= 5000}
      better(s, t) == \/ s.confirmed > t.confirmed
                      \/ s.confirmed = t.confirmed /\ s.quality >= t.quality
  IN  Best(usable, better)

HtfPermits(direction, h1) == h1.bias # Opposite(Wanted(direction))

\* The stop behind the wick of the sweep, if it lies behind the market.
PriceLevels(cs, a, direction, s, spread) ==
  LET entry == cs[Len(cs)].close
      buffer == Percent(35, a.atr) + spread
      stop == IF direction = "BUY" THEN cs[s.index].low - buffer
                                   ELSE cs[s.index].high + buffer
      behind == IF direction = "BUY" THEN stop < entry ELSE stop > entry
  IN  IF ~behind THEN {}
      ELSE {[entry |-> entry, stop |-> stop,
             target |-> entry + Percent(150, entry - stop),
             distance |-> Abs(entry - stop), projected |-> FALSE]}

Reversion(cs, a, h1, spread) ==
  LET n == Len(cs)
      sweeps == RecentSweep(a, n)
      s == The(sweeps)
      direction == Side(s.direction)
      atEnd == /\ a.position >= 0
               /\ IF direction = "BUY" THEN a.position > 8500 ELSE a.position < 1500
      e == [wanted |-> s.direction, sweep |-> sweeps, event |-> {},
            choch |-> {}, displacement |-> None, reference |-> s.index,
            latest |-> s.index]
  IN  IF ~Analysable(cs, a) THEN {}
      ELSE IF sweeps = {} THEN {}
      ELSE IF ~HtfPermits(direction, h1) \/ atEnd THEN {}
      ELSE {[strategy |-> "reversion", direction |-> direction, levels |-> l,
             zone |-> {}, evidence |-> e, type |-> "RANGE_ROTATION",
             floor |-> 0, id |-> <<>>] : l \in PriceLevels(cs, a, direction, s, spread)}

(***************************************************************************)
(* The score (scoring/scorer.py).  Each component is a fraction, weighted; *)
(* the total is in ten-thousandths of a point.                             *)
(***************************************************************************)
Trigger(c) ==
  LET e == c.evidence
      followed == e.sweep # {} /\ IndexOf(e.event) >= IndexOf(e.sweep)
  IN  IF e.sweep # {}
        THEN Capped(The(e.sweep).quality + (IF followed THEN 1500 ELSE 0))
        ELSE Capped(TriggerQuality(e))

Context(c) == CASE c.type = "CONTINUATION" -> 10000
                [] c.type = "RANGE_ROTATION" -> 6000
                [] c.type = "REVERSAL" -> 5500

EntryZone(c) ==
  IF c.zone = {} THEN 0
  ELSE LET z == The(c.zone)
       IN  IF z.kind = "FVG"
             THEN 6000 + (IF z.displaced THEN 3000 ELSE 0)
                  + Min({1000, z.size \div 10})
             ELSE Capped(4500 + Percent(55, z.strength))

\* From the lowest reward to 4R, then flat.
RiskReward(c) ==
  LET ratio == Ratio(Abs(c.levels.target - c.levels.entry), c.levels.distance)
  IN  IF ratio < 12000 THEN 0
      ELSE Capped(3000 + (70 * (ratio - 12000)) \div 280)

RegimeQuality(regime) ==
  LET trend == CASE regime.trend = "trending" -> 100
                 [] regime.trend = "transitional" -> 70
                 [] regime.trend = "ranging" -> 45
      factor == CASE regime.volatility = "compressed" -> 55
                  [] regime.volatility = "normal" -> 100
                  [] regime.volatility = "expanded" -> 85
                  [] regime.volatility = "extreme" -> 20
  IN  trend * factor

Location(c, a) ==
  IF a.position < 0 THEN 0
  ELSE IF c.direction = "BUY" THEN Capped(One - (100 * a.position) \div 85)
  ELSE Capped((100 * (a.position - 1500)) \div 85)

SessionQuality(name) == CASE name = "OVERLAP" -> 10000
                          [] name = "LONDON" -> 9000
                          [] name = "NEW_YORK" -> 8500
                          [] name = "ASIAN" -> 5000
                          [] name = "OFF_HOURS" -> 2000

Total(c, cs, a) ==
  LET total == 25 * Trigger(c) + 18 * Context(c)
               + 14 * (IF c.evidence.displacement = None THEN 2000
                       ELSE c.evidence.displacement)
               + 12 * EntryZone(c) + 12 * RiskReward(c)
               + 10 * RegimeQuality(a.regime) + 6 * Location(c, a)
               + 3 * SessionQuality(Session(cs))
  IN  IF c.levels.projected THEN Percent(85, total) ELSE total

\* No component that cannot be compensated for is near-absent.
Critical(c) == \A part \in {Trigger(c), EntryZone(c), RiskReward(c)} : part >= 2500

InTradeableSession(cs) == Session(cs) \in {"LONDON", "NEW_YORK", "OVERLAP"}

\* The score every setup needs.
Bar == Max({TierB, Points(MinTradeable)})

Tier(c, cs, a) ==
  LET total == Total(c, cs, a)
  IN  IF ~Critical(c) \/ ~InTradeableSession(cs) \/ total < Max({Bar, c.floor})
        THEN "NO_TRADE"
      ELSE IF total >= Points(80) THEN "A+"
      ELSE IF total >= Points(68) THEN "A" ELSE "B"

Tradeable(c, cs, a) == Tier(c, cs, a) # "NO_TRADE"

-----------------------------------------------------------------------------
\* The bot starts with a history, and then every candle that closes is
\* followed by a scan of the whole chart.
Init ==
  /\ candles \in Histories
  /\ analysis = Analyze(candles)

\* A candle opens a gap away from the last close, moves, and leaves wicks.
CandleOf(last, s) ==
  LET open == last + s.gap
      close == open + s.move
  IN  [open |-> open, close |-> close,
       high |-> Max({open, close}) + s.above,
       low |-> Min({open, close}) - s.below]

Scan(s) ==
  LET c == CandleOf(candles[Len(candles)].close, s)
  IN  /\ Len(candles) < MaxCandles
      /\ ValidCandle(c)
      /\ candles' = Append(candles, c)
      /\ analysis' = Analyze(candles')

Next == \E s \in Shapes : Scan(s)

Spec == Init /\ [][Next]_vars

-----------------------------------------------------------------------------
(***************************************************************************)
(* Properties                                                              *)
(***************************************************************************)
\* Everything the scan reports lies on the chart, and every grade is a
\* fraction.
TypeOK ==
  /\ \A i \in DOMAIN candles : ValidCandle(candles[i])
  /\ analysis.moves \subseteq DOMAIN candles
  /\ \A e \in analysis.events : e.level < e.index /\ e.index \in DOMAIN candles
  /\ \A z \in analysis.gaps \cup analysis.blocks :
       /\ z.lower <= z.upper /\ z.index <= z.formed
       /\ z.spent = None \/ z.spent \in (z.formed + 1)..Len(candles)
  /\ \A s \in analysis.sweeps :
       s.quality \in 0..One /\ s.confirmed \in s.index..Len(candles)

\* What no later candle changes of a break of structure.
Fixed(e) == [index |-> e.index, direction |-> e.direction, type |-> e.type,
             level |-> e.level, displaced |-> e.displaced]

FixedOf(events) == {Fixed(e) : e \in events}

BreaksKept ==
  FixedOf(analysis.events)
    = FixedOf({e \in analysis'.events : e.index <= Len(candles)})

\* A confirmed break of structure is never revised: the next candle adds at
\* most one break, on itself, and changes no earlier one's level, direction
\* or kind (structure.py, "the look-ahead guard").
StructureStands == [][BreaksKept]_vars

SameZone(y, z) == y.kind = z.kind /\ y.index = z.index /\ y.direction = z.direction

ZonesKept ==
  /\ \A z \in analysis.gaps : \E y \in analysis'.gaps : SameZone(y, z)
  /\ \A y \in analysis'.gaps : y.index <= Len(candles) =>
       \E z \in analysis.gaps : SameZone(y, z)
  /\ \A z \in analysis.gaps \cup analysis.blocks :
       \A y \in analysis'.gaps \cup analysis'.blocks :
         (SameZone(y, z) /\ z.spent # None) => y.spent = z.spent

\* A zone that was used up stays used up, at the same candle, and no gap is
\* ever found or lost in hindsight (fvg.py, "never by looking at the final
\* candle").
SpentStaysSpent == [][ZonesKept]_vars

\* Both directions may qualify at once, but never with the same classification:
\* equally fresh and equally good triggers are told apart by it, and the choice
\* does not depend on the order the loop tries them (mtf.decide).
NeverTheSameClassTwice ==
  \A h1 \in H1Readings : \A r, s \in Results(candles, analysis, h1) :
    r # s => r.class.type # s.class.type

\* No candidate is priced with a stop that the market has already traded
\* since its entry zone formed (engine._build_levels with the life cycle of
\* the zone).
StopUntouched ==
  \A h1 \in H1Readings, spread \in Spreads :
    \A c \in Evaluate(candles, analysis, h1, spread) :
      \A i \in (The(c.zone).formed + 1)..Len(candles) :
        IF c.direction = "BUY" THEN candles[i].low > c.levels.stop
                               ELSE candles[i].high < c.levels.stop

\* A target always pays for its stop: the distance given up in front of the
\* pool never takes the reward back under the floor, so a setup that has
\* levels is not refused for its ratio (engine._build_levels, "cannot
\* smuggle the reward back").
TargetPays ==
  \A h1 \in H1Readings, spread \in Spreads :
    \A r \in Results(candles, analysis, h1) :
      \A z \in EntryZones(analysis.gaps \cup analysis.blocks, r.evidence, Len(candles)) :
        \A l \in BuildLevels(candles, analysis, Side(r.evidence.wanted),
                             r.evidence, z, spread) :
          100 * Abs(l.target - l.entry) >= 120 * l.distance

\* "the build's B tier remains this mode's bar" (reversion.py:230): a reversion
\* candidate that scores it, in a session that is traded, is traded.  Violated: its
\* candidates carry no entry zone, and the scorer refuses every setup without one.
ScoreIsTheBar ==
  \A h1 \in H1Readings, spread \in Spreads :
    \A c \in Reversion(candles, analysis, h1, spread) :
      InTradeableSession(candles) /\ Total(c, candles, analysis) >= Bar =>
        Tradeable(c, candles, analysis)

\* identity.py: nothing that moves between scans is in a setup's identity.
\* The same sweep candle and the same break of structure, good enough to be
\* traded at one scan and at the next, are one setup under one name.
SetupKeepsItsName ==
  [][\A h1 \in H1Readings, spread \in Spreads :
       \A c \in Evaluate(candles, analysis, h1, spread),
          d \in Evaluate(candles', analysis', h1, spread) :
         (/\ Tradeable(c, candles, analysis)
          /\ Tradeable(d, candles', analysis')
          /\ c.direction = d.direction
          /\ IndexOf(c.evidence.sweep) = IndexOf(d.evidence.sweep)
          /\ IndexOf(c.evidence.event) = IndexOf(d.evidence.event)) => c.id = d.id]_vars
=============================================================================
