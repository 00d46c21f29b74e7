--------------------------- MODULE StrategyProofs ---------------------------
(***************************************************************************)
(* Theorems about Strategy, checked by TLAPS.                              *)
(***************************************************************************)
EXTENDS Strategy, FiniteSetTheorems, WellFoundedInduction, NaturalsInduction, TLAPS

-----------------------------------------------------------------------------
(* Finite sets of numbers.  Induction over a finite set is stated without  *)
(* an operator: a non-empty family of subsets has a smallest member.       *)

LEMMA SmallestSubset ==
  ASSUME NEW S, IsFiniteSet(S), NEW C \in SUBSET SUBSET S, C # {}
  PROVE  \E T \in C : \A U \in C : U \subseteq T => U = T
  <1>1. IsWellFoundedOn(StrictSubsetOrdering(S), SUBSET S)
    BY FS_StrictSubsetOrderingWellFounded, FS_FiniteSubsetsOfFinite
  <1>2. PICK T \in C : \A U \in C : <<U, T>> \notin StrictSubsetOrdering(S)
    BY <1>1, WFMin
  <1> QED
    BY <1>2 DEF StrictSubsetOrdering

\* The largest of finitely many numbers is one of them.
LEMMA MaxOf ==
  ASSUME NEW S, IsFiniteSet(S), S # {}, \A x \in S : x \in Int
  PROVE  Max(S) \in S /\ \A y \in S : Max(S) >= y
  <1> DEFINE C == {T \in SUBSET S : T # {} /\ \A x \in T : \E y \in T : ~(x >= y)}
  <1>1. C = {}
    <2> SUFFICES ASSUME C # {} PROVE FALSE
      OBVIOUS
    <2>0. C # {} /\ C \in SUBSET SUBSET S
      OBVIOUS
    <2>1. PICK T \in C : \A U \in C : U \subseteq T => U = T
      <3> HIDE DEF C
      <3> QED  BY <2>0, SmallestSubset
    <2>2. PICK x \in T : TRUE
      BY <2>1
    <2>3. PICK m \in T \ {x} : \A y \in T \ {x} : m >= y
      <3>1. \E y \in T : ~(x >= y)
        BY <2>1, <2>2
      <3>2. T \ {x} # {}
        BY <2>1, <2>2, <3>1
      <3>3. T \ {x} \notin C
        BY <2>1, <2>2
      <3> QED
        BY <3>2, <3>3, <2>1
    <2>4. \A y \in T : y \in Int
      BY <2>1
    <2>5. CASE m >= x
      BY <2>1, <2>3, <2>4, <2>5
    <2>6. CASE ~(m >= x)
      BY <2>1, <2>2, <2>3, <2>4, <2>6
    <2> QED
      BY <2>5, <2>6
  <1>2. \E x \in S : \A y \in S : x >= y
    BY <1>1
  <1> QED
    BY <1>2 DEF Max

\* And so is the smallest.
LEMMA MinOf ==
  ASSUME NEW S, IsFiniteSet(S), S # {}, \A x \in S : x \in Int
  PROVE  Min(S) \in S /\ \A y \in S : Min(S) <= y
  <1> DEFINE C == {T \in SUBSET S : T # {} /\ \A x \in T : \E y \in T : ~(x <= y)}
  <1>1. C = {}
    <2> SUFFICES ASSUME C # {} PROVE FALSE
      OBVIOUS
    <2>0. C # {} /\ C \in SUBSET SUBSET S
      OBVIOUS
    <2>1. PICK T \in C : \A U \in C : U \subseteq T => U = T
      <3> HIDE DEF C
      <3> QED  BY <2>0, SmallestSubset
    <2>2. PICK x \in T : TRUE
      BY <2>1
    <2>3. PICK m \in T \ {x} : \A y \in T \ {x} : m <= y
      <3>1. \E y \in T : ~(x <= y)
        BY <2>1, <2>2
      <3>2. T \ {x} # {}
        BY <2>1, <2>2, <3>1
      <3>3. T \ {x} \notin C
        BY <2>1, <2>2
      <3> QED
        BY <3>2, <3>3, <2>1
    <2>4. \A y \in T : y \in Int
      BY <2>1
    <2>5. CASE m <= x
      BY <2>1, <2>3, <2>4, <2>5
    <2>6. CASE ~(m <= x)
      BY <2>1, <2>2, <2>3, <2>4, <2>6
    <2> QED
      BY <2>5, <2>6
  <1>2. \E x \in S : \A y \in S : x <= y
    BY <1>1
  <1> QED
    BY <1>2 DEF Min

LEMMA MaxPair ==
  ASSUME NEW a \in Int, NEW b \in Int
  PROVE  Max({a, b}) = IF a >= b THEN a ELSE b
  <1>1. \E x \in {a, b} : \A y \in {a, b} : x >= y
    OBVIOUS
  <1> QED
    BY <1>1 DEF Max

LEMMA MinPair ==
  ASSUME NEW a \in Int, NEW b \in Int
  PROVE  Min({a, b}) = IF a <= b THEN a ELSE b
  <1>1. \E x \in {a, b} : \A y \in {a, b} : x <= y
    OBVIOUS
  <1> QED
    BY <1>1 DEF Min

\* A grade is a fraction of One.
LEMMA Grade ==
  ASSUME NEW x \in Int
  PROVE  Capped(x) \in 0..One
  <1> DEFINE m == Min({One, x})
  <1>1. m \in Int /\ m <= One
    BY MinPair DEF One
  <1>2. Capped(x) = Max({0, m})
    BY DEF Capped
  <1> HIDE DEF m
  <1>3. Max({0, m}) = IF 0 >= m THEN 0 ELSE m
    BY <1>1, MaxPair
  <1>4. Capped(x) = IF 0 >= m THEN 0 ELSE m
    BY <1>2, <1>3
  <1>5. (IF 0 >= m THEN 0 ELSE m) \in 0..One
    BY <1>1 DEF One
  <1> QED
    BY <1>4, <1>5

LEMMA RatioIsInt ==
  ASSUME NEW a \in Int, NEW b \in Nat
  PROVE  Ratio(a, b) \in Int
  BY DEF Ratio, One

-----------------------------------------------------------------------------
(* The chart stays a chart.                                                *)

\* The candles are prices, and the analysis is that of these candles.
Charted ==
  /\ candles \in Seq(Prices) /\ candles # <<>>
  /\ \A i \in DOMAIN candles : ValidCandle(candles[i])
  /\ analysis = Analyze(candles)

LEMMA CandleTypes ==
  ASSUME NEW last \in Int, NEW s \in Shapes
  PROVE  CandleOf(last, s) \in Prices
  <1> DEFINE open == last + s.gap
  <1> DEFINE close == open + s.move
  <1>1. s \in [gap: Int, move: Int, above: Nat, below: Nat]
    BY StrategyAssumption
  <1>2. open \in Int /\ close \in Int
    BY <1>1
  <1>3. Max({open, close}) \in Int /\ Min({open, close}) \in Int
    <2> HIDE DEF open, close
    <2> QED
      BY <1>2, MaxPair, MinPair
  <1>4. CandleOf(last, s) = [open |-> open, close |-> close,
                             high |-> Max({open, close}) + s.above,
                             low |-> Min({open, close}) - s.below]
    BY DEF CandleOf
  <1> HIDE DEF open, close
  <1> QED
    BY <1>1, <1>2, <1>3, <1>4 DEF Prices

THEOREM StaysCharted == Spec => []Charted
  <1>1. Init => Charted
    BY StrategyAssumption DEF Init, Charted
  <1>2. Charted /\ [Next]_vars => Charted'
    <2> SUFFICES ASSUME Charted, [Next]_vars PROVE Charted'
      OBVIOUS
    <2>1. CASE UNCHANGED vars
      BY <2>1 DEF Charted, vars
    <2>2. ASSUME NEW s \in Shapes, Scan(s) PROVE Charted'
      <3> DEFINE c == CandleOf(candles[Len(candles)].close, s)
      <3>1. /\ ValidCandle(c)
            /\ candles' = Append(candles, c)
            /\ analysis' = Analyze(candles')
        BY <2>2 DEF Scan
      <3>2. candles \in Seq(Prices) /\ Len(candles) \in Nat \ {0}
        BY DEF Charted
      <3>3. candles[Len(candles)] \in Prices
        BY <3>2
      <3>4. candles[Len(candles)].close \in Int
        BY <3>3 DEF Prices
      <3>5. c \in Prices
        BY <3>4, CandleTypes
      <3> HIDE DEF c
      <3>6. candles' \in Seq(Prices) /\ candles' # <<>>
        BY <3>1, <3>2, <3>5
      <3>7. ASSUME NEW i \in DOMAIN candles' PROVE ValidCandle(candles'[i])
        <4>1. CASE i = Len(candles) + 1
          BY <3>1, <3>2, <3>5, <4>1
        <4>2. CASE i # Len(candles) + 1
          <5>1. i \in DOMAIN candles /\ candles'[i] = candles[i]
            BY <3>1, <3>2, <3>5, <4>2
          <5> QED
            BY <5>1 DEF Charted
        <4> QED
          BY <4>1, <4>2
      <3> QED
        BY <3>1, <3>6, <3>7 DEF Charted
    <2> QED
      BY <2>1, <2>2 DEF Next
  <1> QED
    BY <1>1, <1>2, PTL DEF Spec

-----------------------------------------------------------------------------
(* Positions and extremes on a chart.                                      *)

LEMMA FiniteImage ==
  ASSUME NEW S, IsFiniteSet(S), NEW f
  PROVE  IsFiniteSet({f[x] : x \in S})
  <1> DEFINE T == {f[x] : x \in S}
  <1> DEFINE g == [x \in S |-> f[x]]
  <1>1. g \in Surjection(S, T)
    BY DEF Surjection
  <1> QED
    BY <1>1, FS_Surjection

LEMMA SomePositions ==
  ASSUME NEW n \in Nat, NEW S \in SUBSET (1..n)
  PROVE  IsFiniteSet(S) /\ \A x \in S : x \in Int
  <1>1. IsFiniteSet(1..n)
    BY FS_Interval
  <1>2. IsFiniteSet(S)
    BY <1>1, FS_Subset
  <1>3. \A x \in S : x \in Int
    OBVIOUS
  <1> QED
    BY <1>2, <1>3

LEMMA CandleAt ==
  ASSUME NEW cs \in Seq(Prices), NEW i \in DOMAIN cs
  PROVE  /\ cs[i].open \in Int /\ cs[i].close \in Int
         /\ cs[i].high \in Int /\ cs[i].low \in Int
  <1>1. cs[i] \in Prices
    OBVIOUS
  <1> QED
    BY <1>1 DEF Prices

\* The extremes of one field over some candles.
LEMMA HighestIsInt ==
  ASSUME NEW cs \in Seq(Prices), NEW S, S \subseteq DOMAIN cs, S # {}
  PROVE  Max({cs[i].high : i \in S}) \in Int
  <1> DEFINE f == [i \in DOMAIN cs |-> cs[i].high]
  <1>1. IsFiniteSet(S)
    <2>1. Len(cs) \in Nat /\ S \in SUBSET (1..Len(cs))
      OBVIOUS
    <2> QED
      BY <2>1, SomePositions
  <1>2. IsFiniteSet({f[i] : i \in S})
    <2> HIDE DEF f
    <2> QED  BY <1>1, FiniteImage
  <1>3. {cs[i].high : i \in S} = {f[i] : i \in S}
    OBVIOUS
  <1>4. \A x \in {cs[i].high : i \in S} : x \in Int
    BY CandleAt
  <1>5. {cs[i].high : i \in S} # {}
    OBVIOUS
  <1> QED
    BY <1>2, <1>3, <1>4, <1>5, MaxOf

LEMMA LowestIsInt ==
  ASSUME NEW cs \in Seq(Prices), NEW S, S \subseteq DOMAIN cs, S # {}
  PROVE  Min({cs[i].low : i \in S}) \in Int
  <1> DEFINE f == [i \in DOMAIN cs |-> cs[i].low]
  <1>1. IsFiniteSet(S)
    <2>1. Len(cs) \in Nat /\ S \in SUBSET (1..Len(cs))
      OBVIOUS
    <2> QED
      BY <2>1, SomePositions
  <1>2. IsFiniteSet({f[i] : i \in S})
    <2> HIDE DEF f
    <2> QED  BY <1>1, FiniteImage
  <1>3. {cs[i].low : i \in S} = {f[i] : i \in S}
    OBVIOUS
  <1>4. \A x \in {cs[i].low : i \in S} : x \in Int
    BY CandleAt
  <1>5. {cs[i].low : i \in S} # {}
    OBVIOUS
  <1> QED
    BY <1>2, <1>3, <1>4, <1>5, MinOf

\* Of some positions, the latest few are some too.
LEMMA LastOnes ==
  ASSUME NEW n \in Nat, NEW S \in SUBSET (1..n), S # {}
  PROVE  LastOf(S, 5) # {} /\ LastOf(S, 5) \subseteq S
  <1>1. IsFiniteSet(S) /\ \A x \in S : x \in Int
    BY SomePositions
  <1>2. Max(S) \in S /\ \A y \in S : Max(S) >= y
    BY <1>1, MaxOf
  <1> DEFINE m == Max(S)
  <1>3. {j \in S : j > m} = {}
    <2>1. SUFFICES ASSUME NEW j \in S, j > m PROVE FALSE
      OBVIOUS
    <2>2. m \in Int /\ j \in Int /\ m >= j
      BY <1>1, <1>2
    <2> HIDE DEF m
    <2> QED
      BY <2>1, <2>2
  <1>4. Cardinality({j \in S : j > m}) < 5
    BY <1>3, FS_EmptySet
  <1> QED
    BY <1>2, <1>4 DEF LastOf

\* The place in the dealing range is a number, with a range or without one.
LEMMA PositionType ==
  ASSUME NEW cs \in Seq(Prices), cs # <<>>
  PROVE  DealingPosition(cs) \in Int
  <1> DEFINE n == Len(cs)
  <1> DEFINE highs == Known(SwingHighs(cs), n)
  <1> DEFINE lows == Known(SwingLows(cs), n)
  <1> DEFINE high == Max({cs[i].high : i \in LastOf(highs, 5)})
  <1> DEFINE low == Min({cs[i].low : i \in LastOf(lows, 5)})
  <1>1. n \in Nat \ {0} /\ DOMAIN cs = 1..n
    OBVIOUS
  <1>2. Inner(cs) \subseteq 1..n
    BY <1>1, ChartAssumption DEF Inner
  <1>3. highs \in SUBSET (1..n) /\ lows \in SUBSET (1..n)
    BY <1>2 DEF Known, SwingHighs, SwingLows
  <1>4. -1 \in Int /\ \A x \in 0..One : x \in Int
    BY DEF One
  <1>5. DealingPosition(cs)
          = IF highs = {} \/ lows = {} THEN -1
            ELSE IF high <= low THEN -1
            ELSE Capped(Ratio(cs[n].close - low, high - low))
    BY DEF DealingPosition
  <1>6. cs[n].close \in Int
    <2>1. n \in DOMAIN cs
      BY <1>1
    <2> QED
      BY <2>1, CandleAt
  <1> HIDE DEF highs, lows
  <1>7. CASE highs = {} \/ lows = {}
    BY <1>4, <1>5, <1>7
  <1>8. CASE highs # {} /\ lows # {}
    <2>1. high \in Int
      BY <1>1, <1>3, <1>8, LastOnes, HighestIsInt
    <2>2. low \in Int
      BY <1>1, <1>3, <1>8, LastOnes, LowestIsInt
    <2> HIDE DEF high, low, n
    <2>3. CASE high <= low
      BY <1>4, <1>5, <1>8, <2>3
    <2>4. CASE ~(high <= low)
      <3>1. cs[n].close - low \in Int /\ high - low \in Nat
        BY <1>6, <2>1, <2>2, <2>4
      <3>2. Capped(Ratio(cs[n].close - low, high - low)) \in 0..One
        BY <3>1, RatioIsInt, Grade
      <3> QED
        BY <1>4, <1>5, <1>8, <2>4, <3>2
    <2> QED
      BY <2>3, <2>4
  <1> QED
    BY <1>7, <1>8

-----------------------------------------------------------------------------
(* The classification of the two directions.                               *)

LEMMA EvidenceSide ==
  ASSUME NEW cs, NEW a, NEW w
  PROVE  Evidence(cs, a, w).wanted = w
  BY DEF Evidence, Best

HtfPosition(h1, a) == IF h1.position >= 0 THEN h1.position ELSE a.position

\* What has to be so for a direction to be taken, by the kind it is taken as.
LEMMA TakenAs ==
  ASSUME NEW e, NEW h1, NEW a, Classify(e, h1, a).allowed
  PROVE  \/ /\ Classify(e, h1, a).type = "CONTINUATION"
            /\ \/ h1.bias = e.wanted
               \/ h1.bias # e.wanted /\ h1.bias = "range" /\ a.bias = e.wanted
         \/ /\ Classify(e, h1, a).type = "RANGE_ROTATION"
            /\ h1.bias = "range"
            /\ IF e.wanted = "bullish" THEN HtfPosition(h1, a) <= 3800
                                       ELSE HtfPosition(h1, a) >= 6200
         \/ /\ Classify(e, h1, a).type = "REVERSAL"
            /\ h1.bias # e.wanted /\ h1.bias # "range"
  <1>1. \A type : Refused(type).allowed = FALSE
    BY DEF Refused
  <1>2. \A type, floor : Taken(type, floor, h1, a).type = type
    BY DEF Taken
  <1>3. TriggerQuality(e) >= 3500 \/ ~(TriggerQuality(e) >= 3500)
    OBVIOUS
  <1>4. CASE h1.bias = e.wanted
    BY <1>1, <1>2, <1>4 DEF Classify
  <1>5. CASE h1.bias # e.wanted /\ h1.bias # "range"
    BY <1>1, <1>2, <1>5 DEF Classify
  <1>6. CASE h1.bias # e.wanted /\ h1.bias = "range"
    <2>1. Classify(e, h1, a) = WithoutPrimaryBias(e, h1, a)
      BY <1>1, <1>6 DEF Classify
    <2>2. CASE /\ HtfPosition(h1, a) >= 0 /\ e.sweep # {}
               /\ IF e.wanted = "bullish" THEN HtfPosition(h1, a) <= 3800
                                          ELSE HtfPosition(h1, a) >= 6200
      <3>1. WithoutPrimaryBias(e, h1, a) = Taken("RANGE_ROTATION", 60, h1, a)
        BY <2>2 DEF WithoutPrimaryBias, HtfPosition
      <3> QED
        BY <1>2, <1>6, <2>1, <2>2, <3>1
    <2>3. CASE ~(/\ HtfPosition(h1, a) >= 0 /\ e.sweep # {}
                 /\ IF e.wanted = "bullish" THEN HtfPosition(h1, a) <= 3800
                                            ELSE HtfPosition(h1, a) >= 6200)
      <3>1. WithoutPrimaryBias(e, h1, a)
              = IF a.bias # e.wanted THEN Refused("NOISE")
                ELSE Taken("CONTINUATION", 60, h1, a)
        BY <2>3 DEF WithoutPrimaryBias, HtfPosition
      <3> QED
        BY <1>1, <1>2, <1>6, <2>1, <3>1
    <2> QED
      BY <2>2, <2>3
  <1> QED
    BY <1>4, <1>5, <1>6

\* At no chart, with no reading of H1, do both directions qualify as the same kind of
\* setup, so that mtf.decide's order of preference settles every tie.
THEOREM NoTwins == Spec => []NeverTheSameClassTwice
  <1>1. Charted => NeverTheSameClassTwice
    <2> SUFFICES ASSUME Charted, NEW h1 \in H1Readings,
                        NEW r \in Results(candles, analysis, h1),
                        NEW s \in Results(candles, analysis, h1),
                        r # s, r.class.type = s.class.type
                 PROVE  FALSE
      BY DEF NeverTheSameClassTwice
    <2> DEFINE Of(w) == [evidence |-> Evidence(candles, analysis, w),
                         class |-> Classify(Evidence(candles, analysis, w), h1, analysis)]
    <2>1. PICK v \in {"bullish", "bearish"} : r = Of(v)
      BY DEF Results
    <2>2. PICK w \in {"bullish", "bearish"} : s = Of(w)
      BY DEF Results
    <2>3. v # w
      BY <2>1, <2>2
    <2>4. r.class.allowed /\ s.class.allowed
      BY DEF Results
    <2> DEFINE e == Evidence(candles, analysis, v)
    <2> DEFINE f == Evidence(candles, analysis, w)
    <2>5. e.wanted = v /\ f.wanted = w
      BY EvidenceSide
    <2>6. /\ Classify(e, h1, analysis).allowed
          /\ Classify(f, h1, analysis).allowed
          /\ Classify(e, h1, analysis).type = Classify(f, h1, analysis).type
      BY <2>1, <2>2, <2>4
    <2>7. h1.bias \in {"bullish", "bearish", "range"} /\ HtfPosition(h1, analysis) \in Int
      <3>1. h1.bias \in {"bullish", "bearish", "range"} /\ h1.position \in Int
        BY StrategyAssumption
      <3>2. analysis.position = DealingPosition(candles)
        BY DEF Charted, Analyze
      <3> QED
        BY <3>1, <3>2, PositionType DEF Charted, HtfPosition
    <2> HIDE DEF e, f
    <2> QED
      BY <2>3, <2>5, <2>6, <2>7, TakenAs
  <1> QED
    BY <1>1, StaysCharted, PTL

-----------------------------------------------------------------------------
(* Sums over finite sets.                                                  *)

\* What the fold of the library computes on a subset s, given its values g on
\* smaller ones.
SumStep(v, g, s) == IF s = {} THEN 0 ELSE v[The(s)] + g[s \ {The(s)}]

SumOver(W, v, g) == g = [s \in SUBSET W |-> SumStep(v, g, s)]

SumsOn(W, v, D, g) == g \in [D -> Nat] /\ \A s \in D : g[s] = SumStep(v, g, s)

UpTo(W, n) == {s \in SUBSET W : Cardinality(s) <= n}

LEMMA SumsUpTo ==
  ASSUME NEW W, IsFiniteSet(W), NEW v \in [W -> Nat]
  PROVE  \A n \in 0..Cardinality(W) : \E g : SumsOn(W, v, UpTo(W, n), g)
  <1> DEFINE Bad == {n \in 0..Cardinality(W) : ~\E g : SumsOn(W, v, UpTo(W, n), g)}
  <1>1. SUFFICES ASSUME Bad # {} PROVE FALSE
    OBVIOUS
  <1>2. Cardinality(W) \in Nat
    BY FS_CardinalityType
  <1>3. PICK n \in Bad : \A m \in Bad : n <= m
    <2>1. IsFiniteSet(0..Cardinality(W))
      BY <1>2, FS_Interval
    <2>2. Bad \in SUBSET (0..Cardinality(W))
      OBVIOUS
    <2>3. \A m \in Bad : m \in Int
      OBVIOUS
    <2> HIDE DEF Bad
    <2>4. IsFiniteSet(Bad)
      BY <2>1, <2>2, FS_Subset
    <2> QED
      BY <1>1, <2>3, <2>4, MinOf
  <1>4. n \in Nat /\ n \in 0..Cardinality(W) /\ ~\E g : SumsOn(W, v, UpTo(W, n), g)
    BY <1>2
  <1>5. \A s \in SUBSET W : /\ IsFiniteSet(s) /\ Cardinality(s) \in Nat
                            /\ Cardinality(s) = 0 <=> s = {}
    BY FS_Subset, FS_CardinalityType, FS_EmptySet
  <1>6. \A s \in SUBSET W : s # {} =>
          /\ The(s) \in s /\ s \ {The(s)} \in SUBSET W
          /\ Cardinality(s \ {The(s)}) = Cardinality(s) - 1
    BY <1>5, FS_RemoveElement DEF The
  <1>7. CASE n = 0
    <2>1. UpTo(W, n) = {{}}
      BY <1>5, <1>7 DEF UpTo
    <2>2. SumsOn(W, v, UpTo(W, n), [s \in {{}} |-> 0])
      BY <2>1 DEF SumsOn, SumStep
    <2> QED
      BY <1>4, <2>2
  <1>8. CASE n # 0
    <2>1. n - 1 \in 0..Cardinality(W) /\ n - 1 \notin Bad
      BY <1>2, <1>3, <1>4, <1>8
    <2>2. PICK g : SumsOn(W, v, UpTo(W, n - 1), g)
      BY <2>1
    <2> DEFINE h == [s \in UpTo(W, n) |-> IF s \in UpTo(W, n - 1) THEN g[s]
                                          ELSE SumStep(v, g, s)]
    <2>3. ASSUME NEW s \in UpTo(W, n), s # {}
          PROVE  /\ s \ {The(s)} \in UpTo(W, n - 1) /\ s \ {The(s)} \in UpTo(W, n)
                 /\ h[s \ {The(s)}] = g[s \ {The(s)}]
      <3>1. s \in SUBSET W /\ Cardinality(s) <= n /\ Cardinality(s) \in Nat
        BY <1>5 DEF UpTo
      <3>2. s \ {The(s)} \in UpTo(W, n - 1) /\ s \ {The(s)} \in UpTo(W, n)
        BY <1>4, <1>5, <1>6, <2>3, <3>1 DEF UpTo
      <3> QED
        BY <3>2
    <2>4. ASSUME NEW s \in UpTo(W, n)
          PROVE  h[s] \in Nat /\ h[s] = SumStep(v, h, s)
      <3>1. h[s] = SumStep(v, g, s)
        BY <2>2 DEF SumsOn
      <3>2. SumStep(v, g, s) = SumStep(v, h, s)
        BY <2>3 DEF SumStep
      <3>3. SumStep(v, g, s) \in Nat
        <4>1. CASE s = {}
          BY <4>1 DEF SumStep
        <4>2. CASE s # {}
          <5>1. The(s) \in W
            BY <1>6, <4>2 DEF UpTo
          <5>2. g[s \ {The(s)}] \in Nat
            BY <2>2, <2>3, <4>2 DEF SumsOn
          <5> QED
            BY <4>2, <5>1, <5>2 DEF SumStep
        <4> QED
          BY <4>1, <4>2
      <3> QED
        BY <3>1, <3>2, <3>3
    <2>5. SumsOn(W, v, UpTo(W, n), h)
      <3>1. h \in [UpTo(W, n) -> Nat]
        BY <2>4
      <3> HIDE DEF h
      <3> QED
        BY <2>4, <3>1 DEF SumsOn
    <2> QED
      BY <1>4, <2>5
  <1> QED
    BY <1>7, <1>8

\* The recursive function behind the fold exists, and its values are sums.
LEMMA SumsExist ==
  ASSUME NEW W, IsFiniteSet(W), NEW v \in [W -> Nat]
  PROVE  \E g : SumOver(W, v, g)
  <1>1. Cardinality(W) \in Nat
    BY FS_CardinalityType
  <1>2. UpTo(W, Cardinality(W)) = SUBSET W
    BY <1>1, FS_Subset DEF UpTo
  <1>3. PICK g : SumsOn(W, v, SUBSET W, g)
    <2>1. Cardinality(W) \in 0..Cardinality(W)
      BY <1>1
    <2>2. \E g : SumsOn(W, v, UpTo(W, Cardinality(W)), g)
      BY <2>1, SumsUpTo
    <2> QED
      BY <1>2, <2>2
  <1>4. SumOver(W, v, g)
    BY <1>3 DEF SumsOn, SumOver
  <1> QED
    BY <1>4

LEMMA SumsAreNat ==
  ASSUME NEW W, IsFiniteSet(W), NEW v \in [W -> Nat],
         NEW g, SumOver(W, v, g)
  PROVE  g[W] \in Nat
  <1> DEFINE Bad == {s \in SUBSET W : g[s] \notin Nat}
  <1>0. \A s \in SUBSET W : g[s] = SumStep(v, g, s)
    BY DEF SumOver
  <1>1. SUFFICES ASSUME Bad # {} PROVE FALSE
    OBVIOUS
  <1>2. PICK T \in Bad : \A U \in Bad : U \subseteq T => U = T
    <2>1. Bad \in SUBSET SUBSET W
      OBVIOUS
    <2> HIDE DEF Bad
    <2> QED
      BY <1>1, <2>1, SmallestSubset
  <1>3. T \in SUBSET W /\ g[T] \notin Nat /\ g[T] = SumStep(v, g, T)
    BY <1>0
  <1>4. T # {}
    BY <1>3 DEF SumStep
  <1>5. The(T) \in T
    BY <1>4 DEF The
  <1>6. T \ {The(T)} \in SUBSET W /\ T \ {The(T)} \notin Bad
    BY <1>2, <1>3, <1>5
  <1>7. g[T \ {The(T)}] \in Nat /\ v[The(T)] \in Nat
    BY <1>3, <1>5, <1>6
  <1> QED
    BY <1>3, <1>4, <1>7 DEF SumStep

\* Two such functions agree on the whole.
LEMMA SumsAgree ==
  ASSUME NEW W, IsFiniteSet(W), NEW v,
         NEW g, SumOver(W, v, g), NEW h, SumOver(W, v, h)
  PROVE  g[W] = h[W]
  <1> DEFINE Bad == {s \in SUBSET W : g[s] # h[s]}
  <1>0. \A s \in SUBSET W : g[s] = SumStep(v, g, s) /\ h[s] = SumStep(v, h, s)
    BY DEF SumOver
  <1>1. SUFFICES ASSUME Bad # {} PROVE FALSE
    OBVIOUS
  <1>2. PICK T \in Bad : \A U \in Bad : U \subseteq T => U = T
    <2>1. Bad \in SUBSET SUBSET W
      OBVIOUS
    <2> HIDE DEF Bad
    <2> QED
      BY <1>1, <2>1, SmallestSubset
  <1>3. /\ T \in SUBSET W /\ g[T] # h[T]
        /\ g[T] = SumStep(v, g, T) /\ h[T] = SumStep(v, h, T)
    BY <1>0
  <1>4. T # {}
    BY <1>3 DEF SumStep
  <1>5. The(T) \in T
    BY <1>4 DEF The
  <1>6. T \ {The(T)} \in SUBSET W /\ T \ {The(T)} \notin Bad
    BY <1>2, <1>3, <1>5
  <1>7. g[T \ {The(T)}] = h[T \ {The(T)}]
    BY <1>6
  <1> QED
    BY <1>3, <1>7 DEF SumStep

-----------------------------------------------------------------------------
(* The average true range.                                                 *)

Valid(cs) == \A i \in DOMAIN cs : ValidCandle(cs[i])

LEMMA CandleShape ==
  ASSUME NEW cs \in Seq(Prices), Valid(cs), NEW i \in DOMAIN cs
  PROVE  /\ cs[i].low <= cs[i].open /\ cs[i].low <= cs[i].close
         /\ cs[i].open <= cs[i].high /\ cs[i].close <= cs[i].high
         /\ cs[i].low <= cs[i].high
  <1> DEFINE c == cs[i]
  <1>1. c.open \in Int /\ c.close \in Int /\ c.high \in Int /\ c.low \in Int
    BY CandleAt
  <1>2. c.low <= Min({c.open, c.close}) /\ Max({c.open, c.close}) <= c.high
    BY DEF Valid, ValidCandle
  <1> HIDE DEF c
  <1>3. /\ Min({c.open, c.close}) = IF c.open <= c.close THEN c.open ELSE c.close
        /\ Max({c.open, c.close}) = IF c.open >= c.close THEN c.open ELSE c.close
    BY <1>1, MinPair, MaxPair
  <1>4. /\ c.low <= c.open /\ c.low <= c.close /\ c.open <= c.high
        /\ c.close <= c.high /\ c.low <= c.high
    BY <1>1, <1>2, <1>3
  <1> QED
    BY <1>4 DEF c

LEMMA AbsIsNat ==
  ASSUME NEW x \in Int
  PROVE  Abs(x) \in Nat
  BY DEF Abs

LEMMA MaxOfThree ==
  ASSUME NEW a \in Nat, NEW b \in Nat, NEW c \in Nat
  PROVE  Max({a, b, c}) \in Nat
  <1>1. \E x \in {a, b, c} : \A y \in {a, b, c} : x >= y
    OBVIOUS
  <1>2. Max({a, b, c}) \in {a, b, c}
    BY <1>1 DEF Max
  <1> QED
    BY <1>2

LEMMA TrueRangeIsNat ==
  ASSUME NEW cs \in Seq(Prices), Valid(cs), NEW i \in DOMAIN cs
  PROVE  TrueRange(cs, i) \in Nat
  <1>1. \A j \in DOMAIN cs : Span(cs[j]) \in Nat
    BY CandleAt, CandleShape DEF Span
  <1>2. CASE i = 1
    BY <1>1, <1>2 DEF TrueRange
  <1>3. CASE i # 1
    <2>1. i - 1 \in DOMAIN cs
      BY <1>3
    <2>2. /\ cs[i].high - cs[i - 1].close \in Int
          /\ cs[i].low - cs[i - 1].close \in Int
      BY <2>1, CandleAt
    <2>3. /\ Abs(cs[i].high - cs[i - 1].close) \in Nat
          /\ Abs(cs[i].low - cs[i - 1].close) \in Nat
      BY <2>2, AbsIsNat
    <2> QED
      BY <1>1, <1>3, <2>3, MaxOfThree DEF TrueRange
  <1> QED
    BY <1>2, <1>3

\* The sum of the true ranges is the value of a recursive function, which exists.
RangeSum(cs, W) == LET TR(j) == TrueRange(cs, j) IN Sum(TR, W)
Ranges(cs, W) == [j \in W |-> TrueRange(cs, j)]

LEMMA RangesSum ==
  ASSUME NEW cs \in Seq(Prices), Valid(cs), NEW W, W \subseteq DOMAIN cs
  PROVE  /\ RangeSum(cs, W) \in Nat
         /\ IsFiniteSet(W)
         /\ \E g : SumOver(W, Ranges(cs, W), g) /\ RangeSum(cs, W) = g[W]
  <1> DEFINE TR(j) == TrueRange(cs, j)
  <1> DEFINE v == [j \in W |-> TrueRange(cs, j)]
  <1> DEFINE Part(g, s) == IF s = {} THEN 0 ELSE TrueRange(cs, The(s)) + g[s \ {The(s)}]
  <1>1. Sum(TR, W) = (CHOOSE g : g = [s \in SUBSET W |-> Part(g, s)])[W]
    BY DEF Sum, MapThenSumSet, MapThenFoldSet, The
  <1>2. IsFiniteSet(W)
    <2>1. Len(cs) \in Nat /\ W \in SUBSET (1..Len(cs))
      OBVIOUS
    <2> QED
      BY <2>1, SomePositions
  <1>3. v \in [W -> Nat]
    BY TrueRangeIsNat
  <1>4. \A g, s : s \in SUBSET W => SumStep(v, g, s) = Part(g, s)
    BY DEF SumStep, The
  <1>5. \A g : SumOver(W, v, g) <=> g = [s \in SUBSET W |-> Part(g, s)]
    <2> HIDE DEF Part, v
    <2> QED  BY <1>4 DEF SumOver
  <1> HIDE DEF v, Part
  <1>6. \E g : g = [s \in SUBSET W |-> Part(g, s)]
    <2>1. PICK g : SumOver(W, v, g)
      BY <1>2, <1>3, SumsExist
    <2> QED
      BY <1>5, <2>1
  <1> DEFINE G == CHOOSE g : g = [s \in SUBSET W |-> Part(g, s)]
  <1>7. G = [s \in SUBSET W |-> Part(G, s)]
    BY <1>6
  <1> HIDE DEF G
  <1>8. SumOver(W, v, G)
    BY <1>5, <1>7
  <1>9. G[W] \in Nat
    BY <1>2, <1>3, <1>8, SumsAreNat
  <1>10. RangeSum(cs, W) = G[W]
    BY <1>1 DEF G, RangeSum
  <1>11. v = Ranges(cs, W)
    BY DEF v, Ranges
  <1> QED
    BY <1>2, <1>8, <1>9, <1>10, <1>11

LEMMA AtrIsNat ==
  ASSUME NEW cs \in Seq(Prices), Valid(cs), NEW i \in DOMAIN cs
  PROVE  Atr(cs, i) \in Nat
  <1> DEFINE from == Max({1, i - AtrPeriod + 1})
  <1>1. i \in Nat \ {0} /\ i <= Len(cs) /\ Len(cs) \in Nat
    OBVIOUS
  <1>2. from \in 1..i
    BY <1>1, MaxPair, ChartAssumption
  <1>3. Atr(cs, i) = RangeSum(cs, from..i) \div (i - from + 1)
    BY DEF Atr, RangeSum
  <1> HIDE DEF from
  <1>4. from..i \subseteq DOMAIN cs
    BY <1>1, <1>2
  <1>5. RangeSum(cs, from..i) \in Nat
    BY <1>4, RangesSum
  <1>6. i - from + 1 \in Nat \ {0}
    BY <1>1, <1>2
  <1>7. \A x \in Nat, y \in Nat \ {0} : x \div y \in Nat
    OBVIOUS
  <1> QED
    BY <1>3, <1>5, <1>6, <1>7

-----------------------------------------------------------------------------
(* Displacements and the walk over the candles.                            *)

Grades == 0..One

LEMMA PercentIsInt ==
  ASSUME NEW p \in Int, NEW x \in Int
  PROVE  Percent(p, x) \in Int
  BY DEF Percent

LEMMA PercentIsNat ==
  ASSUME NEW p \in Nat, NEW x \in Nat
  PROVE  Percent(p, x) \in Nat
  BY DEF Percent

LEMMA GradeIsInt ==
  ASSUME NEW x \in Int
  PROVE  Capped(x) \in Int
  <1>1. Capped(x) \in 0..One
    BY Grade
  <1>2. \A y \in 0..One : y \in Int
    BY DEF One
  <1> QED
    BY <1>1, <1>2

LEMMA DisplacementGrade ==
  ASSUME NEW cs \in Seq(Prices), Valid(cs), NEW i \in DOMAIN cs
  PROVE  DisplacementQuality(cs, i) \in Grades
  <1> DEFINE multiple == Ratio(10 * Body(cs[i]), 26 * Atr(cs, i))
  <1> DEFINE ratio == Ratio(Body(cs[i]), Span(cs[i]))
  <1> DEFINE firmness == (100 * (ratio - 5500)) \div 45
  <1>1. Body(cs[i]) \in Nat /\ Span(cs[i]) \in Nat /\ Atr(cs, i) \in Nat
    <2>1. cs[i].close - cs[i].open \in Int
      BY CandleAt
    <2>2. Span(cs[i]) \in Nat
      BY CandleAt, CandleShape DEF Span
    <2> QED
      BY <2>1, <2>2, AbsIsNat, AtrIsNat DEF Body
  <1>2. multiple \in Int /\ ratio \in Int
    <2>1. 10 * Body(cs[i]) \in Int /\ 26 * Atr(cs, i) \in Nat /\ Body(cs[i]) \in Int
      BY <1>1
    <2> QED
      BY <1>1, <2>1, RatioIsInt
  <1> HIDE DEF multiple, ratio
  <1>3. firmness \in Int
    BY <1>2
  <1> HIDE DEF firmness
  <1>4. /\ Percent(45, Capped(multiple)) \in Int
        /\ Percent(35, Capped(firmness)) \in Int
    <2>1. Capped(multiple) \in Int /\ Capped(firmness) \in Int
      BY <1>2, <1>3, GradeIsInt
    <2>2. Percent(45, Capped(multiple)) \in Int
      BY <2>1, PercentIsInt, 45 \in Int
    <2>3. Percent(35, Capped(firmness)) \in Int
      BY <2>1, PercentIsInt, 35 \in Int
    <2> QED
      BY <2>2, <2>3
  <1>5. DisplacementQuality(cs, i)
          = Capped(Percent(45, Capped(multiple)) + Percent(35, Capped(firmness))
                   + (IF LeavesGap(cs, i) THEN 2000 ELSE 500))
    BY DEF DisplacementQuality, multiple, ratio, firmness
  <1>6. Percent(45, Capped(multiple)) + Percent(35, Capped(firmness))
          + (IF LeavesGap(cs, i) THEN 2000 ELSE 500) \in Int
    BY <1>4
  <1> QED
    BY <1>5, <1>6, Grade DEF Grades

\* The latest of some positions, if there are any.
LEMMA LatestOfSome ==
  ASSUME NEW n \in Nat, NEW S \in SUBSET (1..n)
  PROVE  /\ S = {} => Latest(S) = None
         /\ S # {} => Latest(S) \in S /\ \A j \in S : Latest(S) >= j
         /\ Latest(S) # None => Latest(S) \in S
         /\ Latest(S) \in Nat
  <1>1. CASE S = {}
    BY <1>1 DEF Latest, None
  <1>2. CASE S # {}
    <2>1. Max(S) \in S /\ \A j \in S : Max(S) >= j
      BY <1>2, SomePositions, MaxOf
    <2>2. Latest(S) = Max(S)
      BY <1>2 DEF Latest
    <2>3. Latest(S) \in 1..n
      BY <2>1, <2>2
    <2> QED
      BY <1>2, <2>1, <2>2, <2>3
  <1> QED
    BY <1>1, <1>2

LEMMA KnownPoints ==
  ASSUME NEW cs \in Seq(Prices), NEW i \in DOMAIN cs
  PROVE  /\ Known(SwingHighs(cs), i) \in SUBSET (1..(i - 1))
         /\ Known(SwingLows(cs), i) \in SUBSET (1..(i - 1))
         /\ i - 1 \in Nat
  <1>1. Inner(cs) \subseteq Int /\ \A p \in Inner(cs) : p >= 1
    BY ChartAssumption DEF Inner
  <1>2. SwingHighs(cs) \subseteq Inner(cs) /\ SwingLows(cs) \subseteq Inner(cs)
    BY DEF SwingHighs, SwingLows
  <1>3. ASSUME NEW S \in SUBSET Inner(cs) PROVE Known(S, i) \in SUBSET (1..(i - 1))
    BY <1>1, ChartAssumption DEF Known
  <1> QED
    BY <1>2, <1>3

Break_ == [index: Nat, direction: {"bullish", "bearish"}, type: {"CHoCH", "BOS"},
           level: Nat, price: Int, displaced: BOOLEAN, quality: Grades, clearance: Int]

Walks == [events: SUBSET Break_, broken: SUBSET ({"high", "low"} \X Nat),
          trend: {"none", "bullish", "bearish"}]

\* After candle i the walk has found at most one break on each candle so far, of an
\* earlier level.
WalkedTo(w, i) ==
  /\ w \in Walks
  /\ \A e \in w.events : e.index \in 1..i /\ e.level \in 1..(e.index - 1)
  /\ \A e, f \in w.events : e.index = f.index => e = f

LEMMA BreakType ==
  ASSUME NEW cs \in Seq(Prices), Valid(cs), NEW moves \in SUBSET DOMAIN cs,
         NEW i \in DOMAIN cs, NEW l \in DOMAIN cs,
         NEW d \in {"bullish", "bearish"}, NEW trend
  PROVE  Break(cs, i, l, d, trend, moves) \in Break_
  <1> DEFINE move == Latest(moves \cap {i - 1, i})
  <1> DEFINE price == IF d = "bullish" THEN cs[l].high ELSE cs[l].low
  <1> DEFINE quality == IF move = None THEN 0 ELSE DisplacementQuality(cs, move)
  <1> DEFINE clearance == Ratio(Abs(cs[i].close - price), Atr(cs, i))
  <1>1. Len(cs) \in Nat /\ moves \cap {i - 1, i} \in SUBSET (1..Len(cs))
    OBVIOUS
  <1>2. move # None => move \in DOMAIN cs
    BY <1>1, LatestOfSome
  <1>3. quality \in Grades
    <2>1. 0 \in Grades
      BY DEF Grades, One
    <2> QED
      BY <1>2, <2>1, DisplacementGrade
  <1>4. price \in Int /\ cs[i].close \in Int
    BY CandleAt
  <1>5. clearance \in Int
    <2> HIDE DEF price
    <2>1. cs[i].close - price \in Int
      BY <1>4
    <2>2. Abs(cs[i].close - price) \in Nat
      BY <2>1, AbsIsNat
    <2>3. Abs(cs[i].close - price) \in Int /\ Atr(cs, i) \in Nat
      BY <2>2, AtrIsNat
    <2> QED
      BY <2>3, RatioIsInt
  <1>6. Break(cs, i, l, d, trend, moves)
          = [index |-> i, direction |-> d,
             type |-> IF trend = Opposite(d) THEN "CHoCH" ELSE "BOS",
             level |-> l, price |-> price, displaced |-> move # None,
             quality |-> quality, clearance |-> clearance]
    BY DEF Break
  <1>7. i \in Nat /\ l \in Nat
    OBVIOUS
  <1> HIDE DEF move, price, quality, clearance
  <1> QED
    BY <1>3, <1>4, <1>5, <1>6, <1>7 DEF Break_

LEMMA WalkAdds ==
  ASSUME NEW i \in Nat \ {0}, NEW w, WalkedTo(w, i - 1), NEW b \in Break_,
         b.index = i, b.level \in 1..(i - 1), NEW t \in {"high", "low"}, NEW p \in Nat,
         NEW trend \in {"none", "bullish", "bearish"}
  PROVE  WalkedTo([events |-> w.events \cup {b}, broken |-> w.broken \cup {<<t, p>>},
                   trend |-> trend], i)
  <1> DEFINE x == [events |-> w.events \cup {b}, broken |-> w.broken \cup {<<t, p>>},
                   trend |-> trend]
  <1>1. x \in Walks
    BY DEF WalkedTo, Walks
  <1>2. \A e \in w.events : e.index # i /\ e.index \in 1..i
    BY DEF WalkedTo
  <1>3. \A e \in x.events : e.index \in 1..i /\ e.level \in 1..(e.index - 1)
    BY <1>2 DEF WalkedTo
  <1>4. \A e, f \in x.events : e.index = f.index => e = f
    BY <1>2 DEF WalkedTo
  <1> HIDE DEF x
  <1>5. WalkedTo(x, i)
    BY <1>1, <1>3, <1>4 DEF WalkedTo
  <1> QED
    BY <1>5 DEF x

LEMMA WalkStays ==
  ASSUME NEW i \in Nat \ {0}, NEW w, WalkedTo(w, i - 1),
         NEW trend \in {"none", "bullish", "bearish"}
  PROVE  WalkedTo(w, i) /\ WalkedTo([w EXCEPT !.trend = trend], i)
  <1>1. \A e \in w.events : e.index \in 1..i
    BY DEF WalkedTo
  <1>2. WalkedTo(w, i)
    BY <1>1 DEF WalkedTo
  <1> DEFINE x == [w EXCEPT !.trend = trend]
  <1>3. x \in Walks /\ x.events = w.events
    BY DEF WalkedTo, Walks
  <1> HIDE DEF x
  <1>4. WalkedTo(x, i)
    BY <1>2, <1>3 DEF WalkedTo
  <1> QED
    BY <1>2, <1>4 DEF x

LEMMA SwingBiasType ==
  ASSUME NEW cs, NEW highs, NEW lows
  PROVE  SwingBias(cs, highs, lows) \in {"bullish", "bearish", "range"}
  BY DEF SwingBias

LEMMA WalkOnKeeps ==
  ASSUME NEW cs \in Seq(Prices), Valid(cs), NEW moves \in SUBSET DOMAIN cs,
         NEW i \in DOMAIN cs, NEW w, WalkedTo(w, i - 1)
  PROVE  WalkedTo(WalkOn(cs, moves, w, i), i)
  <1>0. \A from : \A p \in DOMAIN cs, d \in {"bullish", "bearish"} :
          LET b == Break(cs, i, p, d, from, moves)
          IN  b \in Break_ /\ b.index = i /\ b.level = p
    <2> SUFFICES ASSUME NEW from, NEW p \in DOMAIN cs, NEW d \in {"bullish", "bearish"}
                 PROVE  LET b == Break(cs, i, p, d, from, moves)
                        IN  b \in Break_ /\ b.index = i /\ b.level = p
      OBVIOUS
    <2>1. Break(cs, i, p, d, from, moves) \in Break_
      BY BreakType
    <2>2. Break(cs, i, p, d, from, moves).index = i
      BY DEF Break
    <2>3. Break(cs, i, p, d, from, moves).level = p
      BY DEF Break
    <2> QED
      BY <2>1, <2>2, <2>3
  <1> DEFINE a == Atr(cs, i)
  <1> DEFINE buffer == Percent(8, a)
  <1> DEFINE highs == Known(SwingHighs(cs), i)
  <1> DEFINE lows == Known(SwingLows(cs), i)
  <1> DEFINE bias == SwingBias(cs, highs, lows)
  <1> DEFINE trend == IF w.trend # "none" THEN w.trend
                      ELSE IF bias = "range" THEN "none" ELSE bias
  <1> DEFINE h == Latest({p \in highs : <<"high", p>> \notin w.broken})
  <1> DEFINE l == Latest({p \in lows : <<"low", p>> \notin w.broken})
  <1> DEFINE up == h # None /\ cs[i].close > cs[h].high + buffer
  <1> DEFINE down == l # None /\ cs[i].close < cs[l].low - buffer
  <1> DEFINE rise == [events |-> w.events \cup {Break(cs, i, h, "bullish", trend, moves)},
                      broken |-> w.broken \cup {<<"high", h>>}, trend |-> "bullish"]
  <1> DEFINE fall == [events |-> w.events \cup {Break(cs, i, l, "bearish", trend, moves)},
                      broken |-> w.broken \cup {<<"low", l>>}, trend |-> "bearish"]
  <1>1. WalkOn(cs, moves, w, i)
          = CASE a <= 0 -> w
              [] a > 0 /\ up -> rise
              [] a > 0 /\ ~up /\ down -> fall
              [] OTHER -> [w EXCEPT !.trend = trend]
    BY DEF WalkOn
  <1>2. i \in Nat \ {0} /\ \A p \in 1..(i - 1) : p \in DOMAIN cs
    OBVIOUS
  <1>3. h # None => h \in 1..(i - 1)
    BY KnownPoints, LatestOfSome
  <1>4. l # None => l \in 1..(i - 1)
    BY KnownPoints, LatestOfSome
  <1>5. trend \in {"none", "bullish", "bearish"}
    BY SwingBiasType DEF WalkedTo, Walks
  <1>6. a \in Nat
    BY AtrIsNat
  <1>7. up => WalkedTo(rise, i)
    <2>1. ASSUME up PROVE h \in DOMAIN cs /\ h \in 1..(i - 1)
      BY <1>2, <1>3, <2>1
    <2> HIDE DEF h, trend
    <2>2. ASSUME h \in DOMAIN cs, h \in 1..(i - 1) PROVE WalkedTo(rise, i)
      <3> DEFINE b == Break(cs, i, h, "bullish", trend, moves)
      <3>1. b \in Break_ /\ b.index = i /\ b.level = h
        BY <1>0, <2>2
      <3> HIDE DEF b
      <3>2. h \in Nat
        BY <2>2
      <3>3. WalkedTo([events |-> w.events \cup {b}, broken |-> w.broken \cup {<<"high", h>>},
                      trend |-> "bullish"], i)
        BY <1>2, <2>2, <3>1, <3>2, WalkAdds
      <3> QED
        BY <3>3 DEF b
    <2> QED
      BY <2>1, <2>2
  <1>8. down => WalkedTo(fall, i)
    <2>1. ASSUME down PROVE l \in DOMAIN cs /\ l \in 1..(i - 1)
      BY <1>2, <1>4, <2>1
    <2> HIDE DEF l, trend
    <2>2. ASSUME l \in DOMAIN cs, l \in 1..(i - 1) PROVE WalkedTo(fall, i)
      <3> DEFINE b == Break(cs, i, l, "bearish", trend, moves)
      <3>1. b \in Break_ /\ b.index = i /\ b.level = l
        BY <1>0, <2>2
      <3> HIDE DEF b
      <3>2. l \in Nat
        BY <2>2
      <3>3. WalkedTo([events |-> w.events \cup {b}, broken |-> w.broken \cup {<<"low", l>>},
                      trend |-> "bearish"], i)
        BY <1>2, <2>2, <3>1, <3>2, WalkAdds
      <3> QED
        BY <3>3 DEF b
    <2> QED
      BY <2>1, <2>2
  <1> HIDE DEF a, h, l, up, down, rise, fall, trend
  <1>9. WalkedTo(w, i) /\ WalkedTo([w EXCEPT !.trend = trend], i)
    BY <1>2, <1>5, WalkStays
  <1> QED
    BY <1>1, <1>6, <1>7, <1>8, <1>9

\* The walk as far as candle n.
WalkFrom(cs, moves, g, i) ==
  IF i = 0 THEN [events |-> {}, broken |-> {}, trend |-> "none"]
  ELSE WalkOn(cs, moves, g[i - 1], i)

WalkUpTo(cs, moves, n, g) == g = [i \in 0..n |-> WalkFrom(cs, moves, g, i)]

LEMMA WalksExist ==
  ASSUME NEW N \in Nat, NEW cs, NEW moves
  PROVE  \E g : WalkUpTo(cs, moves, N, g)
  <1> DEFINE Bad == {n \in 0..N : ~\E g : WalkUpTo(cs, moves, n, g)}
  <1>1. SUFFICES ASSUME Bad # {} PROVE FALSE
    BY N \in 0..N
  <1>2. PICK n \in Bad : \A m \in Bad : n <= m
    <2>1. Bad \in SUBSET (0..N) /\ \A m \in Bad : m \in Int
      OBVIOUS
    <2>2. IsFiniteSet(0..N)
      BY FS_Interval
    <2> HIDE DEF Bad
    <2>3. IsFiniteSet(Bad)
      BY <2>1, <2>2, FS_Subset
    <2> QED
      BY <1>1, <2>1, <2>3, MinOf
  <1>3. n \in 0..N /\ ~\E g : WalkUpTo(cs, moves, n, g)
    OBVIOUS
  <1>4. CASE n = 0
    <2> DEFINE g == [i \in 0..n |-> WalkFrom(cs, moves, <<>>, i)]
    <2>1. WalkUpTo(cs, moves, n, g)
      BY <1>4 DEF WalkUpTo, WalkFrom
    <2> QED
      BY <1>3, <2>1
  <1>5. CASE n # 0
    <2>1. n - 1 \in 0..N /\ n - 1 \notin Bad
      BY <1>2, <1>3, <1>5
    <2>2. PICK g : WalkUpTo(cs, moves, n - 1, g)
      BY <2>1
    <2> DEFINE h == [i \in 0..n |-> IF i = n THEN WalkOn(cs, moves, g[n - 1], n) ELSE g[i]]
    <2>3. ASSUME NEW i \in 0..n PROVE h[i] = WalkFrom(cs, moves, h, i)
      <3>1. i = n \/ i \in 0..(n - 1)
        BY <1>3
      <3>2. i # 0 => i - 1 \in 0..(n - 1) /\ i - 1 \in 0..n /\ h[i - 1] = g[i - 1]
        BY <1>3
      <3>3. CASE i = n
        BY <1>5, <3>2, <3>3 DEF WalkFrom
      <3>4. CASE i # n
        <4>1. g[i] = WalkFrom(cs, moves, g, i)
          BY <2>2, <3>1, <3>4 DEF WalkUpTo
        <4>2. h[i] = g[i]
          BY <3>4
        <4> HIDE DEF h
        <4> QED
          BY <3>2, <4>1, <4>2 DEF WalkFrom
      <3> QED
        BY <3>3, <3>4
    <2>4. WalkUpTo(cs, moves, n, h)
      BY <2>3 DEF WalkUpTo
    <2> QED
      BY <1>3, <2>4
  <1> QED
    BY <1>4, <1>5

Walk(cs, moves) == CHOOSE g : WalkUpTo(cs, moves, Len(cs), g)

LEMMA EventsAreWalked ==
  ASSUME NEW cs \in Seq(Prices), NEW moves
  PROVE  /\ StructureEvents(cs, moves) = Walk(cs, moves)[Len(cs)].events
         /\ \A i \in 0..Len(cs) : Walk(cs, moves)[i] = WalkFrom(cs, moves, Walk(cs, moves), i)
  <1>1. StructureEvents(cs, moves) = Walk(cs, moves)[Len(cs)].events
    BY DEF StructureEvents, Walk, WalkUpTo, WalkFrom
  <1>2. WalkUpTo(cs, moves, Len(cs), Walk(cs, moves))
    BY WalksExist, Len(cs) \in Nat DEF Walk
  <1>3. \A i \in 0..Len(cs) : Walk(cs, moves)[i] = WalkFrom(cs, moves, Walk(cs, moves), i)
    BY <1>2 DEF WalkUpTo
  <1> QED
    BY <1>1, <1>3

LEMMA WalkTypes ==
  ASSUME NEW cs \in Seq(Prices), Valid(cs), NEW moves \in SUBSET DOMAIN cs
  PROVE  \A i \in 0..Len(cs) : WalkedTo(Walk(cs, moves)[i], i)
  <1> DEFINE w == Walk(cs, moves)
  <1> DEFINE Bad == {i \in 0..Len(cs) : ~WalkedTo(w[i], i)}
  <1>1. SUFFICES ASSUME Bad # {} PROVE FALSE
    OBVIOUS
  <1>2. PICK n \in Bad : \A m \in Bad : n <= m
    <2>1. Bad \in SUBSET (0..Len(cs)) /\ \A m \in Bad : m \in Int
      OBVIOUS
    <2>2. IsFiniteSet(0..Len(cs))
      BY FS_Interval
    <2> HIDE DEF Bad
    <2>3. IsFiniteSet(Bad)
      BY <2>1, <2>2, FS_Subset
    <2> QED
      BY <1>1, <2>1, <2>3, MinOf
  <1>3. n \in 0..Len(cs) /\ ~WalkedTo(w[n], n) /\ w[n] = WalkFrom(cs, moves, w, n)
    BY EventsAreWalked
  <1>4. CASE n = 0
    <2>1. w[n] = [events |-> {}, broken |-> {}, trend |-> "none"]
      BY <1>3, <1>4 DEF WalkFrom
    <2> HIDE DEF w
    <2>2. WalkedTo(w[n], n)
      BY <2>1 DEF WalkedTo, Walks
    <2> QED
      BY <1>3, <2>2
  <1>5. CASE n # 0
    <2>1. n \in DOMAIN cs /\ n - 1 \in 0..Len(cs) /\ n - 1 \notin Bad
      BY <1>2, <1>3, <1>5
    <2>2. WalkedTo(w[n - 1], n - 1)
      BY <2>1
    <2>3. WalkedTo(WalkOn(cs, moves, w[n - 1], n), n)
      BY <2>1, <2>2, WalkOnKeeps
    <2> QED
      BY <1>3, <1>5, <2>3 DEF WalkFrom
  <1> QED
    BY <1>4, <1>5

\* Every break of structure lies on the chart, at most one on a candle, and breaks an
\* earlier level.
LEMMA EventTypes ==
  ASSUME NEW cs \in Seq(Prices), Valid(cs), NEW moves \in SUBSET DOMAIN cs
  PROVE  /\ StructureEvents(cs, moves) \subseteq Break_
         /\ \A e \in StructureEvents(cs, moves) :
              e.index \in DOMAIN cs /\ e.level \in 1..(e.index - 1)
         /\ \A e, f \in StructureEvents(cs, moves) : e.index = f.index => e = f
  <1>1. Len(cs) \in 0..Len(cs)
    OBVIOUS
  <1>2. WalkedTo(Walk(cs, moves)[Len(cs)], Len(cs))
    BY <1>1, WalkTypes
  <1> QED
    BY <1>2, EventsAreWalked DEF WalkedTo, Walks

-----------------------------------------------------------------------------
(* Zones.                                                                  *)

\* A candle that trades through the far edge of a zone.
Through(cs, z, p) == IF z.direction = "bullish" THEN cs[p].low <= z.lower
                                                ELSE cs[p].high >= z.upper

LEMMA SpentIs ==
  ASSUME NEW cs \in Seq(Prices), NEW z, NEW from \in Nat
  PROVE  /\ \/ Spent(cs, z, from) = None
               /\ \A p \in (from + 1)..Len(cs) : ~Through(cs, z, p)
            \/ /\ Spent(cs, z, from) \in (from + 1)..Len(cs)
               /\ Through(cs, z, Spent(cs, z, from))
               /\ \A p \in (from + 1)..Len(cs) : Through(cs, z, p) => Spent(cs, z, from) <= p
  <1> DEFINE hits == {p \in (from + 1)..Len(cs) : Through(cs, z, p)}
  <1>1. Spent(cs, z, from) = IF hits = {} THEN None ELSE Min(hits)
    BY DEF Spent, Through
  <1>2. CASE hits = {}
    BY <1>1, <1>2
  <1>3. CASE hits # {}
    <2>1. Len(cs) \in Nat /\ hits \in SUBSET (1..Len(cs))
      OBVIOUS
    <2>2. IsFiniteSet(hits) /\ \A p \in hits : p \in Int
      <3> HIDE DEF hits
      <3> QED  BY <2>1, SomePositions
    <2>3. Min(hits) \in hits /\ \A p \in hits : Min(hits) <= p
      <3> HIDE DEF hits
      <3> QED  BY <1>3, <2>2, MinOf
    <2> QED
      BY <1>1, <1>3, <2>3
  <1> QED
    BY <1>2, <1>3

\* What every zone is, of either kind.
ZoneOn(cs, z) ==
  /\ z.formed \in DOMAIN cs /\ z.index \in 1..z.formed
  /\ z.direction \in {"bullish", "bearish"}
  /\ z.lower \in Int /\ z.upper \in Int /\ z.lower <= z.upper
  /\ z.spent = Spent(cs, z, z.formed)

LEMMA GapTypes ==
  ASSUME NEW cs \in Seq(Prices), Valid(cs), NEW moves,
         NEW g \in FairValueGaps(cs, moves)
  PROVE  /\ ZoneOn(cs, g) /\ g.kind = "FVG" /\ g.formed = g.index
         /\ g.displaced \in BOOLEAN /\ g.size \in Int
         /\ g = FairValueGap(cs, moves, g.index)
  <1>1. PICK i \in 3..Len(cs) : /\ g = FairValueGap(cs, moves, i)
                                /\ GapDirection(cs, i) # "none"
    BY DEF FairValueGaps
  <1> DEFINE d == GapDirection(cs, i)
  <1> DEFINE lower == IF d = "bullish" THEN cs[i-2].high ELSE cs[i].high
  <1> DEFINE upper == IF d = "bullish" THEN cs[i].low ELSE cs[i-2].low
  <1> DEFINE move == IF i - 1 \in moves THEN i - 1 ELSE Latest(moves \cap {i})
  <1> DEFINE zone == [index |-> i, direction |-> d, lower |-> lower, upper |-> upper]
  <1>2. g = [kind |-> "FVG", index |-> i, direction |-> d,
             lower |-> lower, upper |-> upper, formed |-> i,
             displaced |-> move # None /\ Direction(cs[move]) = d,
             size |-> Ratio(upper - lower, Atr(cs, i)),
             spent |-> Spent(cs, zone, i)]
    BY <1>1 DEF FairValueGap
  <1>3. i \in DOMAIN cs /\ i - 2 \in DOMAIN cs /\ i \in Nat
    OBVIOUS
  <1>4. /\ cs[i].low \in Int /\ cs[i].high \in Int
        /\ cs[i-2].low \in Int /\ cs[i-2].high \in Int
    BY <1>3, CandleAt
  <1>5. \/ d = "bullish" /\ cs[i].low > cs[i-2].high
        \/ d = "bearish" /\ cs[i].high < cs[i-2].low
    BY <1>1 DEF GapDirection
  <1>6. d \in {"bullish", "bearish"} /\ lower \in Int /\ upper \in Int /\ lower <= upper
    BY <1>4, <1>5
  <1>7. Ratio(upper - lower, Atr(cs, i)) \in Int
    <2> HIDE DEF upper, lower
    <2>1. upper - lower \in Int /\ Atr(cs, i) \in Nat
      BY <1>3, <1>6, AtrIsNat
    <2> QED
      BY <2>1, RatioIsInt
  <1>8. Spent(cs, zone, i) = Spent(cs, g, i)
    <2>1. zone.direction = g.direction /\ zone.lower = g.lower /\ zone.upper = g.upper
      BY <1>2
    <2> HIDE DEF zone
    <2> QED
      BY <2>1 DEF Spent
  <1> HIDE DEF d, lower, upper, move, zone
  <1>9. /\ g.kind = "FVG" /\ g.index = i /\ g.direction = d /\ g.lower = lower
        /\ g.upper = upper /\ g.formed = i /\ g.size = Ratio(upper - lower, Atr(cs, i))
        /\ g.spent = Spent(cs, zone, i)
        /\ g.displaced = (move # None /\ Direction(cs[move]) = d)
    BY <1>2
  <1>10. g.displaced \in BOOLEAN
    BY <1>9
  <1>11. ZoneOn(cs, g)
    BY <1>3, <1>6, <1>8, <1>9 DEF ZoneOn
  <1> QED
    BY <1>1, <1>7, <1>9, <1>10, <1>11

LEMMA OriginIs ==
  ASSUME NEW cs \in Seq(Prices), NEW move \in DOMAIN cs, Origin(cs, move) # None
  PROVE  /\ Origin(cs, move) \in 1..(move - 1)
         /\ Direction(cs[Origin(cs, move)]) = Opposite(Direction(cs[move]))
  <1> DEFINE S == {p \in Max({1, move - 6})..(move - 1) :
                     Direction(cs[p]) = Opposite(Direction(cs[move]))}
  <1>1. Origin(cs, move) = Latest(S)
    BY DEF Origin
  <1>2. Max({1, move - 6}) \in Nat /\ Max({1, move - 6}) >= 1
    BY MaxPair
  <1>3. move - 1 \in Nat /\ S \in SUBSET (1..(move - 1))
    BY <1>2
  <1> HIDE DEF S
  <1>4. Latest(S) \in S
    BY <1>1, <1>3, LatestOfSome
  <1>5. Origin(cs, move) \in S
    BY <1>1, <1>4
  <1> QED
    BY <1>3, <1>5 DEF S

LEMMA BlockTypes ==
  ASSUME NEW cs \in Seq(Prices), Valid(cs), NEW moves \in SUBSET DOMAIN cs,
         \A m \in moves : Direction(cs[m]) \in {"bullish", "bearish"},
         NEW events, NEW gaps,
         NEW b \in OrderBlocks(cs, moves, events, gaps)
  PROVE  /\ ZoneOn(cs, b) /\ b.kind = "ORDER_BLOCK" /\ b.strength \in Grades
         /\ b.formed \in moves /\ b = OrderBlock(cs, events, gaps, b.formed)
         /\ b.index = Origin(cs, b.formed) /\ b.direction = Direction(cs[b.formed])
         /\ \A k \in moves : (/\ Origin(cs, k) = b.index
                              /\ Direction(cs[k]) = b.direction) => b.formed <= k
  <1>1. PICK move \in moves :
          /\ b = OrderBlock(cs, events, gaps, move)
          /\ Origin(cs, move) # None
          /\ \A k \in moves : (/\ Origin(cs, k) = Origin(cs, move)
                               /\ Direction(cs[k]) = Direction(cs[move])) => move <= k
    BY DEF OrderBlocks
  <1> DEFINE o == Origin(cs, move)
  <1> DEFINE d == Direction(cs[move])
  <1> DEFINE broke == \E e \in events : e.direction = d /\ e.index \in move..(move + 3)
  <1> DEFINE imbalance == \E g \in gaps : g.direction = d
                                          /\ g.index \in (move - 1)..(move + 2)
  <1> DEFINE zone == [index |-> o, direction |-> d,
                      lower |-> cs[o].low, upper |-> cs[o].high]
  <1> DEFINE reach == Capped(Ratio(Span(cs[o]), Atr(cs, move)))
  <1> DEFINE strength == Capped(Percent(45, DisplacementQuality(cs, move))
                                + (IF broke THEN 3000 ELSE 0)
                                + (IF imbalance THEN 1500 ELSE 0)
                                + Percent(10, reach))
  <1>2. b = [kind |-> "ORDER_BLOCK", index |-> o, direction |-> d,
             lower |-> cs[o].low, upper |-> cs[o].high, formed |-> move,
             qualified |-> broke \/ imbalance \/ LeavesGap(cs, move),
             strength |-> strength, spent |-> Spent(cs, zone, move)]
    BY <1>1 DEF OrderBlock
  <1>3. move \in DOMAIN cs /\ o \in 1..(move - 1)
    BY <1>1, OriginIs
  <1>4. o \in DOMAIN cs
    BY <1>3
  <1>5. d \in {"bullish", "bearish"}
    OBVIOUS
  <1>6. cs[o].low \in Int /\ cs[o].high \in Int /\ cs[o].low <= cs[o].high
    BY <1>4, CandleAt, CandleShape
  <1>7. strength \in Grades
    <2>1. Span(cs[o]) \in Int /\ Atr(cs, move) \in Nat
      <3>1. Span(cs[o]) = cs[o].high - cs[o].low
        BY DEF Span
      <3>2. cs[o].high - cs[o].low \in Int
        BY <1>6
      <3> QED
        BY <1>3, <3>1, <3>2, AtrIsNat
    <2>2. Ratio(Span(cs[o]), Atr(cs, move)) \in Int
      BY <2>1, RatioIsInt
    <2>3. reach \in Int
      BY <2>2, GradeIsInt
    <2>4. DisplacementQuality(cs, move) \in Int
      <3>1. DisplacementQuality(cs, move) \in Grades
        BY <1>3, DisplacementGrade
      <3>2. \A x \in Grades : x \in Int
        BY DEF Grades, One
      <3> QED
        BY <3>1, <3>2
    <2> HIDE DEF reach, broke, imbalance
    <2>5. Percent(45, DisplacementQuality(cs, move)) \in Int
      BY <2>4, PercentIsInt, 45 \in Int
    <2>6. Percent(10, reach) \in Int
      BY <2>3, PercentIsInt, 10 \in Int
    <2>7. Percent(45, DisplacementQuality(cs, move)) + (IF broke THEN 3000 ELSE 0)
            + (IF imbalance THEN 1500 ELSE 0) + Percent(10, reach) \in Int
      BY <2>5, <2>6
    <2> QED
      BY <2>7, Grade DEF Grades
  <1>8. Spent(cs, zone, move) = Spent(cs, b, move)
    <2>1. zone.direction = b.direction /\ zone.lower = b.lower /\ zone.upper = b.upper
      BY <1>2
    <2> HIDE DEF zone
    <2> QED
      BY <2>1 DEF Spent
  <1>9. /\ b.kind = "ORDER_BLOCK" /\ b.index = o /\ b.direction = d
        /\ b.lower = cs[o].low /\ b.upper = cs[o].high /\ b.formed = move
        /\ b.strength = strength /\ b.spent = Spent(cs, zone, move)
    BY <1>2
  <1> HIDE DEF o, d, broke, imbalance, zone, reach, strength
  <1>10. ZoneOn(cs, b)
    <2>1. o \in 1..move /\ move \in Nat
      BY <1>3
    <2> QED
      BY <1>3, <1>5, <1>6, <1>8, <1>9, <2>1 DEF ZoneOn
  <1>11. o = Origin(cs, move) /\ d = Direction(cs[move])
    BY DEF o, d
  <1> QED
    BY <1>1, <1>7, <1>9, <1>10, <1>11

-----------------------------------------------------------------------------
(* Liquidity levels and sweeps.                                            *)

LEMMA PriceIsNat ==
  ASSUME NEW cs \in Seq(Prices), Valid(cs), NEW side, NEW i \in DOMAIN cs
  PROVE  Price(cs, side, i) \in Nat
  <1> DEFINE c == cs[i]
  <1>1. c.open \in Int /\ c.close \in Int /\ c.high \in Int /\ c.low \in Int
    BY CandleAt
  <1>2. Min({c.open, c.high, c.low, c.close}) > 0
    BY DEF Valid, ValidCandle
  <1> HIDE DEF c
  <1> DEFINE S == {c.open, c.high, c.low, c.close}
  <1>3. \E x \in S : \A y \in S : x <= y
    BY <1>1
  <1>4. Min(S) \in S /\ \A y \in S : Min(S) <= y
    BY <1>3 DEF Min
  <1>5. c.high > 0 /\ c.low > 0
    BY <1>1, <1>2, <1>4
  <1>6. Price(cs, side, i) = IF side = "buy" THEN c.high ELSE c.low
    BY DEF Price, c
  <1> QED
    BY <1>1, <1>5, <1>6

PriceSum(cs, side, W) == LET P(j) == Price(cs, side, j) IN Sum(P, W)

LEMMA PricesSum ==
  ASSUME NEW cs \in Seq(Prices), Valid(cs), NEW side, NEW W, W \subseteq DOMAIN cs
  PROVE  PriceSum(cs, side, W) \in Nat
  <1> DEFINE P(j) == Price(cs, side, j)
  <1> DEFINE v == [j \in W |-> Price(cs, side, j)]
  <1> DEFINE Part(g, s) == IF s = {} THEN 0 ELSE Price(cs, side, The(s)) + g[s \ {The(s)}]
  <1>1. Sum(P, W) = (CHOOSE g : g = [s \in SUBSET W |-> Part(g, s)])[W]
    BY DEF Sum, MapThenSumSet, MapThenFoldSet, The
  <1>2. IsFiniteSet(W)
    <2>1. Len(cs) \in Nat /\ W \in SUBSET (1..Len(cs))
      OBVIOUS
    <2> QED
      BY <2>1, SomePositions
  <1>3. v \in [W -> Nat]
    BY PriceIsNat
  <1>4. \A g, s : s \in SUBSET W => SumStep(v, g, s) = Part(g, s)
    BY DEF SumStep, The
  <1>5. \A g : SumOver(W, v, g) <=> g = [s \in SUBSET W |-> Part(g, s)]
    <2> HIDE DEF Part, v
    <2> QED  BY <1>4 DEF SumOver
  <1> HIDE DEF v, Part
  <1>6. \E g : g = [s \in SUBSET W |-> Part(g, s)]
    <2>1. PICK g : SumOver(W, v, g)
      BY <1>2, <1>3, SumsExist
    <2> QED
      BY <1>5, <2>1
  <1> DEFINE G == CHOOSE g : g = [s \in SUBSET W |-> Part(g, s)]
  <1>7. G = [s \in SUBSET W |-> Part(G, s)]
    BY <1>6
  <1> HIDE DEF G
  <1>8. G[W] \in Nat
    <2>1. SumOver(W, v, G)
      BY <1>5, <1>7
    <2> QED
      BY <1>2, <1>3, <2>1, SumsAreNat
  <1> QED
    BY <1>1, <1>8 DEF G, PriceSum

LevelType(l) ==
  /\ l.price \in Int /\ l.side \in {"buy", "sell"} /\ l.rank \in 1..6 /\ l.weight \in Int

LEMMA LevelIs ==
  ASSUME NEW price \in Int, NEW side \in {"buy", "sell"}, NEW rank \in 1..6,
         NEW source, NEW touches
  PROVE  LevelType(Level(price, side, rank, source, touches))
  <1>1. Weights[rank] \in Int
    <2>1. Weights = <<10000, 6000, 9500, 8000, 8000, 8000>>
      BY DEF Weights
    <2>2. rank = 1 \/ rank = 2 \/ rank = 3 \/ rank = 4 \/ rank = 5 \/ rank = 6
      OBVIOUS
    <2> QED
      BY <2>1, <2>2
  <1> QED
    BY <1>1 DEF LevelType, Level

LEMMA EqualLevelTypes ==
  ASSUME NEW cs \in Seq(Prices), Valid(cs), NEW side \in {"buy", "sell"},
         NEW points \in SUBSET DOMAIN cs
  PROVE  /\ IsFiniteSet(EqualLevels(cs, side, points))
         /\ \A l \in EqualLevels(cs, side, points) : LevelType(l)
  <1> DEFINE tolerance == Percent(12, Atr(cs, Len(cs)))
  <1> DEFINE P(j) == Price(cs, side, j)
  <1>0. ASSUME NEW c, c \subseteq DOMAIN cs PROVE Sum(P, c) \in Nat
    <2>1. PriceSum(cs, side, c) \in Nat
      BY <1>0, PricesSum
    <2> QED
      BY <2>1 DEF PriceSum
  <1> DEFINE f == [i \in points |-> Cluster(cs, side, points, tolerance, i)]
  <1> DEFINE clusters == {c \in {f[i] : i \in points} : Cardinality(c) >= 2}
  <1> DEFINE L(c) == Level(Sum(P, c) \div Cardinality(c), side, 1,
                           Max(c) + SwingWindow, Cardinality(c))
  <1> DEFINE h == [c \in clusters |-> L(c)]
  <1>1. EqualLevels(cs, side, points) = IF tolerance <= 0 THEN {}
                                        ELSE {L(c) : c \in clusters}
    <2>1. {c \in {Cluster(cs, side, points, tolerance, i) : i \in points} :
             Cardinality(c) >= 2} = clusters
      OBVIOUS
    <2> HIDE DEF tolerance, clusters
    <2> QED
      BY <2>1 DEF EqualLevels, tolerance
  <1>2. IsFiniteSet(points)
    <2>1. Len(cs) \in Nat /\ points \in SUBSET (1..Len(cs))
      OBVIOUS
    <2> QED
      BY <2>1, SomePositions
  <1>3. \A i \in points : f[i] \in SUBSET points
    BY DEF Cluster
  <1> HIDE DEF f
  <1>4. IsFiniteSet({f[i] : i \in points})
    BY <1>2, FiniteImage
  <1>5. IsFiniteSet(clusters)
    <2>1. clusters \in SUBSET {f[i] : i \in points}
      OBVIOUS
    <2> QED
      BY <1>4, <2>1, FS_Subset
  <1>6. \A c \in clusters : c \in SUBSET points /\ Cardinality(c) >= 2
    BY <1>3
  <1> HIDE DEF clusters
  <1>7. ASSUME NEW c \in clusters PROVE LevelType(L(c))
    <2>0. c \subseteq DOMAIN cs
      BY <1>6, <1>7
    <2>1. Cardinality(c) >= 2
      BY <1>6, <1>7
    <2>2. Sum(P, c) \in Nat
      BY <1>0, <2>0
    <2>3. Cardinality(c) \in Nat
      BY <1>2, <1>6, <1>7, FS_Subset, FS_CardinalityType
    <2> HIDE DEF P
    <2>4. Sum(P, c) \div Cardinality(c) \in Int
      <3>1. \A x \in Nat, y \in Nat : y >= 2 => x \div y \in Int
        OBVIOUS
      <3> QED
        BY <2>1, <2>2, <2>3, <3>1
    <2> QED
      BY <2>4, LevelIs
  <1> HIDE DEF L
  <1>8. IsFiniteSet({L(c) : c \in clusters})
    <2>1. {L(c) : c \in clusters} = {h[c] : c \in clusters}
      OBVIOUS
    <2> HIDE DEF h
    <2> QED
      BY <1>5, <2>1, FiniteImage
  <1> QED
    BY <1>1, <1>7, <1>8, FS_EmptySet

LEMMA SwingLevelTypes ==
  ASSUME NEW cs \in Seq(Prices), Valid(cs), NEW side \in {"buy", "sell"},
         NEW points \in SUBSET DOMAIN cs
  PROVE  /\ IsFiniteSet(SwingLevels(cs, side, points))
         /\ \A l \in SwingLevels(cs, side, points) : LevelType(l)
  <1> DEFINE S == LastOf(points, 8)
  <1> DEFINE L(i) == Level(Price(cs, side, i), side, 2, i + SwingWindow, 1)
  <1> DEFINE h == [i \in S |-> L(i)]
  <1>1. Len(cs) \in Nat /\ S \in SUBSET (1..Len(cs)) /\ S \subseteq DOMAIN cs
    BY DEF LastOf
  <1> HIDE DEF S
  <1>2. IsFiniteSet(S)
    BY <1>1, SomePositions
  <1>3. ASSUME NEW i \in S PROVE LevelType(L(i))
    <2>1. Price(cs, side, i) \in Int
      BY <1>1, PriceIsNat
    <2> QED
      BY <2>1, LevelIs
  <1> HIDE DEF L
  <1>4. SwingLevels(cs, side, points) = {h[i] : i \in S}
    BY DEF SwingLevels, L, S
  <1>5. IsFiniteSet({h[i] : i \in S})
    <2> HIDE DEF h
    <2> QED  BY <1>2, FiniteImage
  <1> QED
    BY <1>3, <1>4, <1>5

LEMMA SessionLevelTypes ==
  ASSUME NEW cs \in Seq(Prices), Valid(cs)
  PROVE  /\ IsFiniteSet(SessionLevels(cs))
         /\ \A l \in SessionLevels(cs) : LevelType(l)
  <1> DEFINE S(r) == SessionMembers(cs, r)
  <1> DEFINE high(r) == Max({cs[i].high : i \in S(r)})
  <1> DEFINE low(r) == Min({cs[i].low : i \in S(r)})
  <1> DEFINE source(r) == Min({i \in DOMAIN cs : cs[i].high <= high(r) /\ cs[i].low >= low(r)}
                              \cup {Len(cs)})
  <1> DEFINE Of(r) == IF S(r) = {} THEN {}
                      ELSE {Level(high(r), "buy", r, source(r), 1),
                            Level(low(r), "sell", r, source(r), 1)}
  <1>1. SessionLevels(cs) = UNION {Of(r) : r \in 3..6}
    BY DEF SessionLevels
  <1>2. \A r \in 3..6 : S(r) \subseteq DOMAIN cs
    BY DEF SessionMembers
  <1>3. ASSUME NEW r \in 3..6
        PROVE  IsFiniteSet(Of(r)) /\ \A l \in Of(r) : LevelType(l)
    <2>1. CASE S(r) = {}
      BY <2>1, FS_EmptySet
    <2>2. CASE S(r) # {}
      <3>1. high(r) \in Int /\ low(r) \in Int
        BY <1>2, <2>2, HighestIsInt, LowestIsInt
      <3> HIDE DEF high, low, source, S
      <3>2. /\ LevelType(Level(high(r), "buy", r, source(r), 1))
            /\ LevelType(Level(low(r), "sell", r, source(r), 1))
        BY <3>1, LevelIs
      <3>3. \A x, y : IsFiniteSet({x, y})
        <4>1. SUFFICES ASSUME NEW x, NEW y PROVE IsFiniteSet({x, y})
          OBVIOUS
        <4>2. IsFiniteSet({x})
          BY FS_Singleton
        <4>3. IsFiniteSet({x} \cup {y})
          BY <4>2, FS_AddElement
        <4>4. {x, y} = {x} \cup {y}
          OBVIOUS
        <4> QED
          BY <4>3, <4>4
      <3> QED
        BY <2>2, <3>2, <3>3
    <2> QED
      BY <2>1, <2>2
  <1> HIDE DEF Of
  <1>4. SessionLevels(cs) = Of(3) \cup Of(4) \cup Of(5) \cup Of(6)
    <2>1. 3..6 = {3, 4, 5, 6}
      OBVIOUS
    <2> QED
      BY <1>1, <2>1
  <1>5. /\ IsFiniteSet(Of(3)) /\ IsFiniteSet(Of(4))
        /\ IsFiniteSet(Of(5)) /\ IsFiniteSet(Of(6))
    BY <1>3
  <1>6. IsFiniteSet(SessionLevels(cs))
    BY <1>4, <1>5, FS_Union
  <1> QED
    BY <1>1, <1>3, <1>6

LEMMA LevelTypes ==
  ASSUME NEW cs \in Seq(Prices), Valid(cs)
  PROVE  IsFiniteSet(LiquidityMap(cs)) /\ \A l \in LiquidityMap(cs) : LevelType(l)
  <1> DEFINE H == SwingHighs(cs)
  <1> DEFINE L == SwingLows(cs)
  <1>1. H \in SUBSET DOMAIN cs /\ L \in SUBSET DOMAIN cs
    BY ChartAssumption DEF SwingHighs, SwingLows, Inner
  <1>2. LiquidityMap(cs)
          = EqualLevels(cs, "buy", H) \cup EqualLevels(cs, "sell", L)
              \cup SwingLevels(cs, "buy", H) \cup SwingLevels(cs, "sell", L)
              \cup SessionLevels(cs)
    BY DEF LiquidityMap
  <1> HIDE DEF H, L
  <1>3. /\ IsFiniteSet(EqualLevels(cs, "buy", H))
        /\ \A l \in EqualLevels(cs, "buy", H) : LevelType(l)
        /\ IsFiniteSet(EqualLevels(cs, "sell", L))
        /\ \A l \in EqualLevels(cs, "sell", L) : LevelType(l)
    BY <1>1, EqualLevelTypes
  <1>4. /\ IsFiniteSet(SwingLevels(cs, "buy", H))
        /\ \A l \in SwingLevels(cs, "buy", H) : LevelType(l)
        /\ IsFiniteSet(SwingLevels(cs, "sell", L))
        /\ \A l \in SwingLevels(cs, "sell", L) : LevelType(l)
    BY <1>1, SwingLevelTypes
  <1>5. IsFiniteSet(LiquidityMap(cs))
    BY <1>2, <1>3, <1>4, SessionLevelTypes, FS_Union
  <1> QED
    BY <1>2, <1>3, <1>4, <1>5, SessionLevelTypes

\* A candle takes at most one level on each side.
LEMMA SweptIs ==
  ASSUME NEW cs, NEW levels, IsFiniteSet(levels), \A l \in levels : LevelType(l),
         NEW i, NEW side
  PROVE  \/ SweptLevel(cs, levels, i, side) = {}
         \/ \E l \in levels : SweptLevel(cs, levels, i, side) = {l} /\ l.side = side
  <1> DEFINE taken == {l \in levels :
                         /\ l.source <= i - 1 /\ l.side = side
                         /\ IF side = "sell"
                              THEN cs[i].low < l.price /\ l.price <= cs[i].close
                              ELSE cs[i].high > l.price /\ l.price >= cs[i].close}
  <1> DEFINE prices == {l.price : l \in taken}
  <1> DEFINE far == IF side = "sell" THEN Min(prices) ELSE Max(prices)
  <1> DEFINE there == {l \in taken : l.price = far}
  <1> DEFINE first == CHOOSE l \in there : \A m \in there : l.rank <= m.rank
  <1>1. SweptLevel(cs, levels, i, side) = IF taken = {} THEN {} ELSE {first}
    BY DEF SweptLevel
  <1>2. taken \in SUBSET levels /\ \A l \in taken : l.side = side
    OBVIOUS
  <1> HIDE DEF taken
  <1>3. CASE taken = {}
    BY <1>1, <1>3
  <1>4. CASE taken # {}
    <2> DEFINE f == [l \in taken |-> l.price]
    <2> DEFINE g == [l \in there |-> l.rank]
    <2>1. IsFiniteSet(taken)
      BY <1>2, FS_Subset
    <2>2. IsFiniteSet(prices)
      <3>1. prices = {f[l] : l \in taken}
        OBVIOUS
      <3> HIDE DEF f
      <3> QED
        BY <2>1, <3>1, FiniteImage
    <2>3. prices # {} /\ \A x \in prices : x \in Int
      BY <1>2, <1>4 DEF LevelType
    <2> HIDE DEF prices
    <2>4. far \in prices
      BY <2>2, <2>3, MinOf, MaxOf
    <2> HIDE DEF far
    <2>5. there # {}
      BY <2>4 DEF prices
    <2>6. there \in SUBSET taken
      OBVIOUS
    <2> HIDE DEF there
    <2> DEFINE ranks == {g[l] : l \in there}
    <2>7. IsFiniteSet(ranks)
      <3>1. IsFiniteSet(there)
        BY <2>1, <2>6, FS_Subset
      <3> HIDE DEF g
      <3> QED
        BY <3>1, FiniteImage
    <2>8. ranks # {} /\ \A x \in ranks : x \in Int
      <3>1. \A l \in there : l.rank \in Int
        BY <1>2, <2>6 DEF LevelType
      <3> QED
        BY <2>5, <3>1
    <2>9. PICK r \in ranks : \A x \in ranks : r <= x
      <3> HIDE DEF ranks
      <3> QED
        BY <2>7, <2>8, MinOf
    <2>10. \E l \in there : \A m \in there : l.rank <= m.rank
      BY <2>9
    <2>11. first \in there
      BY <2>10
    <2> QED
      BY <1>1, <1>2, <1>4, <2>6, <2>11
  <1> QED
    BY <1>3, <1>4

LEMMA ConfirmedIs ==
  ASSUME NEW cs \in Seq(Prices), NEW i \in DOMAIN cs
  PROVE  ConfirmedAt(cs, i) \in i..Len(cs)
  <1>1. i \in Int /\ i + ReactionCandles \in Int /\ Len(cs) \in Int /\ i <= Len(cs)
    BY ChartAssumption
  <1> QED
    BY <1>1, MinPair, ChartAssumption DEF ConfirmedAt

LEMMA SweepGrade ==
  ASSUME NEW cs \in Seq(Prices), Valid(cs), NEW moves \in SUBSET DOMAIN cs, NEW events,
         NEW i \in DOMAIN cs, NEW level, LevelType(level)
  PROVE  Sweep(cs, moves, events, i, level).quality \in Grades
  <1> DEFINE c == cs[i]
  <1> DEFINE d == IF level.side = "sell" THEN "bullish" ELSE "bearish"
  <1> DEFINE end == ConfirmedAt(cs, i)
  <1> DEFINE excursion == IF level.side = "sell" THEN level.price - c.low
                                                 ELSE c.high - level.price
  <1> DEFINE back == IF level.side = "sell" THEN c.close - c.low ELSE c.high - c.close
  <1> DEFINE pushes == {m \in moves \cap (i..end) : Direction(cs[m]) = d}
  <1> DEFINE shift == \E e \in events : e.direction = d /\ e.index \in i..end
  <1> DEFINE rejection == Ratio(back, Span(c))
  <1> DEFINE f == [m \in pushes |-> DisplacementQuality(cs, m)]
  <1> DEFINE S == {DisplacementQuality(cs, m) : m \in pushes} \cup {0}
  <1> DEFINE quality == Percent(28, level.weight)
                     + Percent(22, Capped((100 * rejection) \div 85))
                     + Percent(14, Capped(Ratio(10 * excursion, 6 * Atr(cs, i))))
                     + Percent(22, Max(S))
                     + (IF shift THEN 1400 ELSE 0)
  <1>1. Sweep(cs, moves, events, i, level).quality = Capped(quality)
    BY DEF Sweep
  <1>2. c.close \in Int /\ c.high \in Int /\ c.low \in Int
    BY CandleAt
  <1>3. Span(c) \in Nat /\ Atr(cs, i) \in Nat
    BY CandleAt, CandleShape, AtrIsNat DEF Span
  <1>4. pushes \in SUBSET (1..Len(cs)) /\ Len(cs) \in Nat /\ pushes \subseteq DOMAIN cs
    OBVIOUS
  <1>5. Max(S) \in Int
    <2>1. IsFiniteSet(pushes)
      BY <1>4, SomePositions
    <2> HIDE DEF pushes
    <2>2. S = {f[m] : m \in pushes} \cup {0}
      OBVIOUS
    <2>3. \A x \in S : x \in Int
      <3>1. \A m \in pushes : DisplacementQuality(cs, m) \in Grades
        BY <1>4, DisplacementGrade
      <3>2. \A x \in Grades : x \in Int
        BY DEF Grades, One
      <3> QED
        BY <3>1, <3>2
    <2>4. S # {}
      OBVIOUS
    <2> HIDE DEF f
    <2>5. IsFiniteSet(S)
      <3>1. IsFiniteSet({f[m] : m \in pushes})
        BY <2>1, FiniteImage
      <3>2. IsFiniteSet({f[m] : m \in pushes} \cup {0})
        BY <3>1, FS_AddElement
      <3> QED
        BY <2>2, <3>2
    <2> HIDE DEF S
    <2> QED
      BY <2>3, <2>4, <2>5, MaxOf
  <1>6. level.price \in Int /\ level.weight \in Int
    BY DEF LevelType
  <1> HIDE DEF c, pushes, S, shift
  <1>7. excursion \in Int /\ back \in Int
    BY <1>2, <1>6
  <1> HIDE DEF excursion, back
  <1>8. rejection \in Int
    BY <1>3, <1>7, RatioIsInt
  <1> HIDE DEF rejection
  <1>9. Percent(28, level.weight) \in Int
    BY <1>6, PercentIsInt, 28 \in Int
  <1>10. Percent(22, Capped((100 * rejection) \div 85)) \in Int
    <2>1. (100 * rejection) \div 85 \in Int
      BY <1>8
    <2>2. Capped((100 * rejection) \div 85) \in Int
      BY <2>1, GradeIsInt
    <2> QED
      BY <2>2, PercentIsInt, 22 \in Int
  <1>11. Percent(14, Capped(Ratio(10 * excursion, 6 * Atr(cs, i)))) \in Int
    <2>1. 10 * excursion \in Int /\ 6 * Atr(cs, i) \in Nat
      BY <1>3, <1>7
    <2>2. Ratio(10 * excursion, 6 * Atr(cs, i)) \in Int
      BY <2>1, RatioIsInt
    <2>3. Capped(Ratio(10 * excursion, 6 * Atr(cs, i))) \in Int
      BY <2>2, GradeIsInt
    <2> QED
      BY <2>3, PercentIsInt, 14 \in Int
  <1>12. Percent(22, Max(S)) \in Int
    BY <1>5, PercentIsInt, 22 \in Int
  <1>13. quality \in Int
    BY <1>9, <1>10, <1>11, <1>12
  <1> HIDE DEF quality
  <1> QED
    BY <1>1, <1>13, Grade DEF Grades

\* Every sweep lies on the chart, and a candle makes at most one in each direction.
LEMMA SweepTypes ==
  ASSUME NEW cs \in Seq(Prices), Valid(cs), NEW moves \in SUBSET DOMAIN cs, NEW events,
         NEW sweeps, sweeps = Sweeps(cs, LiquidityMap(cs), moves, events)
  PROVE  /\ \A s \in sweeps : /\ s.index \in DOMAIN cs /\ s.quality \in Grades
                              /\ s.confirmed \in s.index..Len(cs)
                              /\ s.direction \in {"bullish", "bearish"}
         /\ \A s, t \in sweeps :
              s.index = t.index /\ s.direction = t.direction => s = t
  <1> DEFINE levels == LiquidityMap(cs)
  <1> DEFINE Swept(i, side) == SweptLevel(cs, levels, i, side)
  <1> DEFINE Of(i, l) == Sweep(cs, moves, events, i, l)
  <1>1. \A s \in sweeps : \E i \in DOMAIN cs :
          \E l \in Swept(i, "sell") \cup Swept(i, "buy") : s = Of(i, l)
    BY DEF Sweeps
  <1>2. IsFiniteSet(levels) /\ \A l \in levels : LevelType(l)
    BY LevelTypes
  <1>3. \A i, l : /\ Of(i, l).index = i
                  /\ Of(i, l).confirmed = ConfirmedAt(cs, i)
                  /\ Of(i, l).direction = IF l.side = "sell" THEN "bullish" ELSE "bearish"
    BY DEF Sweep
  <1> HIDE DEF levels
  <1>4. \A i, side : \/ Swept(i, side) = {}
                     \/ \E l \in levels : Swept(i, side) = {l} /\ l.side = side
    BY <1>2, SweptIs
  <1> HIDE DEF Swept
  <1>5. \A i \in DOMAIN cs, l \in levels : Of(i, l).quality \in Grades
    BY <1>2, SweepGrade
  <1> HIDE DEF Of
  <1>6. ASSUME NEW s \in sweeps
        PROVE  /\ s.index \in DOMAIN cs /\ s.quality \in Grades
               /\ s.confirmed \in s.index..Len(cs)
               /\ s.direction \in {"bullish", "bearish"}
    <2>0. PICK i \in DOMAIN cs :
            \E l \in Swept(i, "sell") \cup Swept(i, "buy") : s = Of(i, l)
      BY <1>1
    <2>1. PICK l \in Swept(i, "sell") \cup Swept(i, "buy") : s = Of(i, l)
      BY <2>0
    <2>2. l \in levels
      BY <1>4
    <2> QED
      BY <1>3, <1>5, <2>1, <2>2, ConfirmedIs
  <1>7. ASSUME NEW s \in sweeps, NEW t \in sweeps,
               s.index = t.index, s.direction = t.direction
        PROVE  s = t
    <2>0. PICK i \in DOMAIN cs :
            \E l \in Swept(i, "sell") \cup Swept(i, "buy") : s = Of(i, l)
      BY <1>1
    <2>1. PICK l \in Swept(i, "sell") \cup Swept(i, "buy") : s = Of(i, l)
      BY <2>0
    <2>a. PICK j \in DOMAIN cs :
            \E m \in Swept(j, "sell") \cup Swept(j, "buy") : t = Of(j, m)
      BY <1>1
    <2>2. PICK m \in Swept(j, "sell") \cup Swept(j, "buy") : t = Of(j, m)
      BY <2>a
    <2>3. i = j /\ (l.side = "sell" <=> m.side = "sell")
      BY <1>3, <1>7, <2>1, <2>2
    <2>4. l = m
      BY <1>4, <2>3
    <2> QED
      BY <2>1, <2>2, <2>3, <2>4
  <1> QED
    BY <1>6, <1>7

\* Everything a scan reports lies on the chart: its breaks of structure are of earlier
\* levels, its zones have a lower and an upper edge and are used up only by a later
\* candle, its sweeps are confirmed by a candle that has printed, at every chart.
THEOREM ScanTypes == Spec => []TypeOK
  <1>1. Charted => TypeOK
    <2> SUFFICES ASSUME Charted PROVE TypeOK
      OBVIOUS
    <2> DEFINE cs == candles
    <2> DEFINE moves == Displacements(cs)
    <2> DEFINE events == StructureEvents(cs, moves)
    <2> DEFINE gaps == FairValueGaps(cs, moves)
    <2> DEFINE blocks == OrderBlocks(cs, moves, events, gaps)
    <2> DEFINE sweeps == Sweeps(cs, LiquidityMap(cs), moves, events)
    <2>1. cs \in Seq(Prices) /\ Valid(cs) /\ cs # <<>>
      BY DEF Charted, Valid
    <2>2. /\ analysis.moves = moves /\ analysis.events = events /\ analysis.gaps = gaps
          /\ analysis.blocks = blocks /\ analysis.sweeps = sweeps
      BY DEF Charted, Analyze
    <2>3. /\ moves \in SUBSET DOMAIN cs
          /\ \A m \in moves : Direction(cs[m]) \in {"bullish", "bearish"}
      BY DEF Displacements
    <2> HIDE DEF moves
    <2>4. \A e \in events : e.level < e.index /\ e.index \in DOMAIN cs
      BY <2>1, <2>3, EventTypes
    <2> HIDE DEF events
    <2>5. \A z \in gaps : ZoneOn(cs, z)
      BY <2>1, GapTypes
    <2> HIDE DEF gaps
    <2>6. \A z \in blocks : ZoneOn(cs, z)
      BY <2>1, <2>3, BlockTypes
    <2> HIDE DEF blocks
    <2>7. ASSUME NEW z, ZoneOn(cs, z)
          PROVE  /\ z.lower <= z.upper /\ z.index <= z.formed
                 /\ z.spent = None \/ z.spent \in (z.formed + 1)..Len(cs)
      <3>1. z.formed \in DOMAIN cs /\ z.index \in 1..z.formed /\ z.lower <= z.upper
            /\ z.spent = Spent(cs, z, z.formed)
        BY <2>7 DEF ZoneOn
      <3>2. z.formed \in Nat
        BY <2>1, <3>1
      <3>3. z.spent = None \/ z.spent \in (z.formed + 1)..Len(cs)
        BY <2>1, <3>1, <3>2, SpentIs
      <3> QED
        BY <3>1, <3>2, <3>3
    <2>8. \A s \in sweeps : s.quality \in 0..One /\ s.confirmed \in s.index..Len(cs)
      BY <2>1, <2>3, SweepTypes DEF Grades
    <2> HIDE DEF sweeps
    <2>9. \A i \in DOMAIN cs : ValidCandle(cs[i])
      BY <2>1 DEF Valid
    <2> QED
      BY <2>2, <2>3, <2>4, <2>5, <2>6, <2>7, <2>8, <2>9 DEF TypeOK
  <1> QED
    BY <1>1, StaysCharted, PTL

-----------------------------------------------------------------------------
(* What the analysis of a chart hands to the decision.                     *)

SweepsSound(cs, a) ==
  /\ \A s \in a.sweeps : /\ s.index \in DOMAIN cs /\ s.quality \in Grades
                         /\ s.direction \in {"bullish", "bearish"}
  /\ \A s, t \in a.sweeps : s.index = t.index /\ s.direction = t.direction => s = t

EventsSound(cs, a) ==
  /\ \A v \in a.events : v.index \in DOMAIN cs /\ v.quality \in Grades
  /\ \A u, v \in a.events : u.index = v.index => u = v

GapsSound(cs, a) ==
  /\ IsFiniteSet(a.gaps)
  /\ \A g \in a.gaps : ZoneOn(cs, g) /\ g.displaced \in BOOLEAN /\ g.size \in Int
  /\ \A g, h \in a.gaps : g.index = h.index => g = h

BlocksSound(cs, a) ==
  /\ \A b \in a.blocks : ZoneOn(cs, b) /\ b.strength \in Grades
  /\ \A b, c \in a.blocks : b.index = c.index /\ b.direction = c.direction => b = c

Sound(cs, a) ==
  /\ cs \in Seq(Prices) /\ Valid(cs) /\ cs # <<>> /\ a.atr \in Nat
  /\ SweepsSound(cs, a) /\ EventsSound(cs, a)
  /\ GapsSound(cs, a) /\ BlocksSound(cs, a)

LEMMA AnalysisIsSound ==
  ASSUME NEW cs \in Seq(Prices), Valid(cs), cs # <<>>
  PROVE  Sound(cs, Analyze(cs))
  <1> DEFINE moves == Displacements(cs)
  <1> DEFINE events == StructureEvents(cs, moves)
  <1> DEFINE gaps == FairValueGaps(cs, moves)
  <1> DEFINE blocks == OrderBlocks(cs, moves, events, gaps)
  <1> DEFINE sweeps == Sweeps(cs, LiquidityMap(cs), moves, events)
  <1> DEFINE a == Analyze(cs)
  <1>2. /\ a.events = events /\ a.gaps = gaps /\ a.blocks = blocks
        /\ a.sweeps = sweeps /\ a.atr = Atr(cs, Len(cs))
    BY DEF Analyze
  <1>3. /\ moves \in SUBSET DOMAIN cs
        /\ \A m \in moves : Direction(cs[m]) \in {"bullish", "bearish"}
    BY DEF Displacements
  <1> HIDE DEF moves, a
  <1>4. Atr(cs, Len(cs)) \in Nat
    <2>1. Len(cs) \in DOMAIN cs
      OBVIOUS
    <2> QED
      BY <2>1, AtrIsNat
  <1>5. SweepsSound(cs, a)
    <2>1. sweeps = a.sweeps
      BY <1>2
    <2> HIDE DEF sweeps
    <2> QED
      BY <1>3, <2>1, SweepTypes DEF SweepsSound, sweeps
  <1>6. EventsSound(cs, a)
    <2>1. /\ events \subseteq Break_
          /\ \A e \in events : e.index \in DOMAIN cs
          /\ \A e, f \in events : e.index = f.index => e = f
      BY <1>3, EventTypes
    <2> HIDE DEF events
    <2> QED
      BY <1>2, <2>1 DEF EventsSound, Break_
  <1>7. GapsSound(cs, a)
    <2>1. \A g \in gaps : /\ ZoneOn(cs, g) /\ g.displaced \in BOOLEAN /\ g.size \in Int
                          /\ g = FairValueGap(cs, moves, g.index)
      BY GapTypes
    <2>2. \A g, h \in gaps : g.index = h.index => g = h
      BY <2>1
    <2>3. IsFiniteSet(gaps)
      <3> DEFINE f == [i \in DOMAIN cs |-> FairValueGap(cs, moves, i)]
      <3>1. IsFiniteSet(DOMAIN cs)
        BY FS_Interval, DOMAIN cs = 1..Len(cs), Len(cs) \in Int, 1 \in Int
      <3>2. gaps \in SUBSET {f[i] : i \in DOMAIN cs}
        BY DEF FairValueGaps
      <3> HIDE DEF f, gaps
      <3>3. IsFiniteSet({f[i] : i \in DOMAIN cs})
        BY <3>1, FiniteImage
      <3> QED
        BY <3>2, <3>3, FS_Subset
    <2> HIDE DEF gaps
    <2> QED
      BY <1>2, <2>1, <2>2, <2>3 DEF GapsSound
  <1> HIDE DEF events, gaps
  <1>8. BlocksSound(cs, a)
    <2>1. \A b \in blocks :
            /\ ZoneOn(cs, b) /\ b.strength \in Grades
            /\ b.formed \in moves /\ b = OrderBlock(cs, events, gaps, b.formed)
            /\ b.index = Origin(cs, b.formed) /\ b.direction = Direction(cs[b.formed])
            /\ \A k \in moves : (/\ Origin(cs, k) = b.index
                                 /\ Direction(cs[k]) = b.direction) => b.formed <= k
      BY <1>3, BlockTypes
    <2> HIDE DEF blocks
    <2>2. ASSUME NEW b \in blocks, NEW c \in blocks,
                 b.index = c.index, b.direction = c.direction
          PROVE  b = c
      <3>1. b.formed <= c.formed /\ c.formed <= b.formed
        BY <2>1, <2>2
      <3>2. b.formed \in Int /\ c.formed \in Int
        BY <1>3, <2>1
      <3>3. b.formed = c.formed
        BY <3>1, <3>2
      <3> QED
        BY <2>1, <3>3
    <2> QED
      BY <1>2, <2>1, <2>2 DEF BlocksSound
  <1>9. Sound(cs, a)
    BY <1>2, <1>4, <1>5, <1>6, <1>7, <1>8 DEF Sound
  <1> QED
    BY <1>9 DEF a

-----------------------------------------------------------------------------
(* The best of several candidates is one of them.                          *)

LEMMA TwoKeys ==
  ASSUME NEW S, S # {}, NEW q \in [S -> Int], NEW k \in [S -> Int],
         IsFiniteSet({q[x] : x \in S}), IsFiniteSet({k[x] : x \in S}),
         \A x, y \in S : q[x] = q[y] /\ k[x] = k[y] => x = y
  PROVE  \E x \in S : \A y \in S \ {x} : q[x] > q[y] \/ (q[x] = q[y] /\ k[x] > k[y])
  <1> DEFINE Q == {q[x] : x \in S}
  <1>1. Q # {} /\ IsFiniteSet(Q) /\ \A x \in Q : x \in Int
    OBVIOUS
  <1>2. PICK a \in Q : \A x \in Q : a >= x
    <2> HIDE DEF Q
    <2> QED  BY <1>1, MaxOf
  <1> DEFINE T == {x \in S : q[x] = a}
  <1> DEFINE K == {k[x] : x \in T}
  <1>3. K # {} /\ K \in SUBSET {k[x] : x \in S} /\ \A x \in K : x \in Int
    OBVIOUS
  <1> HIDE DEF K
  <1>4. IsFiniteSet(K)
    BY <1>3, FS_Subset
  <1>5. PICK b \in K : \A x \in K : b >= x
    BY <1>3, <1>4, MaxOf
  <1>6. PICK x \in T : k[x] = b
    BY DEF K
  <1>7. ASSUME NEW y \in S \ {x} PROVE q[x] > q[y] \/ (q[x] = q[y] /\ k[x] > k[y])
    <2>1. a >= q[y] /\ q[x] = a /\ a \in Int /\ q[y] \in Int
      BY <1>2
    <2>2. CASE q[y] = a
      <3>1. b >= k[y] /\ k[x] # k[y] /\ k[x] \in Int /\ k[y] \in Int
        BY <1>5, <1>6, <2>1, <2>2 DEF K
      <3> QED
        BY <1>6, <2>1, <2>2, <3>1
    <2>3. CASE q[y] # a
      BY <2>1, <2>3
    <2> QED
      BY <2>2, <2>3
  <1> QED
    BY <1>7

LEMMA TwoKeysOfFinite ==
  ASSUME NEW S, S # {}, IsFiniteSet(S), NEW q \in [S -> Int], NEW k \in [S -> Int],
         \A x, y \in S : q[x] = q[y] /\ k[x] = k[y] => x = y
  PROVE  \E x \in S : \A y \in S \ {x} : q[x] > q[y] \/ (q[x] = q[y] /\ k[x] > k[y])
  <1>1. IsFiniteSet({q[x] : x \in S})
    BY FiniteImage
  <1>2. IsFiniteSet({k[x] : x \in S})
    BY FiniteImage
  <1> QED
    BY <1>1, <1>2, TwoKeys

LEMMA GradesAreFinite ==
  ASSUME NEW S \in SUBSET Grades
  PROVE  IsFiniteSet(S) /\ \A x \in S : x \in Int
  <1>1. 0 \in Int /\ One \in Int
    BY DEF One
  <1>2. IsFiniteSet(Grades)
    BY <1>1, FS_Interval DEF Grades
  <1>3. \A x \in Grades : x \in Int
    BY DEF Grades, One
  <1> QED
    BY <1>2, <1>3, FS_Subset

\* Some positions on a chart are finitely many numbers.
LEMMA ChartPositions ==
  ASSUME NEW cs \in Seq(Prices), NEW S \in SUBSET DOMAIN cs
  PROVE  IsFiniteSet(S) /\ (\A x \in S : x \in Int) /\ Latest(S) \in Nat
  <1>1. Len(cs) \in Nat /\ S \in SUBSET (1..Len(cs))
    OBVIOUS
  <1> QED
    BY <1>1, SomePositions, LatestOfSome

LEMMA BestSweepIsOne ==
  ASSUME NEW cs, NEW a, Sound(cs, a), NEW S \in SUBSET a.sweeps, S # {},
         \A s, t \in S : s.direction = t.direction
  PROVE  \E s \in S : \A t \in S \ {s} :
           s.quality > t.quality \/ (s.quality = t.quality /\ s.index > t.index)
  <1> DEFINE q == [s \in S |-> s.quality]
  <1> DEFINE k == [s \in S |-> s.index]
  <1>1. cs \in Seq(Prices) /\ \A s \in S : s.index \in DOMAIN cs /\ s.quality \in Grades
    BY DEF Sound, SweepsSound
  <1>2. {q[x] : x \in S} \in SUBSET Grades /\ {k[x] : x \in S} \in SUBSET DOMAIN cs
    BY <1>1
  <1>3. q \in [S -> Int] /\ k \in [S -> Int]
    <2>1. \A x \in Grades : x \in Int
      BY DEF Grades, One
    <2>2. \A x \in DOMAIN cs : x \in Int
      BY <1>1
    <2> QED
      BY <1>1, <2>1, <2>2
  <1>4. \A x, y \in S : q[x] = q[y] /\ k[x] = k[y] => x = y
    BY DEF Sound, SweepsSound
  <1>5. \A x \in S : q[x] = x.quality /\ k[x] = x.index
    OBVIOUS
  <1> HIDE DEF q, k
  <1>6. IsFiniteSet({q[x] : x \in S}) /\ IsFiniteSet({k[x] : x \in S})
    BY <1>1, <1>2, GradesAreFinite, ChartPositions
  <1>7. PICK s \in S : \A t \in S \ {s} : q[s] > q[t] \/ (q[s] = q[t] /\ k[s] > k[t])
    BY <1>3, <1>4, <1>6, TwoKeys
  <1> QED
    BY <1>5, <1>7

LEMMA BestEventIsOne ==
  ASSUME NEW cs, NEW a, Sound(cs, a), NEW S \in SUBSET a.events, S # {}
  PROVE  \E v \in S : \A u \in S \ {v} : v.index > u.index
  <1> DEFINE K == {v.index : v \in S}
  <1>1. cs \in Seq(Prices) /\ \A v \in S : v.index \in DOMAIN cs
    BY DEF Sound, EventsSound
  <1>2. K \in SUBSET DOMAIN cs /\ K # {}
    BY <1>1
  <1> HIDE DEF K
  <1>3. PICK m \in K : \A x \in K : m >= x
    BY <1>1, <1>2, ChartPositions, MaxOf
  <1>4. PICK v \in S : v.index = m
    BY DEF K
  <1>5. ASSUME NEW u \in S \ {v} PROVE v.index > u.index
    <2>1. u.index # v.index
      BY DEF Sound, EventsSound
    <2>2. u.index \in Int /\ v.index \in Int
      BY <1>1
    <2>3. v.index >= u.index
      BY <1>3, <1>4 DEF K
    <2> QED
      BY <2>1, <2>2, <2>3
  <1> QED
    BY <1>5

\* The evidence in one direction: at most one sweep, of that direction, and at most
\* one break, both of the chart.
EvidenceOf(a, w, e) ==
  /\ e.wanted = w
  /\ \/ e.sweep = {}
     \/ \E s \in a.sweeps : e.sweep = {s} /\ s.direction = w
  /\ e.event = {} \/ \E v \in a.events : e.event = {v}
  /\ e.latest \in Nat

LEMMA EvidenceIs ==
  ASSUME NEW cs, NEW a, Sound(cs, a), NEW w
  PROVE  EvidenceOf(a, w, Evidence(cs, a, w))
  <1> DEFINE n == Len(cs)
  <1> DEFINE sweeps == {s \in a.sweeps : /\ s.direction = w
                                         /\ s.confirmed <= n /\ n - s.index <= MaxAge}
  <1> DEFINE events == {e \in a.events : /\ e.direction = w
                                         /\ n - e.index <= MaxAge
                                         /\ e.displaced /\ e.clearance >= 1200}
  <1> DEFINE finer(s, t) == s.quality > t.quality
                              \/ (s.quality = t.quality /\ s.index > t.index)
  <1> DEFINE later(e, f) == e.index > f.index
  <1> DEFINE sweep == IF sweeps = {} THEN {}
                      ELSE {CHOOSE x \in sweeps : \A y \in sweeps \ {x} : finer(x, y)}
  <1> DEFINE event == IF events = {} THEN {}
                      ELSE {CHOOSE x \in events : \A y \in events \ {x} : later(x, y)}
  <1> DEFINE latest == Latest({s.index : s \in sweeps} \cup {e.index : e \in events})
  <1> DEFINE e == Evidence(cs, a, w)
  <1>1. e.wanted = w /\ e.sweep = sweep /\ e.event = event /\ e.latest = latest
    BY DEF Evidence, Best
  <1> HIDE DEF e
  <1>2. sweeps \in SUBSET a.sweeps /\ \A s \in sweeps : s.direction = w
    OBVIOUS
  <1>3. events \in SUBSET a.events
    OBVIOUS
  <1> HIDE DEF sweeps, events
  <1>4. sweep = {} \/ \E s \in a.sweeps : sweep = {s} /\ s.direction = w
    <2>1. CASE sweeps = {}
      BY <2>1
    <2>2. CASE sweeps # {}
      <3>1. \E x \in sweeps : \A y \in sweeps \ {x} : finer(x, y)
        BY <1>2, <2>2, BestSweepIsOne
      <3> HIDE DEF finer
      <3>2. (CHOOSE x \in sweeps : \A y \in sweeps \ {x} : finer(x, y)) \in sweeps
        BY <3>1
      <3> QED
        BY <1>2, <2>2, <3>2
    <2> QED
      BY <2>1, <2>2
  <1>5. event = {} \/ \E v \in a.events : event = {v}
    <2>1. CASE events = {}
      BY <2>1
    <2>2. CASE events # {}
      <3>1. \E x \in events : \A y \in events \ {x} : later(x, y)
        BY <1>3, <2>2, BestEventIsOne
      <3> HIDE DEF later
      <3>2. (CHOOSE x \in events : \A y \in events \ {x} : later(x, y)) \in events
        BY <3>1
      <3> QED
        BY <1>3, <2>2, <3>2
    <2> QED
      BY <2>1, <2>2
  <1>6. latest \in Nat
    <2>1. cs \in Seq(Prices)
      BY DEF Sound
    <2>2. {s.index : s \in sweeps} \cup {v.index : v \in events} \in SUBSET DOMAIN cs
      BY <1>2, <1>3 DEF Sound, SweepsSound, EventsSound
    <2> QED
      BY <2>1, <2>2, ChartPositions
  <1> HIDE DEF sweep, event, latest
  <1>7. EvidenceOf(a, w, e)
    BY <1>1, <1>4, <1>5, <1>6 DEF EvidenceOf
  <1> QED
    BY <1>7 DEF e

LEMMA TriggerIs ==
  ASSUME NEW cs, NEW a, Sound(cs, a), NEW w, NEW e, EvidenceOf(a, w, e)
  PROVE  /\ TriggerQuality(e) \in Int
         /\ ~HasTrigger(e) => TriggerQuality(e) = 0
  <1> DEFINE S == {s.quality : s \in e.sweep}
  <1> DEFINE V == {4500 + Percent(35, v.quality) : v \in e.event}
  <1>0. TriggerQuality(e) = Max({0} \cup S \cup V)
    BY DEF TriggerQuality
  <1>1. \A x \in Grades : x \in Int
    BY DEF Grades, One
  <1>2. S = {} \/ \E x \in Int : S = {x}
    <2>1. CASE e.sweep = {}
      BY <2>1
    <2>2. ASSUME NEW s \in a.sweeps, e.sweep = {s} PROVE \E x \in Int : S = {x}
      <3>1. S = {s.quality}
        BY <2>2
      <3>2. s.quality \in Int
        BY <1>1 DEF Sound, SweepsSound
      <3> QED
        BY <3>1, <3>2
    <2> QED
      BY <2>1, <2>2 DEF EvidenceOf
  <1>3. V = {} \/ \E x \in Int : V = {x}
    <2>1. CASE e.event = {}
      BY <2>1
    <2>2. ASSUME NEW v \in a.events, e.event = {v} PROVE \E x \in Int : V = {x}
      <3>1. V = {4500 + Percent(35, v.quality)}
        BY <2>2
      <3>2. v.quality \in Int
        BY <1>1 DEF Sound, EventsSound
      <3>3. Percent(35, v.quality) \in Int
        BY <3>2, PercentIsInt, 35 \in Int
      <3> QED
        BY <3>1, <3>3
    <2> QED
      BY <2>1, <2>2 DEF EvidenceOf
  <1>4. ~HasTrigger(e) => S = {} /\ V = {}
    BY DEF HasTrigger
  <1> HIDE DEF S, V
  <1>5. IsFiniteSet({0} \cup S \cup V)
    <2>1. IsFiniteSet(S)
      BY <1>2, FS_Singleton, FS_EmptySet
    <2>2. IsFiniteSet(V)
      BY <1>3, FS_Singleton, FS_EmptySet
    <2>3. IsFiniteSet({0})
      BY FS_Singleton
    <2>4. IsFiniteSet({0} \cup S)
      BY <2>1, <2>3, FS_Union
    <2> QED
      BY <2>2, <2>4, FS_Union
  <1>6. \A x \in {0} \cup S \cup V : x \in Int
    BY <1>2, <1>3
  <1> DEFINE T == {0} \cup S \cup V
  <1>7. T # {} /\ (S = {} /\ V = {} => T = {0})
    OBVIOUS
  <1> HIDE DEF T
  <1>8. Max(T) \in T /\ Max(T) \in Int
    BY <1>5, <1>6, <1>7, MaxOf DEF T
  <1> QED
    BY <1>0, <1>4, <1>7, <1>8 DEF T

\* A direction that may be traded: its evidence, its classification.
LEMMA ResultIs ==
  ASSUME NEW cs, NEW a, NEW h1, NEW r \in Results(cs, a, h1)
  PROVE  \E w \in {"bullish", "bearish"} :
           /\ r = [evidence |-> Evidence(cs, a, w),
                   class |-> Classify(Evidence(cs, a, w), h1, a)]
           /\ HasTrigger(Evidence(cs, a, w))
           /\ r.evidence.wanted = w /\ r.class.allowed
  <1>1. PICK e \in {f \in {Evidence(cs, a, w) : w \in {"bullish", "bearish"}} :
                      HasTrigger(f)} :
          r = [evidence |-> e, class |-> Classify(e, h1, a)]
    BY DEF Results
  <1>2. r.class.allowed
    BY DEF Results
  <1>3. PICK w \in {"bullish", "bearish"} : e = Evidence(cs, a, w) /\ HasTrigger(e)
    BY <1>1
  <1>4. r.evidence = e
    BY <1>1
  <1>5. e.wanted = w
    BY <1>3, EvidenceSide
  <1> QED
    BY <1>1, <1>2, <1>3, <1>4, <1>5

\* mtf.decide's order of two directions.
Before(r, s) ==
  LET e == r.evidence   f == s.evidence
      q == TriggerQuality(e)   u == TriggerQuality(f)
  IN  \/ e.latest > f.latest
      \/ e.latest = f.latest /\ q > u
      \/ e.latest = f.latest /\ q = u
         /\ Preference(r.class.type) <= Preference(s.class.type)

\* Two directions at most, so the order always has a first: the decision is
\* one of the directions that may be traded, or none.
LEMMA DecisionIs ==
  ASSUME NEW cs, NEW a, Sound(cs, a), NEW h1
  PROVE  \/ Decide(cs, a, h1) = {}
         \/ \E r \in Results(cs, a, h1) : Decide(cs, a, h1) = {r}
  <1> DEFINE R == Results(cs, a, h1)
  <1>1. Decide(cs, a, h1)
          = IF R = {} THEN {} ELSE {CHOOSE x \in R : \A y \in R \ {x} : Before(x, y)}
    BY DEF Decide, Best, Before
  <1>2. ASSUME NEW r \in R
        PROVE  /\ r.evidence.latest \in Nat
               /\ TriggerQuality(r.evidence) \in Int
               /\ Preference(r.class.type) \in Int
    <2>1. PICK w \in {"bullish", "bearish"} :
            /\ r = [evidence |-> Evidence(cs, a, w),
                    class |-> Classify(Evidence(cs, a, w), h1, a)]
            /\ r.class.allowed
      BY ResultIs
    <2>2. EvidenceOf(a, w, r.evidence)
      BY <2>1, EvidenceIs
    <2>3. r.evidence.latest \in Nat
      BY <2>2 DEF EvidenceOf
    <2>4. TriggerQuality(r.evidence) \in Int
      BY <2>2, TriggerIs
    <2>5. r.class = Classify(r.evidence, h1, a)
      BY <2>1
    <2>6. r.class.type \in {"CONTINUATION", "RANGE_ROTATION", "REVERSAL"}
      BY <2>1, <2>5, TakenAs
    <2>7. Preference(r.class.type) \in Int
      BY <2>6 DEF Preference
    <2> QED
      BY <2>3, <2>4, <2>7
  <1>3. \A r, s \in R : Before(r, s) \/ Before(s, r)
    BY <1>2 DEF Before
  <1>4. \A r, s \in R : r.evidence.wanted = s.evidence.wanted => r = s
    BY ResultIs
  <1>5. \A r \in R : r.evidence.wanted \in {"bullish", "bearish"}
    BY ResultIs
  <1>6. ASSUME R # {} PROVE \E x \in R : \A y \in R \ {x} : Before(x, y)
    <2>1. PICK r \in R : TRUE
      BY <1>6
    <2> HIDE DEF R
    <2>2. CASE \A y \in R : y = r
      BY <2>2
    <2>3. ASSUME NEW s \in R, s # r PROVE \E x \in R : \A y \in R \ {x} : Before(x, y)
      <3>1. \A y \in R : y = r \/ y = s
        BY <1>4, <1>5, <2>3
      <3> QED
        BY <1>3, <2>3, <3>1
    <2> QED
      BY <2>2, <2>3
  <1> HIDE DEF R
  <1>7. CASE R # {}
    <2>1. (CHOOSE x \in R : \A y \in R \ {x} : Before(x, y)) \in R
      BY <1>6, <1>7
    <2> QED
      BY <1>1, <1>7, <2>1 DEF R
  <1> QED
    BY <1>1, <1>7

-----------------------------------------------------------------------------
(* The candidate: its zone, and the stop behind it.                        *)

\* Of some gaps there is a largest and, among the largest, a newest.
LEMMA LargestGap ==
  ASSUME NEW cs, NEW a, Sound(cs, a), NEW S \in SUBSET a.gaps, S # {}
  PROVE  \E x \in S : \A y \in S \ {x} :
           x.size > y.size \/ (x.size = y.size /\ x.index > y.index)
  <1> DEFINE q == [g \in S |-> g.size]
  <1> DEFINE k == [g \in S |-> g.index]
  <1>1. IsFiniteSet(S)
    BY FS_Subset DEF Sound, GapsSound
  <1>2. \A g \in S : g.size \in Int /\ g.index \in Int
    <2>1. \A g \in S : ZoneOn(cs, g) /\ g.size \in Int
      BY DEF Sound, GapsSound
    <2>2. \A g \in S : g.index \in 1..g.formed /\ g.formed \in DOMAIN cs
      BY <2>1 DEF ZoneOn
    <2>3. cs \in Seq(Prices)
      BY DEF Sound
    <2>4. \A p \in DOMAIN cs : p \in Int
      BY <2>3
    <2> QED
      BY <2>1, <2>2, <2>4
  <1>3. q \in [S -> Int] /\ k \in [S -> Int]
    BY <1>2
  <1>4. \A x, y \in S : q[x] = q[y] /\ k[x] = k[y] => x = y
    BY DEF Sound, GapsSound
  <1>5. \A x \in S : q[x] = x.size /\ k[x] = x.index
    OBVIOUS
  <1> HIDE DEF q, k
  <1>6. \E x \in S : \A y \in S \ {x} : q[x] > q[y] \/ (q[x] = q[y] /\ k[x] > k[y])
    BY <1>1, <1>3, <1>4, TwoKeysOfFinite
  <1> QED
    BY <1>5, <1>6

\* Of some gaps there is a best one.
LEMMA BestGapIsOne ==
  ASSUME NEW cs, NEW a, Sound(cs, a), NEW S \in SUBSET a.gaps
  PROVE  (BestGap(S) = {} /\ S = {}) \/ \E g \in S : BestGap(S) = {g}
  <1> DEFINE better(g, h) ==
        \/ g.displaced /\ ~h.displaced
        \/ g.displaced = h.displaced
           /\ (g.size > h.size \/ (g.size = h.size /\ g.index > h.index))
  <1>1. BestGap(S)
          = IF S = {} THEN {} ELSE {CHOOSE x \in S : \A y \in S \ {x} : better(x, y)}
    BY DEF BestGap, Best
  <1> DEFINE T == IF \E g \in S : g.displaced THEN {g \in S : g.displaced} ELSE S
  <1>2. /\ T \in SUBSET S
        /\ S # {} => T # {}
        /\ \A x \in T : \A y \in S \ T : x.displaced /\ ~y.displaced
    OBVIOUS
  <1>3. \A g \in S : g.displaced \in BOOLEAN /\ g.size \in Int /\ g.index \in Int
    <2>1. \A g \in S : ZoneOn(cs, g) /\ g.displaced \in BOOLEAN /\ g.size \in Int
      BY DEF Sound, GapsSound
    <2>2. \A g \in S : g.index \in 1..g.formed /\ g.formed \in DOMAIN cs
      BY <2>1 DEF ZoneOn
    <2>3. cs \in Seq(Prices)
      BY DEF Sound
    <2>4. \A p \in DOMAIN cs : p \in Int
      BY <2>3
    <2> QED
      BY <2>1, <2>2, <2>4
  <1>4. \A x, y \in T : x.displaced = y.displaced
    BY <1>3
  <1>5. IsFiniteSet(T)
    BY <1>2, FS_Subset DEF Sound, GapsSound
  <1> HIDE DEF T
  <1>6. ASSUME S # {} PROVE \E x \in T : \A y \in S \ {x} : better(x, y)
    <2>1. \E x \in T : \A y \in T \ {x} :
            x.size > y.size \/ (x.size = y.size /\ x.index > y.index)
      BY <1>2, <1>6, LargestGap
    <2>6. PICK x \in T : \A y \in T \ {x} :
            x.size > y.size \/ (x.size = y.size /\ x.index > y.index)
      BY <2>1
    <2>7. \A y \in T \ {x} : better(x, y)
      BY <1>4, <2>6
    <2>8. \A y \in S \ T : better(x, y)
      BY <1>2, <2>6
    <2> QED
      BY <2>7, <2>8
  <1>7. CASE S = {}
    BY <1>1, <1>7
  <1>8. CASE S # {}
    <2>1. \E x \in S : \A y \in S \ {x} : better(x, y)
      BY <1>2, <1>6, <1>8
    <2> HIDE DEF better
    <2>2. (CHOOSE x \in S : \A y \in S \ {x} : better(x, y)) \in S
      BY <2>1
    <2> QED
      BY <1>1, <1>8, <2>2
  <1> QED
    BY <1>7, <1>8

\* Of the blocks of one direction there is a best one.
LEMMA BestBlockIsOne ==
  ASSUME NEW cs, NEW a, Sound(cs, a), NEW S \in SUBSET a.blocks,
         \A b, c \in S : b.direction = c.direction
  PROVE  (BestBlock(S) = {} /\ S = {}) \/ \E b \in S : BestBlock(S) = {b}
  <1> DEFINE better(b, c) == b.strength > c.strength
                             \/ (b.strength = c.strength /\ b.index > c.index)
  <1>1. BestBlock(S)
          = IF S = {} THEN {} ELSE {CHOOSE x \in S : \A y \in S \ {x} : better(x, y)}
    BY DEF BestBlock, Best
  <1> DEFINE q == [b \in S |-> b.strength]
  <1> DEFINE k == [b \in S |-> b.index]
  <1>2. cs \in Seq(Prices)
    BY DEF Sound
  <1>3. \A b \in S : b.strength \in Grades /\ b.index \in DOMAIN cs
    <2>1. \A b \in S : ZoneOn(cs, b) /\ b.strength \in Grades
      BY DEF Sound, BlocksSound
    <2>2. \A b \in S : b.index \in 1..b.formed /\ b.formed \in 1..Len(cs)
      BY <1>2, <2>1 DEF ZoneOn
    <2>3. Len(cs) \in Nat /\ DOMAIN cs = 1..Len(cs)
      BY <1>2
    <2> QED
      BY <2>1, <2>2, <2>3
  <1>4. {q[x] : x \in S} \in SUBSET Grades /\ {k[x] : x \in S} \in SUBSET DOMAIN cs
    BY <1>3
  <1>5. q \in [S -> Int] /\ k \in [S -> Int]
    <2>1. \A x \in Grades : x \in Int
      BY DEF Grades, One
    <2>2. \A x \in DOMAIN cs : x \in Int
      BY <1>2
    <2> QED
      BY <1>3, <2>1, <2>2
  <1>6. IsFiniteSet({q[x] : x \in S}) /\ IsFiniteSet({k[x] : x \in S})
    BY <1>2, <1>4, GradesAreFinite, ChartPositions
  <1>7. \A x, y \in S : q[x] = q[y] /\ k[x] = k[y] => x = y
    BY DEF Sound, BlocksSound
  <1>8. \A x \in S : q[x] = x.strength /\ k[x] = x.index
    OBVIOUS
  <1>9. CASE S = {}
    BY <1>1, <1>9
  <1>10. CASE S # {}
    <2> HIDE DEF q, k
    <2>1. \E x \in S : \A y \in S \ {x} : q[x] > q[y] \/ (q[x] = q[y] /\ k[x] > k[y])
      BY <1>5, <1>6, <1>7, <1>10, TwoKeys
    <2>2. \E x \in S : \A y \in S \ {x} : better(x, y)
      BY <1>8, <2>1
    <2> HIDE DEF better
    <2>3. (CHOOSE x \in S : \A y \in S \ {x} : better(x, y)) \in S
      BY <2>2
    <2> QED
      BY <1>1, <1>10, <2>3
  <1> QED
    BY <1>9, <1>10

LEMMA TheOne ==
  ASSUME NEW x
  PROVE  The({x}) = x
  BY DEF The

\* The zone of a candidate is one of the zones it may enter at.
LEMMA PoiIs ==
  ASSUME NEW cs, NEW a, Sound(cs, a), NEW e, NEW n
  PROVE  LET poi == ChoosePoi(BestGap(EntryZones(a.gaps, e, n)),
                              BestBlock(EntryZones(a.blocks, e, n)))
         IN  \/ poi = {}
             \/ \E z \in EntryZones(a.gaps \cup a.blocks, e, n) : poi = {z}
  <1> DEFINE G == EntryZones(a.gaps, e, n)
  <1> DEFINE B == EntryZones(a.blocks, e, n)
  <1>1. G \in SUBSET a.gaps /\ B \in SUBSET a.blocks
    BY DEF EntryZones
  <1>2. \A b, c \in B : b.direction = c.direction
    BY DEF EntryZones
  <1>3. G \cup B = EntryZones(a.gaps \cup a.blocks, e, n)
    BY DEF EntryZones
  <1> HIDE DEF G, B
  <1>4. BestGap(G) = {} \/ \E z \in G : BestGap(G) = {z}
    BY <1>1, BestGapIsOne
  <1>5. BestBlock(B) = {} \/ \E z \in B : BestBlock(B) = {z}
    BY <1>1, <1>2, BestBlockIsOne
  <1>6. ChoosePoi(BestGap(G), BestBlock(B)) \in {BestGap(G), BestBlock(B)}
    BY DEF ChoosePoi
  <1> QED
    BY <1>3, <1>4, <1>5, <1>6 DEF G, B

\* A candidate of the engine is a direction that may be traded, a zone of it
\* and levels built behind that zone.
Composed(cs, a, h1, spread, c) ==
  \E r \in Results(cs, a, h1) :
    \E z \in EntryZones(a.gaps \cup a.blocks, r.evidence, Len(cs)) :
      \E l \in BuildLevels(cs, a, Side(r.evidence.wanted), r.evidence, z, spread) :
        c = SmcCandidate(Side(r.evidence.wanted), l, {z}, r)

LEMMA CandidateIs ==
  ASSUME NEW cs, NEW a, Sound(cs, a), NEW h1, NEW spread,
         NEW c \in Evaluate(cs, a, h1, spread)
  PROVE  Composed(cs, a, h1, spread, c)
  <1> DEFINE n == Len(cs)
  <1> DEFINE decision == Decide(cs, a, h1)
  <1> DEFINE d == The(decision)
  <1> DEFINE direction == Side(d.evidence.wanted)
  <1> DEFINE poi == ChoosePoi(BestGap(EntryZones(a.gaps, d.evidence, n)),
                              BestBlock(EntryZones(a.blocks, d.evidence, n)))
  <1> DEFINE levels == BuildLevels(cs, a, direction, d.evidence, The(poi), spread)
  <1>1. /\ decision # {} /\ poi # {}
        /\ \E l \in {k \in levels : SoundLevels(k, a.atr)} :
             c = SmcCandidate(direction, l, poi, d)
    BY DEF Evaluate
  <1>2. PICK r \in Results(cs, a, h1) : decision = {r}
    BY <1>1, DecisionIs
  <1>3. d = r
    BY <1>2, TheOne
  <1>4. \E z \in EntryZones(a.gaps \cup a.blocks, r.evidence, n) : poi = {z}
    <2> HIDE DEF decision, d
    <2>1. poi = {} \/ \E z \in EntryZones(a.gaps \cup a.blocks, d.evidence, n) : poi = {z}
      BY PoiIs
    <2> QED
      BY <1>1, <1>3, <2>1
  <1>5. PICK z \in EntryZones(a.gaps \cup a.blocks, r.evidence, n) : poi = {z}
    BY <1>4
  <1> HIDE DEF decision, d, poi
  <1>6. The(poi) = z
    BY <1>5, TheOne
  <1>7. PICK l \in levels : c = SmcCandidate(direction, l, poi, d)
    BY <1>1
  <1>8. l \in BuildLevels(cs, a, Side(r.evidence.wanted), r.evidence, z, spread)
    BY <1>3, <1>6
  <1>9. c = SmcCandidate(Side(r.evidence.wanted), l, {z}, r)
    BY <1>3, <1>5, <1>7
  <1> QED
    BY <1>8, <1>9 DEF Composed

\* The stop lies at the far edge of the zone or beyond it, and somewhere
\* else than the entry.
LEMMA StopIsBehind ==
  ASSUME NEW cs, NEW a, Sound(cs, a), NEW w, NEW e, EvidenceOf(a, w, e),
         NEW z, ZoneOn(cs, z), NEW spread \in Nat, NEW direction,
         NEW l \in BuildLevels(cs, a, direction, e, z, spread)
  PROVE  /\ l.stop \in Int /\ l.distance \in Int /\ l.distance > 0
         /\ direction = "BUY" => l.stop <= z.lower
         /\ direction # "BUY" => l.stop >= z.upper
  <1> DEFINE n == Len(cs)
  <1> DEFINE entry == cs[n].close
  <1> DEFINE buffer == Percent(20, a.atr) + spread
  <1> DEFINE swept == {s \in e.sweep : s.index >= z.index}
  <1> DEFINE lows == {z.lower} \cup {cs[s.index].low : s \in swept}
  <1> DEFINE highs == {z.upper} \cup {cs[s.index].high : s \in swept}
  <1> DEFINE stop == IF direction = "BUY" THEN Min(lows) - buffer ELSE Max(highs) + buffer
  <1>1. /\ l.stop = stop /\ l.distance = Abs(entry - stop)
        /\ IF direction = "BUY" THEN stop < entry ELSE entry < stop
    BY DEF BuildLevels
  <1>2. cs \in Seq(Prices) /\ cs # <<>> /\ n \in DOMAIN cs
    BY DEF Sound
  <1>3. \A p \in DOMAIN cs : cs[p].low \in Int /\ cs[p].high \in Int /\ cs[p].close \in Int
    BY <1>2, CandleAt
  <1>4. entry \in Int
    BY <1>2, <1>3
  <1>5. buffer \in Nat
    <2>1. a.atr \in Nat
      BY DEF Sound
    <2>2. Percent(20, a.atr) \in Nat
      BY <2>1, PercentIsNat, 20 \in Nat
    <2> QED
      BY <2>2
  <1>6. z.lower \in Int /\ z.upper \in Int
    BY DEF ZoneOn
  <1>7. swept = {} \/ \E p \in DOMAIN cs : \E s \in a.sweeps : swept = {s} /\ s.index = p
    <2>1. e.sweep = {} \/ \E s \in a.sweeps : e.sweep = {s}
      BY DEF EvidenceOf
    <2>2. \A s \in a.sweeps : s.index \in DOMAIN cs
      BY DEF Sound, SweepsSound
    <2> QED
      BY <2>1, <2>2
  <1>8. lows = {z.lower} \/ \E p \in DOMAIN cs : lows = {z.lower, cs[p].low}
    BY <1>7
  <1>9. highs = {z.upper} \/ \E p \in DOMAIN cs : highs = {z.upper, cs[p].high}
    BY <1>7
  <1> HIDE DEF entry, buffer, lows, highs
  <1>10. Min(lows) \in Int /\ Min(lows) <= z.lower
    <2>1. CASE lows = {z.lower}
      <3>1. lows = {z.lower, z.lower}
        BY <2>1
      <3> QED
        BY <1>6, <3>1, MinPair
    <2>2. ASSUME NEW p \in DOMAIN cs, lows = {z.lower, cs[p].low}
          PROVE  Min(lows) \in Int /\ Min(lows) <= z.lower
      BY <1>3, <1>6, <2>2, MinPair
    <2> QED
      BY <1>8, <2>1, <2>2
  <1>11. Max(highs) \in Int /\ Max(highs) >= z.upper
    <2>1. CASE highs = {z.upper}
      <3>1. highs = {z.upper, z.upper}
        BY <2>1
      <3> QED
        BY <1>6, <3>1, MaxPair
    <2>2. ASSUME NEW p \in DOMAIN cs, highs = {z.upper, cs[p].high}
          PROVE  Max(highs) \in Int /\ Max(highs) >= z.upper
      BY <1>3, <1>6, <2>2, MaxPair
    <2> QED
      BY <1>9, <2>1, <2>2
  <1>12. /\ stop \in Int
         /\ direction = "BUY" => stop <= z.lower
         /\ direction # "BUY" => stop >= z.upper
    BY <1>5, <1>6, <1>10, <1>11
  <1> HIDE DEF stop
  <1>13. Abs(entry - stop) \in Int /\ Abs(entry - stop) > 0
    BY <1>1, <1>4, <1>12 DEF Abs
  <1> QED
    BY <1>1, <1>12, <1>13

\* Once a zone has formed, a candle that reaches its far edge uses it up, so
\* no candle after a live zone has reached it.
LEMMA LiveIsUntouched ==
  ASSUME NEW cs \in Seq(Prices), NEW z, ZoneOn(cs, z), IsLive(z, Len(cs), 60),
         NEW i \in (z.formed + 1)..Len(cs)
  PROVE  ~Through(cs, z, i)
  <1>1. Len(cs) \in Nat /\ z.formed \in Nat
    BY DEF ZoneOn
  <1>2. \/ /\ z.spent = None
           /\ \A p \in (z.formed + 1)..Len(cs) : ~Through(cs, z, p)
        \/ z.spent \in (z.formed + 1)..Len(cs)
    BY <1>1, SpentIs DEF ZoneOn
  <1>3. z.spent = None \/ z.spent > Len(cs)
    BY DEF IsLive
  <1>4. \A p \in (z.formed + 1)..Len(cs) : p # None /\ ~(p > Len(cs))
    BY <1>1 DEF None
  <1> QED
    BY <1>2, <1>3, <1>4

\* The candidate's direction is its zone's, and its levels are built there.
LEMMA CandidateShape ==
  ASSUME NEW cs, NEW a, Sound(cs, a), NEW h1, NEW spread \in Nat,
         NEW c \in Evaluate(cs, a, h1, spread)
  PROVE  \E z \in a.gaps \cup a.blocks :
           /\ c.zone = {z} /\ ZoneOn(cs, z) /\ IsLive(z, Len(cs), 60)
           /\ c.direction = Side(z.direction)
           /\ HasTrigger(c.evidence)
           /\ c.levels.stop \in Int /\ c.levels.distance > 0
           /\ c.direction = "BUY" => c.levels.stop <= z.lower
           /\ c.direction # "BUY" => c.levels.stop >= z.upper
  <1>0. Composed(cs, a, h1, spread, c)
    BY CandidateIs
  <1>1. PICK r \in Results(cs, a, h1) :
          \E z \in EntryZones(a.gaps \cup a.blocks, r.evidence, Len(cs)) :
             \E l \in BuildLevels(cs, a, Side(r.evidence.wanted), r.evidence, z, spread) :
               c = SmcCandidate(Side(r.evidence.wanted), l, {z}, r)
    BY <1>0 DEF Composed
  <1>2. PICK z \in EntryZones(a.gaps \cup a.blocks, r.evidence, Len(cs)) :
          \E l \in BuildLevels(cs, a, Side(r.evidence.wanted), r.evidence, z, spread) :
               c = SmcCandidate(Side(r.evidence.wanted), l, {z}, r)
    BY <1>1
  <1>3. PICK l \in BuildLevels(cs, a, Side(r.evidence.wanted), r.evidence, z, spread) :
               c = SmcCandidate(Side(r.evidence.wanted), l, {z}, r)
    BY <1>2
  <1>4. PICK w \in {"bullish", "bearish"} :
          /\ r = [evidence |-> Evidence(cs, a, w),
                  class |-> Classify(Evidence(cs, a, w), h1, a)]
          /\ HasTrigger(Evidence(cs, a, w)) /\ r.evidence.wanted = w
    BY ResultIs
  <1>5. r.evidence = Evidence(cs, a, w)
    BY <1>4
  <1>6. EvidenceOf(a, w, r.evidence)
    BY <1>5, EvidenceIs
  <1>7. /\ z \in a.gaps \cup a.blocks /\ IsLive(z, Len(cs), 60)
        /\ z.direction = w
    BY <1>4 DEF EntryZones
  <1>8. ZoneOn(cs, z)
    BY <1>7 DEF Sound, GapsSound, BlocksSound
  <1>9. /\ l.stop \in Int /\ l.distance > 0
        /\ Side(w) = "BUY" => l.stop <= z.lower
        /\ Side(w) # "BUY" => l.stop >= z.upper
    BY <1>3, <1>4, <1>6, <1>8, StopIsBehind
  <1>10. /\ c.zone = {z} /\ c.direction = Side(w) /\ c.levels = l
         /\ c.evidence = r.evidence
    BY <1>3, <1>4 DEF SmcCandidate
  <1> QED
    BY <1>4, <1>5, <1>7, <1>8, <1>9, <1>10

LEMMA SoundScan ==
  ASSUME Charted
  PROVE  Sound(candles, analysis)
  BY AnalysisIsSound DEF Charted, Valid

\* A candidate's stop lies behind a zone that is still live, so no candle
\* since the zone formed has traded at it (engine._build_levels with the
\* life cycle of the zone).
THEOREM StopsAreUntouched == Spec => []StopUntouched
  <1>1. ASSUME Charted PROVE StopUntouched
    <2> SUFFICES ASSUME NEW h1 \in H1Readings, NEW spread \in Spreads,
                        NEW c \in Evaluate(candles, analysis, h1, spread),
                        NEW i \in (The(c.zone).formed + 1)..Len(candles)
                 PROVE  IF c.direction = "BUY" THEN candles[i].low > c.levels.stop
                                               ELSE candles[i].high < c.levels.stop
      BY DEF StopUntouched
    <2>1. Sound(candles, analysis) /\ candles \in Seq(Prices) /\ spread \in Nat
      BY <1>1, SoundScan, StrategyAssumption DEF Sound
    <2>2. PICK z \in analysis.gaps \cup analysis.blocks :
            /\ c.zone = {z} /\ ZoneOn(candles, z) /\ IsLive(z, Len(candles), 60)
            /\ c.direction = Side(z.direction)
            /\ c.levels.stop \in Int
            /\ c.direction = "BUY" => c.levels.stop <= z.lower
            /\ c.direction # "BUY" => c.levels.stop >= z.upper
      BY <2>1, CandidateShape
    <2>3. The(c.zone) = z
      BY <2>2, TheOne
    <2>4. ~Through(candles, z, i)
      BY <2>1, <2>2, <2>3, LiveIsUntouched
    <2>5. z.formed \in Nat /\ Len(candles) \in Nat /\ i \in DOMAIN candles
      BY <2>1, <2>2, <2>3 DEF ZoneOn
    <2>6. candles[i].low \in Int /\ candles[i].high \in Int
      BY <2>1, <2>5, CandleAt
    <2>7. z.lower \in Int /\ z.upper \in Int /\ z.direction \in {"bullish", "bearish"}
      BY <2>2 DEF ZoneOn
    <2> QED
      BY <2>2, <2>4, <2>6, <2>7 DEF Through, Side
  <1> QED
    BY <1>1, StaysCharted, PTL

-----------------------------------------------------------------------------
(* A candle that closes revises nothing that was read off the chart before *)
(* it: what a detector says of candle i is a function of the candles up to *)
(* i, and of as many after it as it waits for.                             *)

\* The chart ds is the chart cs with one more candle.
Grown(cs, ds) ==
  /\ cs \in Seq(Prices) /\ Valid(cs) /\ cs # <<>>
  /\ ds \in Seq(Prices) /\ Valid(ds) /\ Len(ds) = Len(cs) + 1
  /\ \A i \in DOMAIN cs : ds[i] = cs[i]

LEMMA GrownDomains ==
  ASSUME NEW cs, NEW ds, Grown(cs, ds)
  PROVE  /\ Len(cs) \in Nat \ {0} /\ Len(ds) = Len(cs) + 1
         /\ DOMAIN cs = 1..Len(cs) /\ DOMAIN ds = 1..(Len(cs) + 1)
         /\ \A i \in DOMAIN cs : ds[i] = cs[i] /\ i \in DOMAIN ds
         /\ cs \in Seq(Prices) /\ ds \in Seq(Prices) /\ Valid(cs) /\ Valid(ds)
  <1>1. cs \in Seq(Prices) /\ cs # <<>> /\ ds \in Seq(Prices) /\ Len(ds) = Len(cs) + 1
    BY DEF Grown
  <1>2. Len(cs) \in Nat \ {0} /\ DOMAIN cs = 1..Len(cs) /\ DOMAIN ds = 1..(Len(cs) + 1)
    BY <1>1
  <1>3. \A i \in 1..Len(cs) : i \in 1..(Len(cs) + 1)
    BY <1>2
  <1> QED
    BY <1>1, <1>2, <1>3 DEF Grown

LEMMA AtrStands ==
  ASSUME NEW cs, NEW ds, Grown(cs, ds), NEW i \in DOMAIN cs
  PROVE  Atr(ds, i) = Atr(cs, i)
  <1> DEFINE from == Max({1, i - AtrPeriod + 1})
  <1>0. /\ i \in 1..Len(cs) /\ Len(cs) \in Nat
        /\ cs \in Seq(Prices) /\ ds \in Seq(Prices) /\ Valid(cs) /\ Valid(ds)
    BY GrownDomains
  <1>1. from \in 1..i
    BY <1>0, MaxPair, ChartAssumption
  <1>2. /\ Atr(cs, i) = RangeSum(cs, from..i) \div (i - from + 1)
        /\ Atr(ds, i) = RangeSum(ds, from..i) \div (i - from + 1)
    BY DEF Atr, RangeSum
  <1> HIDE DEF from
  <1>3. from..i \subseteq DOMAIN cs /\ from..i \subseteq DOMAIN ds
    BY <1>0, <1>1, GrownDomains
  <1>4. ASSUME NEW j \in DOMAIN cs PROVE TrueRange(ds, j) = TrueRange(cs, j)
    <2>1. j \in 1..Len(cs) /\ ds[j] = cs[j]
      BY GrownDomains
    <2>2. CASE j = 1
      BY <2>1, <2>2 DEF TrueRange
    <2>3. CASE j # 1
      <3>1. j - 1 \in DOMAIN cs
        BY <1>0, <2>1, <2>3
      <3>2. ds[j - 1] = cs[j - 1]
        BY <3>1, GrownDomains
      <3> QED
        BY <2>1, <2>3, <3>2 DEF TrueRange
    <2> QED
      BY <2>2, <2>3
  <1>5. Ranges(ds, from..i) = Ranges(cs, from..i)
    BY <1>3, <1>4 DEF Ranges
  <1>6. PICK g : /\ SumOver(from..i, Ranges(cs, from..i), g)
                 /\ RangeSum(cs, from..i) = g[from..i]
    BY <1>0, <1>3, RangesSum
  <1>7. PICK h : /\ SumOver(from..i, Ranges(ds, from..i), h)
                 /\ RangeSum(ds, from..i) = h[from..i]
    BY <1>0, <1>3, RangesSum
  <1>8. IsFiniteSet(from..i)
    BY <1>0, <1>3, RangesSum
  <1>9. g[from..i] = h[from..i]
    BY <1>5, <1>6, <1>7, <1>8, SumsAgree
  <1> QED
    BY <1>2, <1>6, <1>7, <1>9

\* A pivot that is known by candle i was one before the chart grew, and is one.
LEMMA PivotsStand ==
  ASSUME NEW cs, NEW ds, Grown(cs, ds), NEW i \in DOMAIN cs
  PROVE  /\ Known(SwingHighs(ds), i) = Known(SwingHighs(cs), i)
         /\ Known(SwingLows(ds), i) = Known(SwingLows(cs), i)
  <1> DEFINE n == Len(cs)
  <1>0. /\ i \in 1..n /\ n \in Nat /\ Len(ds) = n + 1 /\ SwingWindow \in Nat \ {0}
        /\ \A j \in 1..n : ds[j] = cs[j]
    BY GrownDomains, ChartAssumption
  <1> HIDE DEF n
  <1>1. \A p \in Int : p + SwingWindow <= i =>
          (p \in Inner(ds) <=> p \in Inner(cs))
    BY <1>0 DEF Inner, n
  <1>2. Inner(cs) \subseteq Int /\ Inner(ds) \subseteq Int
    BY DEF Inner
  <1>3. ASSUME NEW p \in Inner(cs), p + SwingWindow <= i
        PROVE  /\ p \in 1..n /\ ds[p] = cs[p]
               /\ \A j \in Around(p) : j \in 1..n /\ ds[j] = cs[j]
    BY <1>0, <1>3 DEF Inner, Around, n
  <1>4. ASSUME NEW p \in Int, p + SwingWindow <= i
        PROVE  /\ p \in SwingHighs(ds) <=> p \in SwingHighs(cs)
               /\ p \in SwingLows(ds) <=> p \in SwingLows(cs)
    BY <1>1, <1>3, <1>4 DEF SwingHighs, SwingLows
  <1>5. /\ SwingHighs(cs) \subseteq Int /\ SwingLows(cs) \subseteq Int
        /\ SwingHighs(ds) \subseteq Int /\ SwingLows(ds) \subseteq Int
    BY <1>2 DEF SwingHighs, SwingLows
  <1> QED
    BY <1>4, <1>5 DEF Known

\* What was a displacement is one, and no earlier candle becomes one.
LEMMA MovesStand ==
  ASSUME NEW cs, NEW ds, Grown(cs, ds)
  PROVE  /\ Displacements(cs) \in SUBSET DOMAIN cs
         /\ Displacements(ds) \in SUBSET DOMAIN ds
         /\ \A i \in DOMAIN cs : i \in Displacements(ds) <=> i \in Displacements(cs)
  <1>1. ASSUME NEW i \in DOMAIN cs
        PROVE  i \in Displacements(ds) <=> i \in Displacements(cs)
    <2>1. i \in 1..Len(cs) /\ Len(cs) \in Nat /\ ds[i] = cs[i] /\ i \in DOMAIN ds
      BY GrownDomains
    <2>2. Max({1, i - 2}) \in DOMAIN cs
      BY <2>1, MaxPair, GrownDomains
    <2>3. ds[Max({1, i - 2})] = cs[Max({1, i - 2})]
      BY <2>2, GrownDomains
    <2>4. Atr(ds, i) = Atr(cs, i)
      BY AtrStands
    <2> QED
      BY <2>1, <2>3, <2>4 DEF Displacements
  <1> QED
    BY <1>1 DEF Displacements

LEMMA SwingBiasStands ==
  ASSUME NEW cs, NEW ds, Grown(cs, ds), NEW n \in Nat, n <= Len(cs),
         NEW highs \in SUBSET (1..n), NEW lows \in SUBSET (1..n)
  PROVE  SwingBias(ds, highs, lows) = SwingBias(cs, highs, lows)
  <1> DEFINE h == Latest(highs)
  <1> DEFINE g == Latest(highs \ {h})
  <1> DEFINE l == Latest(lows)
  <1> DEFINE k == Latest(lows \ {l})
  <1>1. \A i \in 1..n : ds[i] = cs[i]
    BY GrownDomains
  <1>2. (h # None => h \in 1..n) /\ (g # None => g \in 1..n)
    BY LatestOfSome
  <1>3. (l # None => l \in 1..n) /\ (k # None => k \in 1..n)
    BY LatestOfSome
  <1>4. g # None => h # None
    <2>1. ASSUME g # None PROVE highs # {}
      <3>1. highs \ {h} # {}
        BY <2>1 DEF Latest
      <3> QED
        BY <3>1
    <2>2. ASSUME highs # {} PROVE h # None
      <3>1. h \in 1..n
        BY <2>2, LatestOfSome
      <3> QED
        BY <3>1 DEF None
    <2> QED
      BY <2>1, <2>2
  <1>5. k # None => l # None
    <2>1. ASSUME k # None PROVE lows # {}
      <3>1. lows \ {l} # {}
        BY <2>1 DEF Latest
      <3> QED
        BY <3>1
    <2>2. ASSUME lows # {} PROVE l # None
      <3>1. l \in 1..n
        BY <2>2, LatestOfSome
      <3> QED
        BY <3>1 DEF None
    <2> QED
      BY <2>1, <2>2
  <1> DEFINE Up(c) == \/ g # None /\ c[h].high > c[g].high
                      \/ k # None /\ c[l].low > c[k].low
  <1> DEFINE Down(c) == \/ g # None /\ c[h].high < c[g].high
                        \/ k # None /\ c[l].low < c[k].low
  <1>6. \A c : SwingBias(c, highs, lows) = CASE Up(c) /\ ~Down(c) -> "bullish"
                                             [] Down(c) /\ ~Up(c) -> "bearish"
                                             [] OTHER -> "range"
    BY DEF SwingBias
  <1> HIDE DEF h, g, l, k
  <1>7. Up(ds) <=> Up(cs)
    BY <1>1, <1>2, <1>3, <1>4, <1>5
  <1>8. Down(ds) <=> Down(cs)
    BY <1>1, <1>2, <1>3, <1>4, <1>5
  <1> HIDE DEF Up, Down
  <1> QED
    BY <1>6, <1>7, <1>8

\* Two walks that differ in the quality of a break at most: the gap behind the
\* last candle may still close.
Alike(w, v) ==
  /\ w.broken = v.broken /\ w.trend = v.trend
  /\ FixedOf(w.events) = FixedOf(v.events)

LEMMA BreakStands ==
  ASSUME NEW cs, NEW ds, Grown(cs, ds),
         NEW M \in SUBSET DOMAIN cs, NEW N \in SUBSET DOMAIN ds,
         \A j \in DOMAIN cs : j \in N <=> j \in M,
         NEW i \in DOMAIN cs, NEW p, NEW d, NEW trend
  PROVE  Fixed(Break(ds, i, p, d, trend, N)) = Fixed(Break(cs, i, p, d, trend, M))
  <1>1. M \cap {i - 1, i} = N \cap {i - 1, i}
    BY GrownDomains
  <1> DEFINE E(c, X) == Break(c, i, p, d, trend, X)
  <1>2. \A c, X : /\ E(c, X).index = i /\ E(c, X).direction = d /\ E(c, X).level = p
                  /\ E(c, X).type = IF trend = Opposite(d) THEN "CHoCH" ELSE "BOS"
                  /\ E(c, X).displaced = (Latest(X \cap {i - 1, i}) # None)
    BY DEF Break
  <1> HIDE DEF E
  <1>3. Fixed(E(ds, N)) = Fixed(E(cs, M))
    BY <1>1, <1>2 DEF Fixed
  <1> QED
    BY <1>3 DEF E

\* One candle of the walk finds the same on both charts.
LEMMA WalkOnStands ==
  ASSUME NEW cs, NEW ds, Grown(cs, ds),
         NEW M \in SUBSET DOMAIN cs, NEW N \in SUBSET DOMAIN ds,
         \A j \in DOMAIN cs : j \in N <=> j \in M,
         NEW i \in DOMAIN cs, NEW w, NEW v, Alike(w, v),
         w \in Walks, v \in Walks
  PROVE  Alike(WalkOn(cs, M, w, i), WalkOn(ds, N, v, i))
  <1> DEFINE a == Atr(cs, i)
  <1> DEFINE buffer == Percent(8, a)
  <1> DEFINE highs == Known(SwingHighs(cs), i)
  <1> DEFINE lows == Known(SwingLows(cs), i)
  <1> DEFINE bias == SwingBias(cs, highs, lows)
  <1> DEFINE trend == IF w.trend # "none" THEN w.trend
                      ELSE IF bias = "range" THEN "none" ELSE bias
  <1> DEFINE h == Latest({p \in highs : <<"high", p>> \notin w.broken})
  <1> DEFINE l == Latest({p \in lows : <<"low", p>> \notin w.broken})
  <1> DEFINE up == h # None /\ cs[i].close > cs[h].high + buffer
  <1> DEFINE down == l # None /\ cs[i].close < cs[l].low - buffer
  <1> DEFINE Rise(c, X, u) ==
        [events |-> u.events \cup {Break(c, i, h, "bullish", trend, X)},
         broken |-> u.broken \cup {<<"high", h>>}, trend |-> "bullish"]
  <1> DEFINE Fall(c, X, u) ==
        [events |-> u.events \cup {Break(c, i, l, "bearish", trend, X)},
         broken |-> u.broken \cup {<<"low", l>>}, trend |-> "bearish"]
  <1>1. WalkOn(cs, M, w, i)
          = CASE a <= 0 -> w
              [] a > 0 /\ up -> Rise(cs, M, w)
              [] a > 0 /\ ~up /\ down -> Fall(cs, M, w)
              [] OTHER -> [w EXCEPT !.trend = trend]
    BY DEF WalkOn
  <1>2. /\ Len(cs) \in Nat /\ i \in 1..Len(cs) /\ ds[i] = cs[i]
        /\ cs \in Seq(Prices) /\ DOMAIN cs = 1..Len(cs)
        /\ \A j \in DOMAIN cs : ds[j] = cs[j]
    BY GrownDomains
  <1>3. highs \in SUBSET (1..(i - 1)) /\ lows \in SUBSET (1..(i - 1)) /\ i - 1 \in Nat
    BY <1>2, KnownPoints
  <1>4. /\ Atr(ds, i) = a
        /\ Known(SwingHighs(ds), i) = highs /\ Known(SwingLows(ds), i) = lows
    BY AtrStands, PivotsStand
  <1>5. SwingBias(ds, highs, lows) = bias
    <2> HIDE DEF highs, lows
    <2> QED
      BY <1>2, <1>3, SwingBiasStands
  <1>6. (h # None => ds[h] = cs[h]) /\ (l # None => ds[l] = cs[l])
    <2>1. (h # None => h \in 1..(i - 1)) /\ (l # None => l \in 1..(i - 1))
      <3> HIDE DEF highs, lows
      <3> QED  BY <1>3, LatestOfSome
    <2> HIDE DEF h, l
    <2> QED
      BY <1>2, <2>1
  <1>7. w.broken = v.broken /\ w.trend = v.trend
    BY DEF Alike
  <1>8. WalkOn(ds, N, v, i)
          = LET up1 == h # None /\ ds[i].close > ds[h].high + buffer
                down1 == l # None /\ ds[i].close < ds[l].low - buffer
            IN  CASE a <= 0 -> v
                  [] a > 0 /\ up1 -> Rise(ds, N, v)
                  [] a > 0 /\ ~up1 /\ down1 -> Fall(ds, N, v)
                  [] OTHER -> [v EXCEPT !.trend = trend]
    <2> HIDE DEF highs, lows, bias
    <2>1. /\ {p \in highs : <<"high", p>> \notin w.broken}
               = {p \in highs : <<"high", p>> \notin v.broken}
          /\ {p \in lows : <<"low", p>> \notin w.broken}
               = {p \in lows : <<"low", p>> \notin v.broken}
      BY <1>7
    <2>2. trend = IF v.trend # "none" THEN v.trend
                  ELSE IF bias = "range" THEN "none" ELSE bias
      BY <1>7
    <2>3. /\ h = Latest({p \in highs : <<"high", p>> \notin v.broken})
          /\ l = Latest({p \in lows : <<"low", p>> \notin v.broken})
      BY <2>1
    <2> HIDE DEF h, l, trend, a
    <2> QED
      BY <1>4, <1>5, <2>2, <2>3 DEF WalkOn
  <1>9. /\ (h # None /\ ds[i].close > ds[h].high + buffer) <=> up
        /\ (l # None /\ ds[i].close < ds[l].low - buffer) <=> down
    BY <1>2, <1>6
  <1>10. Fixed(Break(ds, i, h, "bullish", trend, N)) = Fixed(Break(cs, i, h, "bullish", trend, M))
    <2> HIDE DEF h, trend
    <2> QED
      BY BreakStands
  <1>11. Fixed(Break(ds, i, l, "bearish", trend, N)) = Fixed(Break(cs, i, l, "bearish", trend, M))
    <2> HIDE DEF l, trend
    <2> QED
      BY BreakStands
  <1>12. Alike(Rise(cs, M, w), Rise(ds, N, v))
    <2> HIDE DEF h, trend
    <2>1. FixedOf(w.events \cup {Break(cs, i, h, "bullish", trend, M)})
            = FixedOf(v.events \cup {Break(ds, i, h, "bullish", trend, N)})
      BY <1>10 DEF Alike, FixedOf
    <2> QED
      BY <1>7, <2>1 DEF Alike
  <1>13. Alike(Fall(cs, M, w), Fall(ds, N, v))
    <2> HIDE DEF l, trend
    <2>1. FixedOf(w.events \cup {Break(cs, i, l, "bearish", trend, M)})
            = FixedOf(v.events \cup {Break(ds, i, l, "bearish", trend, N)})
      BY <1>11 DEF Alike, FixedOf
    <2> QED
      BY <1>7, <2>1 DEF Alike
  <1>14. Alike([w EXCEPT !.trend = trend], [v EXCEPT !.trend = trend])
    <2> HIDE DEF trend
    <2> QED
      BY DEF Alike, Walks
  <1> HIDE DEF a, h, l, up, down, Rise, Fall, trend, buffer
  <1> QED
    BY <1>1, <1>8, <1>9, <1>12, <1>13, <1>14

\* The two walks agree as far as the older chart goes.
LEMMA WalkStands ==
  ASSUME NEW cs, NEW ds, Grown(cs, ds)
  PROVE  \A i \in 0..Len(cs) : Alike(Walk(cs, Displacements(cs))[i],
                                     Walk(ds, Displacements(ds))[i])
  <1> DEFINE M == Displacements(cs)
  <1> DEFINE N == Displacements(ds)
  <1> DEFINE w == Walk(cs, M)
  <1> DEFINE v == Walk(ds, N)
  <1> DEFINE Bad == {i \in 0..Len(cs) : ~Alike(w[i], v[i])}
  <1>0. /\ Len(cs) \in Nat /\ DOMAIN cs = 1..Len(cs) /\ Len(ds) = Len(cs) + 1
        /\ cs \in Seq(Prices) /\ ds \in Seq(Prices) /\ Valid(cs) /\ Valid(ds)
    BY GrownDomains
  <1>1. SUFFICES ASSUME Bad # {} PROVE FALSE
    OBVIOUS
  <1>2. PICK n \in Bad : \A m \in Bad : n <= m
    <2>1. Bad \in SUBSET (0..Len(cs)) /\ \A m \in Bad : m \in Int
      BY <1>0
    <2>2. IsFiniteSet(0..Len(cs))
      BY <1>0, FS_Interval
    <2> HIDE DEF Bad
    <2>3. IsFiniteSet(Bad)
      BY <2>1, <2>2, FS_Subset
    <2> QED
      BY <1>1, <2>1, <2>3, MinOf
  <1>3. /\ M \in SUBSET DOMAIN cs /\ N \in SUBSET DOMAIN ds
        /\ \A i \in DOMAIN cs : i \in N <=> i \in M
    BY MovesStand
  <1> HIDE DEF M, N
  <1>4. n \in 0..Len(cs) /\ ~Alike(w[n], v[n]) /\ n \in 0..Len(ds)
    BY <1>0
  <1>5. w[n] = WalkFrom(cs, M, w, n) /\ v[n] = WalkFrom(ds, N, v, n)
    BY <1>0, <1>4, EventsAreWalked
  <1>6. CASE n = 0
    <2>1. /\ w[n] = [events |-> {}, broken |-> {}, trend |-> "none"]
          /\ v[n] = [events |-> {}, broken |-> {}, trend |-> "none"]
      BY <1>5, <1>6 DEF WalkFrom
    <2> HIDE DEF w, v
    <2> QED
      BY <1>4, <2>1 DEF Alike
  <1>7. CASE n # 0
    <2>1. n \in DOMAIN cs /\ n - 1 \in 0..Len(cs) /\ n - 1 \notin Bad /\ n - 1 \in 0..Len(ds)
      BY <1>0, <1>2, <1>4, <1>7
    <2>2. Alike(w[n - 1], v[n - 1])
      BY <2>1
    <2>3. w[n - 1] \in Walks /\ v[n - 1] \in Walks
      BY <1>0, <1>3, <2>1, WalkTypes DEF WalkedTo
    <2> HIDE DEF w, v
    <2>4. Alike(WalkOn(cs, M, w[n - 1], n), WalkOn(ds, N, v[n - 1], n))
      BY <1>3, <2>1, <2>2, <2>3, WalkOnStands
    <2> QED
      BY <1>4, <1>5, <1>7, <2>4 DEF WalkFrom
  <1> QED
    BY <1>6, <1>7

\* A candle adds to the walk a break on itself, or nothing.
LEMMA WalkOnAdds ==
  ASSUME NEW cs, NEW moves, NEW w \in Walks, NEW i
  PROVE  /\ w.events \subseteq WalkOn(cs, moves, w, i).events
         /\ \A e \in WalkOn(cs, moves, w, i).events : e \in w.events \/ e.index = i
  <1>1. \A p, d, trend : Break(cs, i, p, d, trend, moves).index = i
    BY DEF Break
  <1>2. \/ WalkOn(cs, moves, w, i).events = w.events
        \/ \E p : \E d : \E trend :
             WalkOn(cs, moves, w, i).events
               = w.events \cup {Break(cs, i, p, d, trend, moves)}
    <2> DEFINE a == Atr(cs, i)
    <2> DEFINE buffer == Percent(8, a)
    <2> DEFINE highs == Known(SwingHighs(cs), i)
    <2> DEFINE lows == Known(SwingLows(cs), i)
    <2> DEFINE bias == SwingBias(cs, highs, lows)
    <2> DEFINE trend == IF w.trend # "none" THEN w.trend
                        ELSE IF bias = "range" THEN "none" ELSE bias
    <2> DEFINE h == Latest({p \in highs : <<"high", p>> \notin w.broken})
    <2> DEFINE l == Latest({p \in lows : <<"low", p>> \notin w.broken})
    <2> DEFINE up == h # None /\ cs[i].close > cs[h].high + buffer
    <2> DEFINE down == l # None /\ cs[i].close < cs[l].low - buffer
    <2> DEFINE rise == [events |-> w.events \cup {Break(cs, i, h, "bullish", trend, moves)},
                        broken |-> w.broken \cup {<<"high", h>>}, trend |-> "bullish"]
    <2> DEFINE fall == [events |-> w.events \cup {Break(cs, i, l, "bearish", trend, moves)},
                        broken |-> w.broken \cup {<<"low", l>>}, trend |-> "bearish"]
    <2>1. WalkOn(cs, moves, w, i)
            = CASE a <= 0 -> w
                [] a > 0 /\ up -> rise
                [] a > 0 /\ ~up /\ down -> fall
                [] OTHER -> [w EXCEPT !.trend = trend]
      BY DEF WalkOn
    <2>2. rise.events = w.events \cup {Break(cs, i, h, "bullish", trend, moves)}
      OBVIOUS
    <2>3. fall.events = w.events \cup {Break(cs, i, l, "bearish", trend, moves)}
      OBVIOUS
    <2>4. [w EXCEPT !.trend = trend].events = w.events
      <3> HIDE DEF trend
      <3> QED  BY DEF Walks
    <2> HIDE DEF a, h, l, up, down, rise, fall, trend
    <2>5. WalkOn(cs, moves, w, i) \in {w, rise, fall, [w EXCEPT !.trend = trend]}
      BY <2>1
    <2> QED
      BY <2>2, <2>3, <2>4, <2>5
  <1> QED
    BY <1>1, <1>2

\* The older breaks of the longer chart are those of the shorter one.
LEMMA EventsStand ==
  ASSUME NEW cs, NEW ds, Grown(cs, ds)
  PROVE  FixedOf(StructureEvents(cs, Displacements(cs)))
           = FixedOf({e \in StructureEvents(ds, Displacements(ds)) : e.index <= Len(cs)})
  <1> DEFINE n == Len(cs)
  <1> DEFINE M == Displacements(cs)
  <1> DEFINE N == Displacements(ds)
  <1> DEFINE w == Walk(cs, M)
  <1> DEFINE v == Walk(ds, N)
  <1>0. /\ n \in Nat /\ Len(ds) = n + 1
        /\ cs \in Seq(Prices) /\ ds \in Seq(Prices) /\ Valid(cs) /\ Valid(ds)
    BY GrownDomains
  <1>1. n \in 0..n /\ n \in 0..Len(ds) /\ n + 1 \in 0..Len(ds) /\ n + 1 # 0
    BY <1>0
  <1>2. N \in SUBSET DOMAIN ds
    BY MovesStand
  <1>3. Alike(w[n], v[n])
    BY <1>1, WalkStands
  <1> HIDE DEF M, N
  <1>4. StructureEvents(cs, M) = w[n].events /\ StructureEvents(ds, N) = v[n + 1].events
    BY <1>0, EventsAreWalked
  <1>5. v[n + 1] = WalkOn(ds, N, v[n], n + 1)
    <2>1. v[n + 1] = WalkFrom(ds, N, v, n + 1)
      BY <1>0, <1>1, EventsAreWalked
    <2>2. (n + 1) - 1 = n
      BY <1>0
    <2> HIDE DEF v, n
    <2> QED
      BY <1>1, <2>1, <2>2 DEF WalkFrom
  <1>6. WalkedTo(v[n], n)
    BY <1>0, <1>1, <1>2, WalkTypes
  <1> HIDE DEF v, w, n
  <1>7. /\ v[n].events \subseteq v[n + 1].events
        /\ \A e \in v[n + 1].events : e \in v[n].events \/ e.index = n + 1
    BY <1>5, <1>6, WalkOnAdds DEF WalkedTo
  <1>8. \A e \in v[n].events : e.index <= n
    BY <1>0, <1>6 DEF WalkedTo
  <1>9. {e \in v[n + 1].events : e.index <= n} = v[n].events
    BY <1>0, <1>7, <1>8
  <1> QED
    BY <1>3, <1>4, <1>9 DEF Alike, n, M, N

\* A scan finds the chart of the last scan, grown by one candle.
LEMMA ScanGrows ==
  ASSUME Charted, Charted', NEW s \in Shapes, Scan(s)
  PROVE  Grown(candles, candles')
  <1> DEFINE c == CandleOf(candles[Len(candles)].close, s)
  <1>1. candles' = Append(candles, c)
    BY DEF Scan
  <1> HIDE DEF c
  <1>2. /\ candles \in Seq(Prices) /\ candles # <<>> /\ Valid(candles)
        /\ candles' \in Seq(Prices) /\ Valid(candles')
    BY DEF Charted, Valid
  <1>3. Len(candles') = Len(candles) + 1
    BY <1>1, <1>2
  <1>4. \A i \in DOMAIN candles : candles'[i] = candles[i]
    BY <1>1, <1>2
  <1> QED
    BY <1>2, <1>3, <1>4 DEF Grown

\* A break of structure that a scan has reported is reported by every later
\* scan, on the same candle, of the same level, direction and kind, and no
\* break is found on an old candle in hindsight (structure.py, "the look-ahead
\* guard").
THEOREM StructureIsNeverRevised == Spec => StructureStands
  <1>1. Charted /\ Charted' /\ [Next]_vars => [BreaksKept]_vars
    <2> SUFFICES ASSUME Charted, Charted', NEW s \in Shapes, Scan(s) PROVE BreaksKept
      BY DEF Next
    <2>1. Grown(candles, candles')
      BY ScanGrows
    <2>2. /\ analysis.events = StructureEvents(candles, Displacements(candles))
          /\ analysis'.events = StructureEvents(candles', Displacements(candles'))
      BY DEF Charted, Analyze
    <2> QED
      BY <2>1, <2>2, EventsStand DEF BreaksKept
  <1>2. Spec => [][BreaksKept]_vars
    BY <1>1, StaysCharted, PTL DEF Spec
  <1> QED
    BY <1>2 DEF StructureStands

-----------------------------------------------------------------------------
(* The zones of the longer chart.                                          *)

LEMMA GapFound ==
  ASSUME NEW cs, NEW moves, NEW g
  PROVE  g \in FairValueGaps(cs, moves) <=>
           \E i \in 3..Len(cs) :
             /\ g = FairValueGap(cs, moves, i)
             /\ Atr(cs, i) > 0 /\ GapDirection(cs, i) # "none"
             /\ 100 * (g.upper - g.lower) >= 12 * Atr(cs, i)
  <1>1. \A i : FairValueGap(cs, moves, i).index = i
    BY DEF FairValueGap
  <1> QED
    BY <1>1 DEF FairValueGaps

\* A gap is where it was, and as wide as it was.
LEMMA GapStands ==
  ASSUME NEW cs, NEW ds, Grown(cs, ds), NEW M, NEW N, NEW i \in 3..Len(cs)
  PROVE  LET z == FairValueGap(cs, M, i)   y == FairValueGap(ds, N, i)
         IN  /\ SameZone(y, z)
             /\ y.lower = z.lower /\ y.upper = z.upper
             /\ y \in FairValueGaps(ds, N) <=> z \in FairValueGaps(cs, M)
  <1> DEFINE z == FairValueGap(cs, M, i)
  <1> DEFINE y == FairValueGap(ds, N, i)
  <1>0. /\ Len(cs) \in Nat /\ Len(ds) = Len(cs) + 1
        /\ \A j \in 1..Len(cs) : ds[j] = cs[j]
    BY GrownDomains
  <1>1. ds[i] = cs[i] /\ ds[i - 2] = cs[i - 2] /\ i \in 3..Len(ds)
    BY <1>0
  <1>2. Atr(ds, i) = Atr(cs, i)
    <2>1. i \in DOMAIN cs
      BY <1>0, GrownDomains
    <2> QED
      BY <2>1, AtrStands
  <1>3. GapDirection(ds, i) = GapDirection(cs, i)
    BY <1>1 DEF GapDirection
  <1>4. \A c, X : LET f == FairValueGap(c, X, i)
                      d == GapDirection(c, i)
                  IN  /\ f.kind = "FVG" /\ f.index = i /\ f.direction = d
                      /\ f.lower = IF d = "bullish" THEN c[i-2].high ELSE c[i].high
                      /\ f.upper = IF d = "bullish" THEN c[i].low ELSE c[i-2].low
    BY DEF FairValueGap
  <1> HIDE DEF z, y
  <1>5. /\ z.kind = "FVG" /\ z.index = i /\ z.direction = GapDirection(cs, i)
        /\ y.kind = "FVG" /\ y.index = i /\ y.direction = GapDirection(cs, i)
        /\ y.lower = z.lower /\ y.upper = z.upper
    BY <1>1, <1>3, <1>4 DEF z, y
  <1>6. z \in FairValueGaps(cs, M) <=> /\ Atr(cs, i) > 0 /\ GapDirection(cs, i) # "none"
                                       /\ 100 * (z.upper - z.lower) >= 12 * Atr(cs, i)
    <2>1. \A j : FairValueGap(cs, M, j).index = j
      BY DEF FairValueGap
    <2> QED
      BY <1>5, <2>1, GapFound DEF z
  <1>7. y \in FairValueGaps(ds, N) <=> /\ Atr(ds, i) > 0 /\ GapDirection(ds, i) # "none"
                                       /\ 100 * (y.upper - y.lower) >= 12 * Atr(ds, i)
    <2>1. \A j : FairValueGap(ds, N, j).index = j
      BY DEF FairValueGap
    <2> QED
      BY <1>1, <1>5, <2>1, GapFound DEF y
  <1>8. SameZone(y, z)
    BY <1>5 DEF SameZone
  <1> QED
    BY <1>2, <1>3, <1>5, <1>6, <1>7, <1>8 DEF z, y

LEMMA OriginStands ==
  ASSUME NEW cs, NEW ds, Grown(cs, ds), NEW k \in DOMAIN cs
  PROVE  Origin(ds, k) = Origin(cs, k)
  <1> DEFINE from == Max({1, k - 6})
  <1>0. k \in 1..Len(cs) /\ Len(cs) \in Nat /\ \A j \in 1..Len(cs) : ds[j] = cs[j]
    BY GrownDomains
  <1>1. from \in Nat /\ from >= 1
    BY <1>0, MaxPair
  <1> HIDE DEF from
  <1>2. \A p \in from..(k - 1) : ds[p] = cs[p]
    BY <1>0, <1>1
  <1>3. {p \in from..(k - 1) : Direction(ds[p]) = Opposite(Direction(ds[k]))}
          = {p \in from..(k - 1) : Direction(cs[p]) = Opposite(Direction(cs[k]))}
    BY <1>0, <1>2
  <1> QED
    BY <1>3 DEF Origin, from

\* A zone that is used up on the shorter chart is used up there on the longer.
LEMMA SpentStands ==
  ASSUME NEW cs, NEW ds, Grown(cs, ds), NEW z, ZoneOn(cs, z), NEW y, ZoneOn(ds, y),
         y.direction = z.direction, y.lower = z.lower, y.upper = z.upper,
         y.formed = z.formed, z.spent # None
  PROVE  y.spent = z.spent
  <1> DEFINE n == Len(cs)
  <1> DEFINE f == z.formed
  <1>0. /\ n \in Nat /\ Len(ds) = n + 1 /\ \A j \in 1..n : ds[j] = cs[j]
        /\ cs \in Seq(Prices) /\ ds \in Seq(Prices) /\ f \in Nat
    BY GrownDomains DEF ZoneOn
  <1>1. /\ z.spent \in (f + 1)..n /\ Through(cs, z, z.spent)
        /\ \A p \in (f + 1)..n : Through(cs, z, p) => z.spent <= p
    <2>1. z.spent = Spent(cs, z, f)
      BY DEF ZoneOn
    <2> QED
      BY <1>0, <2>1, SpentIs
  <1>2. \/ /\ y.spent = None
           /\ \A p \in (f + 1)..(n + 1) : ~Through(ds, y, p)
        \/ /\ y.spent \in (f + 1)..(n + 1) /\ Through(ds, y, y.spent)
           /\ \A p \in (f + 1)..(n + 1) : Through(ds, y, p) => y.spent <= p
    <2>1. y.spent = Spent(ds, y, f)
      BY DEF ZoneOn
    <2> HIDE DEF f
    <2> QED
      BY <1>0, <2>1, SpentIs
  <1>3. \A p \in 1..n : Through(ds, y, p) <=> Through(cs, z, p)
    BY <1>0 DEF Through
  <1> HIDE DEF n, f
  <1>4. z.spent \in 1..n /\ z.spent \in (f + 1)..(n + 1)
    BY <1>0, <1>1
  <1>5. y.spent \in (f + 1)..(n + 1) /\ Through(ds, y, y.spent) /\ y.spent <= z.spent
    BY <1>1, <1>2, <1>3, <1>4
  <1>6. y.spent \in 1..n /\ y.spent \in (f + 1)..n
    BY <1>0, <1>4, <1>5
  <1>7. z.spent <= y.spent
    BY <1>1, <1>3, <1>5, <1>6
  <1> QED
    BY <1>4, <1>5, <1>6, <1>7

\* A block that both charts report formed on the same displacement.
LEMMA BlockStands ==
  ASSUME NEW cs, NEW ds, Grown(cs, ds), NEW E, NEW G, NEW F, NEW H,
         NEW z \in OrderBlocks(cs, Displacements(cs), E, G),
         NEW y \in OrderBlocks(ds, Displacements(ds), F, H),
         SameZone(y, z)
  PROVE  /\ ZoneOn(cs, z) /\ ZoneOn(ds, y) /\ y.formed = z.formed
         /\ y.lower = z.lower /\ y.upper = z.upper
  <1> DEFINE M == Displacements(cs)
  <1> DEFINE N == Displacements(ds)
  <1>0. /\ cs \in Seq(Prices) /\ ds \in Seq(Prices) /\ Valid(cs) /\ Valid(ds)
        /\ DOMAIN cs = 1..Len(cs) /\ Len(cs) \in Nat /\ DOMAIN ds = 1..(Len(cs) + 1)
        /\ \A j \in DOMAIN cs : ds[j] = cs[j]
    BY GrownDomains
  <1>1. /\ M \in SUBSET DOMAIN cs /\ N \in SUBSET DOMAIN ds
        /\ \A i \in DOMAIN cs : i \in N <=> i \in M
    BY MovesStand
  <1>2. /\ \A m \in M : Direction(cs[m]) \in {"bullish", "bearish"}
        /\ \A m \in N : Direction(ds[m]) \in {"bullish", "bearish"}
    BY DEF Displacements
  <1> HIDE DEF M, N
  <1>3. /\ ZoneOn(cs, z) /\ z.formed \in M /\ z = OrderBlock(cs, E, G, z.formed)
        /\ z.index = Origin(cs, z.formed) /\ z.direction = Direction(cs[z.formed])
        /\ \A k \in M : (/\ Origin(cs, k) = z.index
                         /\ Direction(cs[k]) = z.direction) => z.formed <= k
    <2>1. z \in OrderBlocks(cs, M, E, G)
      BY DEF M
    <2> QED
      BY <1>0, <1>1, <1>2, <2>1, BlockTypes
  <1>4. /\ ZoneOn(ds, y) /\ y.formed \in N /\ y = OrderBlock(ds, F, H, y.formed)
        /\ y.index = Origin(ds, y.formed) /\ y.direction = Direction(ds[y.formed])
        /\ \A k \in N : (/\ Origin(ds, k) = y.index
                         /\ Direction(ds[k]) = y.direction) => y.formed <= k
    <2>1. y \in OrderBlocks(ds, N, F, H)
      BY DEF N
    <2> QED
      BY <1>0, <1>1, <1>2, <2>1, BlockTypes
  <1>5. y.index = z.index /\ y.direction = z.direction
    BY DEF SameZone
  <1>6. \A k \in DOMAIN cs : Origin(ds, k) = Origin(cs, k) /\ Direction(ds[k]) = Direction(cs[k])
    BY <1>0, OriginStands
  <1>7. y.formed <= z.formed
    BY <1>1, <1>3, <1>4, <1>5, <1>6
  <1>8. y.formed \in DOMAIN cs
    BY <1>0, <1>1, <1>3, <1>4, <1>7
  <1>9. z.formed <= y.formed
    BY <1>1, <1>3, <1>4, <1>5, <1>6, <1>8
  <1>10. y.formed = z.formed
    BY <1>0, <1>1, <1>3, <1>7, <1>8, <1>9
  <1>11. \A c, X, Y, m : /\ OrderBlock(c, X, Y, m).lower = c[Origin(c, m)].low
                         /\ OrderBlock(c, X, Y, m).upper = c[Origin(c, m)].high
    BY DEF OrderBlock
  <1>12. /\ z.lower = cs[z.index].low /\ z.upper = cs[z.index].high
         /\ y.lower = ds[z.index].low /\ y.upper = ds[z.index].high
    <2>1. ASSUME NEW c, NEW X, NEW Y, NEW m, NEW b, b = OrderBlock(c, X, Y, m)
          PROVE  b.lower = c[Origin(c, m)].low /\ b.upper = c[Origin(c, m)].high
      BY <2>1, <1>11
    <2>2. /\ z.lower = cs[Origin(cs, z.formed)].low
          /\ z.upper = cs[Origin(cs, z.formed)].high
      BY <1>3, <2>1
    <2>3. /\ y.lower = ds[Origin(ds, y.formed)].low
          /\ y.upper = ds[Origin(ds, y.formed)].high
      BY <1>4, <2>1
    <2> QED
      BY <1>3, <1>4, <1>5, <2>2, <2>3
  <1>13. z.index \in DOMAIN cs
    BY <1>0, <1>3 DEF ZoneOn
  <1>14. ds[z.index] = cs[z.index]
    BY <1>0, <1>13
  <1> QED
    BY <1>3, <1>4, <1>10, <1>12, <1>14

\* A gap that a scan has found is found by every later scan, and none is found
\* on an old candle in hindsight; a gap or a block that was used up stays used
\* up at the same candle (fvg.py and orderblocks.py: the life cycle is replayed
\* candle by candle, "never by looking at the final candle").
THEOREM ZonesAreNeverRevived == Spec => SpentStaysSpent
  <1>1. Charted /\ Charted' /\ [Next]_vars => [ZonesKept]_vars
    <2> SUFFICES ASSUME Charted, Charted', NEW s \in Shapes, Scan(s) PROVE ZonesKept
      BY DEF Next
    <2> DEFINE cs == candles
    <2> DEFINE ds == candles'
    <2> DEFINE M == Displacements(cs)
    <2> DEFINE N == Displacements(ds)
    <2> DEFINE G == FairValueGaps(cs, M)
    <2> DEFINE H == FairValueGaps(ds, N)
    <2> DEFINE B == OrderBlocks(cs, M, StructureEvents(cs, M), G)
    <2> DEFINE C == OrderBlocks(ds, N, StructureEvents(ds, N), H)
    <2>1. Grown(cs, ds)
      BY ScanGrows
    <2>2. analysis.gaps = G /\ analysis.blocks = B
      BY DEF Charted, Analyze
    <2>3. analysis'.gaps = H /\ analysis'.blocks = C
      BY DEF Charted, Analyze
    <2>4. /\ cs \in Seq(Prices) /\ ds \in Seq(Prices) /\ Valid(cs) /\ Valid(ds)
          /\ Len(cs) \in Nat /\ Len(ds) = Len(cs) + 1
      BY <2>1, GrownDomains
    <2>5. ASSUME NEW z \in G PROVE z.index \in 3..Len(cs) /\ z = FairValueGap(cs, M, z.index)
      <3>1. \A i : FairValueGap(cs, M, i).index = i
        BY DEF FairValueGap
      <3> HIDE DEF M
      <3> QED
        BY <3>1, GapFound
    <2>6. ASSUME NEW y \in H PROVE y.index \in 3..Len(ds) /\ y = FairValueGap(ds, N, y.index)
      <3>1. \A i : FairValueGap(ds, N, i).index = i
        BY DEF FairValueGap
      <3> HIDE DEF N
      <3> QED
        BY <3>1, GapFound
    <2>7. \A z \in G : \E y \in H : SameZone(y, z)
      <3> SUFFICES ASSUME NEW z \in G PROVE \E y \in H : SameZone(y, z)
        OBVIOUS
      <3>1. z.index \in 3..Len(cs) /\ z = FairValueGap(cs, M, z.index)
        BY <2>5
      <3> DEFINE y == FairValueGap(ds, N, z.index)
      <3>2. SameZone(y, FairValueGap(cs, M, z.index))
            /\ (y \in H <=> FairValueGap(cs, M, z.index) \in G)
        <4> HIDE DEF M, N
        <4> QED  BY <2>1, <3>1, GapStands
      <3> HIDE DEF y, H, G
      <3>3. y \in H /\ SameZone(y, z)
        BY <3>1, <3>2
      <3> QED
        BY <3>3
    <2>8. \A y \in H : y.index <= Len(cs) => \E z \in G : SameZone(y, z)
      <3> SUFFICES ASSUME NEW y \in H, y.index <= Len(cs) PROVE \E z \in G : SameZone(y, z)
        OBVIOUS
      <3>1. y.index \in 3..Len(cs) /\ y = FairValueGap(ds, N, y.index)
        BY <2>4, <2>6
      <3> DEFINE z == FairValueGap(cs, M, y.index)
      <3>2. SameZone(FairValueGap(ds, N, y.index), z)
            /\ (FairValueGap(ds, N, y.index) \in H <=> z \in G)
        <4> HIDE DEF M, N
        <4> QED  BY <2>1, <3>1, GapStands
      <3> HIDE DEF z, H, G
      <3>3. z \in G /\ SameZone(y, z)
        BY <3>1, <3>2
      <3> QED
        BY <3>3
    <2>9. /\ M \in SUBSET DOMAIN cs /\ N \in SUBSET DOMAIN ds
          /\ \A m \in M : Direction(cs[m]) \in {"bullish", "bearish"}
          /\ \A m \in N : Direction(ds[m]) \in {"bullish", "bearish"}
      BY DEF Displacements
    <2>10. /\ \A z \in G : z.kind = "FVG" /\ ZoneOn(cs, z) /\ z.formed = z.index
           /\ \A y \in H : y.kind = "FVG" /\ ZoneOn(ds, y) /\ y.formed = y.index
      <3> HIDE DEF M, N
      <3> QED  BY <2>4, GapTypes
    <2>11. /\ \A z \in B : z.kind = "ORDER_BLOCK"
           /\ \A y \in C : y.kind = "ORDER_BLOCK"
      <3> HIDE DEF M, N
      <3> QED  BY <2>4, <2>9, BlockTypes
    <2>12. ASSUME NEW z \in G, NEW y \in H, SameZone(y, z), z.spent # None
           PROVE  y.spent = z.spent
      <3>1. y.index = z.index /\ y.direction = z.direction
        BY <2>12 DEF SameZone
      <3>2. z.index \in 3..Len(cs) /\ z = FairValueGap(cs, M, z.index)
            /\ y = FairValueGap(ds, N, z.index)
        BY <2>5, <2>6, <3>1
      <3>3. /\ FairValueGap(ds, N, z.index).lower = FairValueGap(cs, M, z.index).lower
            /\ FairValueGap(ds, N, z.index).upper = FairValueGap(cs, M, z.index).upper
        <4> HIDE DEF M, N
        <4> QED  BY <2>1, <3>2, GapStands
      <3> HIDE DEF G, H, M, N
      <3>4. y.lower = z.lower /\ y.upper = z.upper
        BY <3>2, <3>3
      <3> QED
        BY <2>1, <2>10, <2>12, <3>1, <3>4, SpentStands
    <2>13. ASSUME NEW z \in B, NEW y \in C, SameZone(y, z), z.spent # None
           PROVE  y.spent = z.spent
      <3>1. /\ ZoneOn(cs, z) /\ ZoneOn(ds, y) /\ y.formed = z.formed
            /\ y.lower = z.lower /\ y.upper = z.upper
        BY <2>1, <2>13, BlockStands
      <3>2. y.direction = z.direction
        BY <2>13 DEF SameZone
      <3> HIDE DEF B, C
      <3> QED
        BY <2>1, <2>13, <3>1, <3>2, SpentStands
    <2> HIDE DEF G, H, B, C, M, N
    <2>14. \A z \in G \cup B : \A y \in H \cup C :
             (SameZone(y, z) /\ z.spent # None) => y.spent = z.spent
      BY <2>10, <2>11, <2>12, <2>13 DEF SameZone
    <2> QED
      BY <2>2, <2>3, <2>7, <2>8, <2>14 DEF ZonesKept
  <1>2. Spec => [][ZonesKept]_vars
    BY <1>1, StaysCharted, PTL DEF Spec
  <1> QED
    BY <1>2 DEF SpentStaysSpent

-----------------------------------------------------------------------------
(* The target pays for the stop.                                           *)

LEMMA PaysForDistance ==
  ASSUME NEW d \in Nat
  PROVE  PercentUp(120, d) \in Nat /\ 100 * PercentUp(120, d) >= 120 * d
  BY DEF PercentUp

\* A level's target is at least 120 per cent of the distance to its stop away:
\* the pool is chosen with the offset, which is then given up.
LEMMA TargetIsFar ==
  ASSUME NEW cs, NEW a, Sound(cs, a), NEW w, NEW e, EvidenceOf(a, w, e),
         IsFiniteSet(a.levels), \A l \in a.levels : l.price \in Int,
         NEW z, ZoneOn(cs, z), NEW spread \in Nat, NEW direction,
         NEW l \in BuildLevels(cs, a, direction, e, z, spread)
  PROVE  100 * Abs(l.target - l.entry) >= 120 * l.distance
  <1> DEFINE n == Len(cs)
  <1> DEFINE entry == cs[n].close
  <1> DEFINE distance == l.distance
  <1> DEFINE offset == Percent(10, a.atr)
  <1> DEFINE minimum == PercentUp(120, distance)
  <1> DEFINE near == NearestTarget(a, direction, entry, n, minimum + offset)
  <1> DEFINE pools == {p.price : p \in near}
  <1> DEFINE target == IF direction = "BUY"
                         THEN IF pools = {} THEN entry + minimum ELSE Min(pools) - offset
                         ELSE IF pools = {} THEN entry - minimum ELSE Max(pools) + offset
  <1>1. l.entry = entry /\ l.target = target
    <2> DEFINE swept == {s \in e.sweep : s.index >= z.index}
    <2> DEFINE buffer == Percent(20, a.atr) + spread
    <2> DEFINE stop == IF direction = "BUY"
                         THEN Min({z.lower} \cup {cs[s.index].low : s \in swept}) - buffer
                         ELSE Max({z.upper} \cup {cs[s.index].high : s \in swept}) + buffer
    <2> DEFINE d == Abs(entry - stop)
    <2> DEFINE far == {p.price : p \in NearestTarget(a, direction, entry, n,
                                                    PercentUp(120, d) + offset)}
    <2> DEFINE goal == IF direction = "BUY"
               THEN IF far = {} THEN entry + PercentUp(120, d) ELSE Min(far) - offset
               ELSE IF far = {} THEN entry - PercentUp(120, d) ELSE Max(far) + offset
    <2>1. l = [entry |-> entry, stop |-> stop, target |-> goal,
               distance |-> d, projected |-> far = {}]
      BY DEF BuildLevels
    <2> HIDE DEF stop, goal, far, entry
    <2>2. l.entry = entry /\ l.target = goal /\ l.distance = d
      BY <2>1
    <2> HIDE DEF d
    <2> QED
      BY <2>2 DEF goal, far
  <1>2. distance \in Nat
    BY StopIsBehind
  <1>3. entry \in Int
    <2>1. cs \in Seq(Prices) /\ n \in DOMAIN cs
      BY DEF Sound
    <2> QED
      BY <2>1, CandleAt
  <1>4. offset \in Nat
    <2>1. a.atr \in Nat
      BY DEF Sound
    <2> QED
      BY <2>1, PercentIsNat, 10 \in Nat
  <1>5. minimum \in Nat /\ 100 * minimum >= 120 * distance
    BY <1>2, PaysForDistance
  <1> HIDE DEF entry, distance, offset, minimum
  <1>6. near \in SUBSET a.levels
    BY DEF NearestTarget
  <1>7. \A p \in near : /\ p.price \in Int
                        /\ direction = "BUY" => p.price - entry >= minimum + offset
                        /\ direction # "BUY" => entry - p.price >= minimum + offset
    BY DEF NearestTarget
  <1> HIDE DEF near
  <1>8. IsFiniteSet(pools)
    <2> DEFINE price == [p \in near |-> p.price]
    <2>1. IsFiniteSet(near)
      BY <1>6, FS_Subset
    <2>2. IsFiniteSet({price[p] : p \in near})
      <3> HIDE DEF price
      <3> QED  BY <2>1, FiniteImage
    <2>3. pools = {price[p] : p \in near}
      OBVIOUS
    <2> QED
      BY <2>2, <2>3
  <1>9. \A x \in pools : /\ x \in Int
                         /\ direction = "BUY" => x - entry >= minimum + offset
                         /\ direction # "BUY" => entry - x >= minimum + offset
    BY <1>7
  <1> HIDE DEF pools
  <1>10. pools # {} => Min(pools) \in pools /\ Max(pools) \in pools
    BY <1>8, <1>9, MinOf, MaxOf
  <1>11. target \in Int /\ Abs(target - entry) >= minimum /\ Abs(target - entry) \in Int
    <2>1. CASE pools = {}
      BY <1>3, <1>5, <2>1 DEF Abs
    <2>2. CASE pools # {} /\ direction = "BUY"
      <3>1. target = Min(pools) - offset
        BY <2>2
      <3>2. Min(pools) \in Int /\ Min(pools) - entry >= minimum + offset
        BY <1>9, <1>10, <2>2
      <3> QED
        BY <1>3, <1>4, <1>5, <3>1, <3>2 DEF Abs
    <2>3. CASE pools # {} /\ direction # "BUY"
      <3>1. target = Max(pools) + offset
        BY <2>3
      <3>2. Max(pools) \in Int /\ entry - Max(pools) >= minimum + offset
        BY <1>9, <1>10, <2>3
      <3> QED
        BY <1>3, <1>4, <1>5, <3>1, <3>2 DEF Abs
    <2> QED
      BY <2>1, <2>2, <2>3
  <1> HIDE DEF target
  <1> QED
    BY <1>1, <1>2, <1>5, <1>11 DEF distance

\* Whatever pools the map holds, a setup that has levels has a target that
\* pays for its stop, so the ratio never refuses it (engine._build_levels,
\* "cannot smuggle the reward back under the floor").
THEOREM TargetsPay == Spec => []TargetPays
  <1>1. ASSUME Charted PROVE TargetPays
    <2> SUFFICES ASSUME NEW h1 \in H1Readings, NEW spread \in Spreads,
                        NEW r \in Results(candles, analysis, h1),
                        NEW z \in EntryZones(analysis.gaps \cup analysis.blocks,
                                             r.evidence, Len(candles)),
                        NEW l \in BuildLevels(candles, analysis, Side(r.evidence.wanted),
                                              r.evidence, z, spread)
                 PROVE  100 * Abs(l.target - l.entry) >= 120 * l.distance
      BY DEF TargetPays
    <2>1. Sound(candles, analysis) /\ spread \in Nat
      BY <1>1, SoundScan, StrategyAssumption
    <2>2. PICK w \in {"bullish", "bearish"} :
            r = [evidence |-> Evidence(candles, analysis, w),
                 class |-> Classify(Evidence(candles, analysis, w), h1, analysis)]
      BY ResultIs
    <2>3. EvidenceOf(analysis, w, r.evidence)
      BY <2>1, <2>2, EvidenceIs
    <2>4. ZoneOn(candles, z)
      BY <2>1 DEF EntryZones, Sound, GapsSound, BlocksSound
    <2>5. IsFiniteSet(analysis.levels) /\ \A v \in analysis.levels : v.price \in Int
      <3>1. analysis.levels = LiquidityMap(candles)
        BY <1>1 DEF Charted, Analyze
      <3>2. candles \in Seq(Prices) /\ Valid(candles)
        BY <1>1 DEF Charted, Valid
      <3> QED
        BY <3>1, <3>2, LevelTypes DEF LevelType
    <2> QED
      BY <2>1, <2>3, <2>4, <2>5, TargetIsFar
  <1> QED
    BY <1>1, StaysCharted, PTL

=============================================================================
