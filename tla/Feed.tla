-------------------------------- MODULE Feed --------------------------------
(***************************************************************************)
(* The candles a scan is given for one symbol: bot/marketdata/provider.py, *)
(* which keeps each series until its next bar should close, and            *)
(* bot/marketdata/validation.py, which drops the forming bar and refuses a *)
(* series that is too old.  H1 and M15 are read one after the other and    *)
(* used together or not at all.                                            *)
(*                                                                         *)
(* Time is counted from what happened: the age of a bar is the time since  *)
(* it closed.  The scan passes the moment it STARTED as now, and by the    *)
(* time a symbol is reached that moment is some time ago (the lag); the    *)
(* cache however expires by the clock.  Only the scan's thread reads       *)
(* series.                                                                 *)
(***************************************************************************)
EXTENDS Integers

CONSTANTS
    Bar,         \* per timeframe, the duration of a bar (TIMEFRAME_MINUTES)
    MinCache,    \* MIN_CACHE_SECONDS
    Grace,       \* PUBLISH_GRACE_SECONDS
    MaxLag,      \* bound: how long after its start a scan reaches the symbol
    MaxSilence   \* bound: the oldest a newest bar gets (a closed market)

Frames == {"H1", "M15"}

\* A scan is over before the bar it started in: without that it would take a
\* bar that closed behind its back for a forming one more than once.
ASSUME FeedAssumption ==
    /\ Bar \in [Frames -> Nat \ {0}]
    /\ MinCache \in Nat /\ Grace \in Nat /\ MaxLag \in Nat /\ MaxSilence \in Nat
    /\ \A f \in Frames : MaxLag < Bar[f]

VARIABLES
    newest,    \* per timeframe, the age of the newest bar the broker publishes
    before,    \* the age of the bar before it
    cache,     \* _cache: the age of the newest bar kept, and how long it is
               \* still served (0: expired, or never filled)
    scan,      \* what the scan reads next, and the lag of its now
    flight,    \* the broker's answer on its way: the ages of its two newest bars
    answer     \* the age of the newest bar of each series the scan was given

vars == <<newest, before, cache, scan, flight, answer>>

Idle == [at |-> "idle", lag |-> 0]
Empty == [age |-> 0, left |-> 0]
NoBar == [newest |-> 0, before |-> 0]
NoAnswer == [f \in Frames |-> 0]

\* The order of multi_timeframe, and what a scan does with the pair.
After(f) == IF f = "H1" THEN "M15" ELSE "signal"

Least(a, b) == IF a < b THEN a ELSE b
Most(a, b) == IF a < b THEN b ELSE a

----------------------------------------------------------------------------
\* Mutant: a series is kept for the duration of one bar.
FixedTtl(f, age, lag) == Bar[f]

\* _seconds_until_stale: the close after the newest bar kept, as seen from the
\* scan's now, plus the grace; at most a bar, at least MinCache.
SecondsUntilStale(f, age, lag) ==
    Most(MinCache, Least(Bar[f], Bar[f] - (age - lag) + Grace))

\* Mutant: bars that closed after the scan's now are kept.
ClosedAtAll(bars, lag) == bars.newest

\* validate_series drops what had not closed at the scan's now: then the
\* newest bar left is the one before.
ClosedBy(bars, lag) == IF bars.newest >= lag THEN bars.newest ELSE bars.before

\* Mutant: age is not checked.
TooOldNever(f, age) == FALSE

\* StaleDataError: the newest closed bar is more than three bars old.
TooOld(f, age) == age > 3 * Bar[f]

\* series: served from the cache, which is not asked for its age again.
CacheHit ==
    /\ scan.at \in Frames
    /\ cache[scan.at].left > 0
    /\ answer' = [answer EXCEPT ![scan.at] = cache[scan.at].age]
    /\ scan' = [at |-> After(scan.at), lag |-> scan.lag]
    /\ UNCHANGED <<newest, before, cache, flight>>

\* series: the request; the broker answers with what it has published.
Fetch ==
    /\ scan.at \in Frames
    /\ cache[scan.at].left = 0
    /\ flight' = [newest |-> newest[scan.at], before |-> before[scan.at]]
    /\ scan' = [at |-> IF scan.at = "H1" THEN "H1 read" ELSE "M15 read", lag |-> scan.lag]
    /\ UNCHANGED <<newest, before, cache, answer>>

Reading(f) == scan.at = IF f = "H1" THEN "H1 read" ELSE "M15 read"

\* validate_series passes, and the series is cached and handed over.
Store(f) ==
    /\ Reading(f)
    /\ LET age == ClosedBy(flight, scan.lag)
       IN /\ ~TooOld(f, age - scan.lag)
          /\ cache' = [cache EXCEPT ![f] =
                [age |-> age, left |-> SecondsUntilStale(f, age, scan.lag)]]
          /\ answer' = [answer EXCEPT ![f] = age]
    /\ scan' = [at |-> After(f), lag |-> scan.lag]
    /\ flight' = NoBar
    /\ UNCHANGED <<newest, before>>

\* The request failed, the answer is empty or malformed, bars are missing or
\* too few, or the newest is too old: MarketDataError, and the pair is refused
\* as a unit.  The series read before it stays cached.
Refuse ==
    /\ scan.at \in {"H1 read", "M15 read"}
    /\ scan' = Idle
    /\ flight' = NoBar
    /\ answer' = NoAnswer
    /\ UNCHANGED <<newest, before, cache>>

\* The pair goes to the strategy.
Signal ==
    /\ scan.at = "signal"
    /\ scan' = Idle
    /\ answer' = NoAnswer
    /\ UNCHANGED <<newest, before, cache, flight>>

\* A scan starts, and reaches the symbol after some time.
Start ==
    /\ scan.at = "idle"
    /\ scan' = [at |-> "H1", lag |-> 0]
    /\ UNCHANGED <<newest, before, cache, flight, answer>>

----------------------------------------------------------------------------
(* The clock and the broker.                                               *)

\* Mutant: an entry is never dropped.
OlderForever(e) == [age |-> e.age + 1, left |-> e.left - 1]

Older(e) == IF e.left <= 1 THEN Empty ELSE [age |-> e.age + 1, left |-> e.left - 1]

Tick ==
    /\ scan.at # "idle" => scan.lag < MaxLag
    /\ \A f \in Frames : newest[f] < MaxSilence
    /\ newest' = [f \in Frames |-> newest[f] + 1]
    /\ before' = [f \in Frames |-> before[f] + 1]
    /\ cache' = [f \in Frames |-> Older(cache[f])]
    /\ scan' = IF scan.at = "idle" THEN scan ELSE [at |-> scan.at, lag |-> scan.lag + 1]
    /\ flight' = IF scan.at \in {"H1 read", "M15 read"}
                 THEN [newest |-> flight.newest + 1, before |-> flight.before + 1]
                 ELSE flight
    /\ answer' = [f \in Frames |-> IF scan.at = "idle" THEN 0 ELSE answer[f] + 1]

\* The next bar is published, some time after it closed; after a silence it may
\* be a much later one.
Publish(f) ==
    /\ newest[f] >= Bar[f]
    /\ \E age \in {0, newest[f] - Bar[f]} :
        /\ newest' = [newest EXCEPT ![f] = age]
        /\ before' = [before EXCEPT ![f] = newest[f]]
    /\ UNCHANGED <<cache, scan, flight, answer>>

Init ==
    /\ newest = [f \in Frames |-> 0]
    /\ before = Bar
    /\ cache = [f \in Frames |-> Empty]
    /\ scan = Idle
    /\ flight = NoBar
    /\ answer = NoAnswer

Next ==
    \/ Start \/ CacheHit \/ Fetch \/ Refuse \/ Signal \/ Tick
    \/ \E f \in Frames : Store(f) \/ Publish(f)

Spec == Init /\ [][Next]_vars

----------------------------------------------------------------------------
(* Properties.                                                             *)

Labels == {"idle", "H1", "H1 read", "M15", "M15 read", "signal"}

\* The types of the provider's state.
TypeOK ==
    /\ newest \in [Frames -> Nat] /\ before \in [Frames -> Nat]
    /\ cache \in [Frames -> [age : Nat, left : Nat]]
    /\ scan \in [at : Labels, lag : 0..MaxLag]
    /\ flight \in [newest : Nat, before : Nat]
    /\ answer \in [Frames -> Nat]

\* The broker publishes a bar that the cached series of f lacks.
Lacks(f) == cache[f].left > 0 /\ newest[f] < cache[f].age

\* provider.py: a series is held until the bar that could change it closes.  It
\* is held longer, for the expiry is computed from the scan's now and counted
\* from the clock's: but once a newer bar is published, a series without it is
\* served for the grace and the lag of the scan that stored it, and no more.
ReplacedSoon ==
    \A f \in Frames : Lacks(f) => cache[f].left <= Most(MinCache, MaxLag + Grace)

\* The scan has been given the series of f.
Given(f) == scan.at = "signal" \/ (f = "H1" /\ scan.at \in {"M15", "M15 read"})

\* validation.py: strategy decisions never see a candle that was still forming
\* at the scan's now, neither from the broker nor from the cache, also when the
\* candle has closed by the time it is read.
NeverForming == \A f \in Frames : Given(f) => answer[f] >= scan.lag

\* A pair that reaches the strategy is fresh in both halves, although a cached
\* series is not checked again: three bars, the time it may stay cached past
\* that, and the lag of the scan that stored it and of the one that uses it.
PairIsFresh ==
    scan.at = "signal" =>
        \A f \in Frames :
            answer[f] <= 3 * Bar[f] + Most(MinCache, Grace) + MaxLag + scan.lag
=============================================================================
