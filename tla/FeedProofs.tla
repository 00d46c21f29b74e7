----------------------------- MODULE FeedProofs -----------------------------
(***************************************************************************)
(* Feed's invariants for every pair of bar durations, every grace, minimum *)
(* caching time and lag, and with no bound on a broker's silence.          *)
(*                                                                         *)
(* The argument: bars are at least their duration apart, so a cached series *)
(* that lacks a published bar is at least a bar old (Apart); the time a     *)
(* series is still served shrinks as it ages (Life), which together bounds  *)
(* the service of a series that lacks a bar; and an entry was closed before *)
(* the scan that reads it began (Closed).                                   *)
(***************************************************************************)
EXTENDS Feed, TLAPS

\* Bars of one timeframe, on the broker, in flight and in the cache, are one
\* and the same or at least a bar apart.
Apart ==
    \A f \in Frames :
        /\ before[f] >= newest[f] + Bar[f]
        /\ Reading(f) => /\ flight.before >= flight.newest + Bar[f]
                         /\ \/ flight.newest = newest[f]
                            \/ flight.newest >= newest[f] + Bar[f]
        /\ cache[f].left > 0 => \/ cache[f].age = newest[f]
                                \/ cache[f].age >= newest[f] + Bar[f]

\* How long a cached series is still served, and how old it gets by then.
Life ==
    \A f \in Frames : cache[f].left > 0 =>
        /\ cache[f].left <= Most(MinCache, Bar[f] - cache[f].age + MaxLag + Grace)
        /\ cache[f].age + cache[f].left <= 3 * Bar[f] + MaxLag + Most(MinCache, Grace)

\* What is cached had closed when the running scan began.
Closed ==
    \A f \in Frames : cache[f].left > 0 /\ scan.at # "idle" => cache[f].age >= scan.lag

Answered ==
    \A f \in Frames : Given(f) =>
        /\ answer[f] >= scan.lag
        /\ answer[f] <= 3 * Bar[f] + Most(MinCache, Grace) + MaxLag + scan.lag

IInv == TypeOK /\ Apart /\ Life /\ Closed /\ Answered

\* The constants, one timeframe at a time.
LEMMA Constants ==
    /\ MinCache \in Nat /\ Grace \in Nat /\ MaxLag \in Nat
    /\ \A f \in Frames : Bar[f] \in Nat /\ MaxLag < Bar[f]
  BY FeedAssumption DEF Frames

\* The variables, one timeframe at a time.
LEMMA Values ==
    ASSUME TypeOK
    PROVE /\ \A f \in Frames : /\ newest[f] \in Nat /\ before[f] \in Nat /\ answer[f] \in Nat
                              /\ cache[f].age \in Nat /\ cache[f].left \in Nat
          /\ scan.lag \in Nat /\ scan.lag <= MaxLag /\ scan.at \in Labels
          /\ flight.newest \in Nat /\ flight.before \in Nat
  BY Constants DEF TypeOK

\* The first state satisfies the invariant.
LEMMA InitIInv == Init => IInv
  BY FeedAssumption DEF Init, IInv, TypeOK, Apart, Life, Closed, Answered, Frames, Labels, Idle, Empty,
         NoBar, NoAnswer, Reading, Given

\* A series handed over from the cache.
LEMMA CacheHitStep == IInv /\ CacheHit => IInv'
  <1> SUFFICES ASSUME IInv, CacheHit PROVE IInv'
    OBVIOUS
  <1>1. TypeOK'
    BY DEF IInv, TypeOK, CacheHit, Labels, After, Frames
  <1>2. Apart'
    BY DEF IInv, TypeOK, Apart, CacheHit, Reading, After, Frames
  <1>3. Life' /\ Closed'
    BY DEF IInv, TypeOK, Life, Closed, CacheHit, Frames, After
  <1>4. Answered'
    <2> SUFFICES ASSUME NEW f \in Frames, Given(f)'
                 PROVE /\ answer'[f] >= scan'.lag
                       /\ answer'[f] <= 3 * Bar[f] + Most(MinCache, Grace) + MaxLag + scan'.lag
      BY DEF Answered
    <2>1. scan'.lag = scan.lag /\ (f # scan.at => answer'[f] = answer[f])
      BY DEF IInv, TypeOK, CacheHit
    <2>2. CASE f = scan.at
      <3>1. answer'[f] = cache[f].age /\ cache[f].left > 0 /\ scan.at # "idle"
        BY <2>2 DEF IInv, TypeOK, CacheHit, Frames
      <3> QED BY <2>1, <3>1, Values, Constants DEF IInv, Life, Closed, Most
    <2>3. CASE f # scan.at
      <3>1. Given(f)
        BY <2>3 DEF Given, CacheHit, After, Frames
      <3> QED BY <2>1, <2>3, <3>1 DEF IInv, Answered
    <2> QED BY <2>2, <2>3
  <1> QED BY <1>1, <1>2, <1>3, <1>4 DEF IInv

\* A request.
LEMMA FetchStep == IInv /\ Fetch => IInv'
  <1> SUFFICES ASSUME IInv, Fetch PROVE IInv'
    OBVIOUS
  <1>1. TypeOK'
    BY DEF IInv, TypeOK, Fetch, Labels, Frames
  <1>2. Apart'
    BY DEF IInv, TypeOK, Apart, Fetch, Reading, Frames
  <1>3. Life' /\ Closed'
    BY DEF IInv, TypeOK, Life, Closed, Fetch, Frames
  <1>4. Answered'
    BY DEF IInv, TypeOK, Answered, Fetch, Given, Frames
  <1> QED BY <1>1, <1>2, <1>3, <1>4 DEF IInv

\* An answer that passes validation.
LEMMA StoreStep == ASSUME NEW f \in Frames PROVE IInv /\ Store(f) => IInv'
  <1> SUFFICES ASSUME IInv, Store(f) PROVE IInv'
    OBVIOUS
  <1> DEFINE age == ClosedBy(flight, scan.lag)
             life == SecondsUntilStale(f, age, scan.lag)
  <1>1. /\ age \in Nat /\ age >= scan.lag
        /\ age = newest[f] \/ age >= newest[f] + Bar[f]
        /\ age <= 3 * Bar[f] + scan.lag
    <2>1. Reading(f) /\ ~TooOld(f, age - scan.lag)
      BY DEF Store
    <2> QED BY <2>1, Values, Constants DEF IInv, Apart, ClosedBy, TooOld
  <1>2. /\ life \in Nat
        /\ life <= Most(MinCache, Bar[f] - age + MaxLag + Grace)
        /\ age + life <= 3 * Bar[f] + MaxLag + Most(MinCache, Grace)
    <2> HIDE DEF age
    <2> QED BY <1>1, Values, Constants DEF IInv, SecondsUntilStale, Most, Least
  <1>3. /\ cache' = [cache EXCEPT ![f] = [age |-> age, left |-> life]]
        /\ answer' = [answer EXCEPT ![f] = age]
        /\ scan' = [at |-> After(f), lag |-> scan.lag]
        /\ flight' = NoBar /\ newest' = newest /\ before' = before
        /\ scan.at = IF f = "H1" THEN "H1 read" ELSE "M15 read"
    BY DEF Store, Reading
  <1> HIDE DEF age, life
  <1>4. TypeOK'
    <2>1. cache' \in [Frames -> [age : Nat, left : Nat]] /\ answer' \in [Frames -> Nat]
      BY <1>1, <1>2, <1>3 DEF IInv, TypeOK
    <2>2. scan' \in [at : Labels, lag : 0..MaxLag] /\ flight' \in [newest : Nat, before : Nat]
      BY <1>3, Values DEF IInv, TypeOK, Labels, After, NoBar
    <2> QED BY <2>1, <2>2, <1>3 DEF IInv, TypeOK
  <1>5. \A g \in Frames : /\ g = f => cache'[g].age = age /\ cache'[g].left = life /\ answer'[g] = age
                          /\ g # f => cache'[g] = cache[g] /\ answer'[g] = answer[g]
    BY <1>3 DEF IInv, TypeOK
  <1>6. Apart'
    <2>1. \A g \in Frames : ~Reading(g)'
      BY <1>3 DEF Reading, After
    <2> QED BY <1>1, <1>3, <1>5, <2>1 DEF IInv, Apart
  <1>7. Life'
    BY <1>1, <1>2, <1>5 DEF IInv, Life
  <1>8. Closed'
    <2>1. scan.at # "idle" /\ scan'.lag = scan.lag
      BY <1>3
    <2> QED BY <1>1, <1>5, <2>1 DEF IInv, Closed
  <1>9. Answered'
    <2>1. scan'.lag = scan.lag /\ \A g \in Frames : g # f /\ Given(g)' => Given(g)
      BY <1>3 DEF Given, After, Frames
    <2>2. Most(MinCache, Grace) \in Nat
      BY Constants DEF Most
    <2>3. age <= 3 * Bar[f] + Most(MinCache, Grace) + MaxLag + scan.lag
      BY <1>1, <2>2, Values, Constants DEF IInv
    <2> QED BY <1>1, <1>5, <2>1, <2>3 DEF IInv, Answered
  <1> QED BY <1>4, <1>6, <1>7, <1>8, <1>9 DEF IInv

\* A step that starts a scan, or ends it.
LEMMA ScanStep == IInv /\ (Start \/ Refuse \/ Signal) => IInv'
  <1> SUFFICES ASSUME IInv, Start \/ Refuse \/ Signal PROVE IInv'
    OBVIOUS
  <1>1. /\ newest' = newest /\ before' = before /\ cache' = cache
        /\ scan' = [at |-> "idle", lag |-> 0] \/ scan' = [at |-> "H1", lag |-> 0]
        /\ flight' = flight \/ flight' = [newest |-> 0, before |-> 0]
        /\ answer' = answer \/ answer' = NoAnswer
    BY DEF Start, Refuse, Signal, Idle, NoBar
  <1>0. scan'.at \in {"idle", "H1"} /\ scan'.lag = 0 /\ scan' \in [at : Labels, lag : 0..MaxLag]
    <2>1. CASE scan' = [at |-> "idle", lag |-> 0]
      BY <2>1, Constants DEF Labels
    <2>2. CASE scan' = [at |-> "H1", lag |-> 0]
      BY <2>2, Constants DEF Labels
    <2> QED BY <1>1, <2>1, <2>2
  <1>2. TypeOK'
    <2>2. flight' \in [newest : Nat, before : Nat] /\ answer' \in [Frames -> Nat]
      BY <1>1 DEF IInv, TypeOK, NoAnswer
    <2> QED BY <1>0, <1>1, <2>2 DEF IInv, TypeOK
  <1>3. \A f \in Frames : ~Reading(f)' /\ ~Given(f)'
    BY <1>0 DEF Reading, Given
  <1>5. Apart' /\ Life'
    BY <1>1, <1>3 DEF IInv, Apart, Life
  <1>6. Closed' /\ Answered'
    BY <1>0, <1>1, <1>3, Values DEF IInv, Closed, Answered
  <1> QED BY <1>2, <1>5, <1>6 DEF IInv

\* Time passes for the bars, the cache and the scan alike.
LEMMA TickStep == IInv /\ Tick => IInv'
  <1> SUFFICES ASSUME IInv, Tick PROVE IInv'
    OBVIOUS
  <1>1. \A f \in Frames : /\ newest'[f] = newest[f] + 1 /\ before'[f] = before[f] + 1
                          /\ cache'[f] = Older(cache[f])
                          /\ scan.at # "idle" => answer'[f] = answer[f] + 1
    BY DEF Tick
  <1>2. scan'.at = scan.at /\ (scan.at # "idle" => scan'.lag = scan.lag + 1 /\ scan.lag < MaxLag)
    BY DEF Tick
  <1>3. TypeOK'
    <2>1. scan' \in [at : Labels, lag : 0..MaxLag]
      <3>1. CASE scan.at = "idle"
        BY <3>1 DEF IInv, TypeOK, Tick
      <3>2. CASE scan.at # "idle"
        <4>1. scan' = [at |-> scan.at, lag |-> scan.lag + 1] /\ scan.lag < MaxLag
          BY <3>2 DEF Tick
        <4>2. scan.lag + 1 \in 0..MaxLag /\ scan.at \in Labels
          BY <4>1, Values, Constants DEF IInv
        <4> QED BY <4>1, <4>2
      <3> QED BY <3>1, <3>2
    <2>2. flight' \in [newest : Nat, before : Nat]
      <3>1. flight.newest + 1 \in Nat /\ flight.before + 1 \in Nat
        BY Values DEF IInv
      <3>2. \/ flight' = flight
            \/ flight' = [newest |-> flight.newest + 1, before |-> flight.before + 1]
        BY DEF Tick
      <3> QED BY <3>1, <3>2 DEF IInv, TypeOK
    <2>3. /\ newest' \in [Frames -> Nat] /\ before' \in [Frames -> Nat]
          /\ answer' \in [Frames -> Nat]
      <3>1. \A f \in Frames : /\ newest[f] + 1 \in Nat /\ before[f] + 1 \in Nat
                              /\ answer[f] + 1 \in Nat
        BY Values DEF IInv
      <3> QED BY <3>1 DEF Tick
    <2>4. cache' \in [Frames -> [age : Nat, left : Nat]]
      <3>1. \A f \in Frames : Older(cache[f]) \in [age : Nat, left : Nat]
        BY Values DEF IInv, Older, Empty
      <3> QED BY <3>1 DEF Tick
    <2> QED BY <2>1, <2>2, <2>3, <2>4 DEF TypeOK
  <1>4. \A f \in Frames : cache'[f].left > 0 =>
            /\ cache[f].left > 0
            /\ cache'[f].age = cache[f].age + 1
            /\ cache'[f].left = cache[f].left - 1
    <2> SUFFICES ASSUME NEW f \in Frames, cache'[f].left > 0
                 PROVE /\ cache[f].left > 0
                       /\ cache'[f].age = cache[f].age + 1
                       /\ cache'[f].left = cache[f].left - 1
      OBVIOUS
    <2>1. cache'[f] = IF cache[f].left <= 1 THEN [age |-> 0, left |-> 0]
                      ELSE [age |-> cache[f].age + 1, left |-> cache[f].left - 1]
      BY <1>1 DEF Older, Empty
    <2>2. ~(cache[f].left <= 1)
      BY <2>1
    <2> QED BY <2>1, <2>2, Values DEF IInv
  <1>5. Apart'
    <2>1. \A f \in Frames : Reading(f)' => /\ Reading(f)
                                           /\ flight'.newest = flight.newest + 1
                                           /\ flight'.before = flight.before + 1
      BY <1>2 DEF Reading, Tick
    <2> QED BY <1>1, <1>4, <2>1, Values, Constants DEF IInv, Apart
  <1>6. Life'
    BY <1>4, Values, Constants DEF IInv, Life, Most
  <1>7. Closed'
    BY <1>2, <1>4, Values DEF IInv, Closed
  <1>8. Answered'
    <2>1. \A f \in Frames : Given(f)' => Given(f) /\ scan.at # "idle"
      BY <1>2 DEF Given
    <2>2. Most(MinCache, Grace) \in Nat
      BY Constants DEF Most
    <2> QED BY <1>1, <1>2, <2>1, <2>2, Values, Constants DEF IInv, Answered
  <1> QED BY <1>3, <1>5, <1>6, <1>7, <1>8 DEF IInv

\* A bar is published.
LEMMA PublishStep == ASSUME NEW f \in Frames PROVE IInv /\ Publish(f) => IInv'
  <1> SUFFICES ASSUME IInv, Publish(f) PROVE IInv'
    OBVIOUS
  <1>1. PICK age \in {0, newest[f] - Bar[f]} :
            /\ newest' = [newest EXCEPT ![f] = age]
            /\ before' = [before EXCEPT ![f] = newest[f]]
    BY DEF Publish
  <1>2. age \in Nat /\ age + Bar[f] <= newest[f]
    BY <1>1, Values, Constants DEF IInv, Publish
  <1>3. cache' = cache /\ scan' = scan /\ flight' = flight /\ answer' = answer
    BY DEF Publish
  <1>4. TypeOK'
    BY <1>1, <1>2, <1>3 DEF IInv, TypeOK
  <1>5. \A g \in Frames : /\ g = f => newest'[g] = age /\ before'[g] = newest[f]
                          /\ g # f => newest'[g] = newest[g] /\ before'[g] = before[g]
    BY <1>1 DEF IInv, TypeOK
  <1>6. Apart'
    <2> SUFFICES ASSUME NEW g \in Frames
                 PROVE /\ before'[g] >= newest'[g] + Bar[g]
                       /\ Reading(g)' => /\ flight'.before >= flight'.newest + Bar[g]
                                         /\ \/ flight'.newest = newest'[g]
                                            \/ flight'.newest >= newest'[g] + Bar[g]
                       /\ cache'[g].left > 0 => \/ cache'[g].age = newest'[g]
                                                \/ cache'[g].age >= newest'[g] + Bar[g]
      BY DEF Apart
    <2>1. Reading(g)' = Reading(g)
      BY <1>3 DEF Reading
    <2>2. CASE g = f
      BY <1>2, <1>3, <1>5, <2>1, <2>2, Values, Constants DEF IInv, Apart
    <2>3. CASE g # f
      BY <1>3, <1>5, <2>1, <2>3 DEF IInv, Apart
    <2> QED BY <2>2, <2>3
  <1>7. Life' /\ Closed' /\ Answered'
    BY <1>3 DEF IInv, Life, Closed, Answered, Given
  <1> QED BY <1>4, <1>6, <1>7 DEF IInv

\* Every step keeps the invariant.
LEMMA NextIInv == IInv /\ [Next]_vars => IInv'
  <1> SUFFICES ASSUME IInv, [Next]_vars PROVE IInv'
    OBVIOUS
  <1>1. CASE Next
    BY <1>1, CacheHitStep, FetchStep, StoreStep, ScanStep, TickStep, PublishStep DEF Next
  <1>2. CASE UNCHANGED vars
    BY <1>2 DEF vars, IInv, TypeOK, Apart, Life, Closed, Answered, Reading, Given
  <1> QED BY <1>1, <1>2

\* Once a bar is published that could change a cached series, the series is
\* served for at most the grace and the lag of its scan.
LEMMA IInvReplacedSoon == IInv => ReplacedSoon
  BY Values, Constants DEF IInv, Apart, Life, ReplacedSoon, Lacks, Most

\* The invariant holds in every state of every behaviour.
LEMMA IInvAlways == Spec => []IInv
  BY InitIInv, NextIInv, PTL DEF Spec

\* The provider's state keeps its types.
THEOREM FeedTypes == Spec => []TypeOK
  <1>1. IInv => TypeOK
    BY DEF IInv
  <1> QED BY <1>1, IInvAlways, PTL

\* MarketDataProvider._seconds_until_stale: how long a series that lacks a
\* published bar is served, for every configuration.
THEOREM CacheIsReplaced == Spec => []ReplacedSoon
  BY IInvReplacedSoon, IInvAlways, PTL

\* validate_series with the cache in front of it: no decision sees a bar that
\* was forming when its scan began.
THEOREM NoFormingCandle == Spec => []NeverForming
  <1>1. IInv => NeverForming
    BY DEF IInv, Answered, NeverForming
  <1> QED BY <1>1, IInvAlways, PTL

\* multi_timeframe: the age of both halves of a pair.
THEOREM FreshPairs == Spec => []PairIsFresh
  <1>1. IInv => PairIsFresh
    BY DEF IInv, Answered, PairIsFresh, Given, TypeOK
  <1> QED BY <1>1, IInvAlways, PTL
=============================================================================
