# Verification of the trading bot

TLA+ models of the bot under `src/bot`, the TLC runs that check them on small
instances and the TLAPS proofs that hold for every instance.  `PROJECT.json`
lists the components, the runs, the source lines behind each definition, the
hazards and the findings.

## The system

One Python process owns everything (`service.py`): four scheduler threads (scan,
position poll, reconcile, maintenance), one HTTP thread per dashboard request, a
SQL database and a connection to a TradeLocker DEMO account.

| Component | State | Operations | Hard part |
|---|---|---|---|
| executor (`execution/executor.py`) | none of its own: rows in `execution_intents`, `trades`, `daily_stats` | `execute` (11 steps) | an order whose outcome is unknown; a crash between any two transactions |
| reconciler (`execution/reconciler.py`) | the same rows | `reconcile`: resolve intents, adopt orphans, close stale rows, repair stops | works from one read of the broker while the executor runs |
| storage (`storage/`) | the tables | per-row transactions; `UNIQUE` keys | reads and writes of one decision are separate transactions |
| scan cycle (`orchestrator.py`) | `startup_complete`, the scan lock, cached reads | `startup`, `scan`, `manage_positions`, `reconcile` | what was read at the start of a scan is used minutes later |
| kill switch (`safety/kill_switch.py`) | one row | `read`, `trip`, `clear` | read, then write, from three kinds of thread |
| risk engine (`risk/`) | none | `evaluate`, `evaluate_kill_switch`, sizing | limits judged on a snapshot |
| transport (`broker/http.py`) | circuit, throttle | `request` | shared by all threads; writes must not be repeated |
| TradeLocker adapter (`broker/tradelocker.py`, `broker/history.py`) | tokens, account number, trade config, learned endpoint | reads, `place_market_order`, `modify`, `close` | a session that expires or is replaced between calls |
| paper broker (`broker/paper.py`) | `paper_positions`, `paper_account` | the same calls, settled on read | two readers settle one row |
| position manager (`execution/manager.py`) | flags on the trade row | `plan_actions`, `apply` | a partial close of unknown outcome |
| market data (`marketdata/`) | the cache of series | `series`, `multi_timeframe`, `validate_series` | what is fresh for a scan that started a while ago |
| SMC engine, strategies, scoring (`smc/`, `strategy/`, `scoring/`) | none: recomputed from the candles at every scan | `analyze`, `score` | look-ahead and hindsight; what changes between two scans of one setup |
| AI review, news | none | vetoes | - |
| backtest, diagnostics, dashboard | reports | - | - |

They interact through the database and the broker, never by messages: the scan
thread calls the executor synchronously, the reconcile thread runs next to it
without a lock, and HTTP threads write the same rows.

## Modules

### Execution

The order path.  `intent` and `trade` are the two tables, `order` and `position`
the broker, `opens` and `closes` the daily counters; `exec` is the scan thread
inside `Executor.execute` (the scan lock admits one, which ScanCycle's
`FailurePausesTrading` and `SessionCap` depend on), `recon` the threads inside
`Reconciler.reconcile`.

* Every transaction and every broker call is one action.  `Exec*` actions follow
  the numbered steps of `execute`; `Recon*` actions follow `_resolve_intents`,
  `_adopt_orphans`, `_close_stale` and `_repair_protection`, all working from the
  snapshot `ReconSnapshot` took.
* Refusals are nondeterministic where they depend on data the model leaves out
  (quote, spread, DEMO evidence) and guarded where they depend on rows or
  positions.
* The broker accepts, refuses, loses or fills an order at any moment, arbitrarily long
  after the code stopped waiting for it too, and may drop the stop.  `late` is a history
  variable: the plans whose order was in flight when `execute` stopped waiting
  (`StopWaiting`, a part of every step that ends the wait).
* `Crash` loses both threads and keeps the tables; `ExecRaises` and `ReconRaises`
  are storage exceptions, which no handler inside `execute` catches.
* `ExecMarkOpen` and `ReconMarkOpen` keep the `UNIQUE` constraint on
  `trades.broker_position_id`: the error leaves `execute`.
* `ReconMarkClosed` closes and counts whatever the broker's history holds under the id:
  neither `_close_stale` nor `closed_position_result` asks whether the position is closed.
* `ReconUnreadable` is `startup` completing although its reconcile pass could not
  read the broker, which the docstring of `startup` rules out and the code does.

Left out: prices, sizes and P/L amounts, the re-entry window running out, the
setup gate failing open on a storage error (deliberate in the code), the event
log.

### ScanCycle

The process around it: two scan threads (the job and a manual trigger), control
requests, the boot sequence, the kill switch row.  `kill_switch.trip` and `clear` are a
read and a write.

* A scan reads the pause flag, the account state and the switch in separate steps.
  `ScanGate` is the hard blocks of one candidate, which read the switch again;
  `ScanApprove` is what follows for it (the rate lookup, the AI review), over the network.
* The executor appears as its outcome: it opens (`ScanOpens`, then `ScanBump` counts it),
  ends AMBIGUOUS or REJECTED (`ScanFails`, then `ScanRecordFailure`), ends UNVERIFIED
  (`ScanUnverified`: acknowledged, not seen, neither counted nor a failure to the code),
  or refuses the symbol or all of them.  An order of unknown outcome may fill all the
  same, and nothing counts it (`MayLand`).
* `taken`, `blind`, `failed` and `exposed` are history variables: positions opened in
  the session, those of them by an order of unknown outcome, how orders failed since a
  cooldown elapsed, and what was past the hard blocks when the active trip was written.
  No action of the code reads them.

### Transport

`HttpTransport.request` with the `CircuitBreaker` and the `Throttle` that all
threads share.  `call[c]` is thread `c` inside `request`: its label, the kind of
its request, the attempt, and how it ended (`outcome`: the body, a `BrokerError`,
`AmbiguousExecution`, or an exception no handler names).  `sent` and `applied` are
history: how often the request left, and whether the host carried it out.

* `circuit`: `_failures`, `_consecutive_opens` and the age of `_opened_at`.
  `_half_open` is read by nothing but the health report and is left out.  The
  breaker has no lock: `before_call` is one step and `record_failure` two
  (`RecordFailure`, `SetOpened`), parted at its call of `time.monotonic`.
* `throttle`: the learned interval, the successes counted towards narrowing it,
  the age of `_last`, what is left of the cooldown, the lock's holder and its
  sleep.  `wait` keeps the lock while it sleeps; `penalise` and `record_success`
  queue for it (`Penalise`, `Credit`).
* Time: instants are ages in ticks, capped where the code's comparisons stop
  telling them apart, and `Tick` moves them all.  There is no horizon, so the
  liveness properties are not cut short.  The factor 1.6 is rounded up to a tick.
* The answer of the host, or the timeout, is one action per branch of `request`.
  What a host may have done when it answers (`MayHaveApplied`) is external: a 4xx
  proves that a command was not taken, nothing else does.

Left out: URLs, headers, bodies and the counters of the health report.  `restore`
is part of `Init`, where it runs.

### PositionLife and Desk

`PositionLife` is what the bot may rely on for one position: opened once; its stop, from
the moment it has one, never taken away and never worse than the one it was sized with;
its size only shrinking; closed for good.  `Desk` is the detail: the paper broker, the
position manager, the executor's check of the stop, the reconciler's repair of it and the
tables behind them, in paper or in live mode.  `KeepsLife` states that it implements
`PositionLife` under the mapping `status <- row.status`, `size <- row.qty`, `stop <-
Safety(row.dir, row.stop)` and `planned <- Safety(row.dir, Plan[row.dir].stop)` (stops
written so that larger is safer for either direction).

* `row` is the `paper_positions` row, or the broker's position in live mode; `trade`
  the part of the `trades` row that the manager and the repair read, and whether it
  carries the position id yet; `account` the paper ledger, counted in lots and
  commissions rather than in money; `range` what `_range_since` sees.
* A read of the positions settles stops and targets (`ReadRows`, `Unpriced`/`Priced`,
  `CloseRow`, `Book`: the row and the balance are two transactions).  Any thread that
  reads does it, from the row as it read it.
* `Decide` is `plan_actions` for the whole position, in its order: break-even, partial,
  trailing stop, structural and time exits.  `apply` is the walk over the actions:
  `ModifyCheck`/`ModifyWrite`/`RecordStop`, `CloseCheck`/`CloseRow`/`Book`/`Flag`, or
  `LiveModify` and `LiveClose`, whose outcome may be unknown.
* Three writers move the stop: the manager; the executor, which attaches the planned stop
  when a live broker opened the position without it (`VerifyStop`, `VerifyAttach`,
  `VerifyRecord`); and the reconciler (`RepairRead`, `RepairPlan`, `RepairWrite`), which
  writes the stop of the trades row back.  `Adopt` gives a position its row when the
  process died before the executor did.
* `Crash` ends every thread.  `Raises` ends one, after any of its steps: an exception no
  handler names (a database error, a body that does not parse, which `apply` lets out
  although the broker has carried the write out); the jobs log it and go on.
* `due`, `touched`, `slices`, `bare` and `stale` are history variables: nothing reads them.

### Chart and Strategy

`Chart` is the analysis of one candle series (`smc/`): swings, displacement, breaks
of structure, fair value gaps, order blocks, the liquidity map, sweeps, regime and
dealing range.  `Strategy` is what is made of it: the evidence and classification of
`mtf.py`, the entry zone and levels of `engine.py`, the reversion mode, the identity
of a setup and the score with its gates and tier.  Both are operators; the state is
the chart, and `Scan` adds a candle and analyses all of it again, as a scan does.

Numbers are integers: prices in ticks small enough that the fractions the code takes
of a range or an ATR are exact or round alike, grades in ten-thousandths.  The H1
timeframe enters as its reading (bias, choppiness, position in the dealing range).
`MinTradeable` is `min_tradeable_score`; the bar of a tier is the larger of the two.
Where the code forgives an error of floating point (`R_EPSILON`, `engine.py`), the bound
is rounded up to the next tick: the lowest reward that pays for a stop is `PercentUp`.
While the two modules were written, their results were compared with those of the
Python code on more than 80 random charts for every list that `Chart` computes, and on
about 1100 charts with 18 H1 readings for the candidates, levels, floors, totals and
tiers of both strategies; no difference was left.

### Feed

`MarketDataProvider` and `validate_series` over time, for H1 and M15.  Ages are counted
from the close of a bar and `Tick` moves them all.  The scan's `now` is the moment it
started (`scan.lag` ago), while the cache expires by the clock: that difference is
what the module is about.  `ClosedBy` drops the forming bar, `TooOld` is the check of
three bars, `SecondsUntilStale` the expiry, `Refuse` every other error of a fetch.

### Session

The login that all threads share, and the discovery of the history endpoint above it.
`session` holds the attributes of `TradeLockerBroker` (tokens, expiry, account number,
trade config), `strategy` the shape `HistoryFetcher` has learned, `server` the shape
the broker serves and how it answers the others.  The code writes the attributes under
a lock and reads them outside it, one by one, so every read that decides something is a
step.  A refresh that is refused goes on to the login; one whose answer is lost does not
(`RefreshLost`: `AmbiguousExecution` is no `BrokerError`, so `ensure_session` ends there).
`raced` is a history variable: another thread logged in since this one looked.

### The proof modules

`ExecutionProofs`, `ScanCycleProofs`, `TransportProofs`, `DeskProofs`,
`DeskSafetyProofs` (which builds on `DeskProofs`), `FeedProofs`, `SessionProofs` and
`StrategyProofs` extend the module they are about and hold its theorems, checked by
TLAPS.

### MC modules

`MCExecution`, `MCScanCycle`, `MCTransport`, `MCDesk`, `MCStrategy`, `MCFeed` and
`MCSession` are the modules the configurations give values to.

## Runs

| Run | Instance | Checks | Result |
|---|---|---|---|
| `one_order` | two execution ids of one setup, two positions, late fills, manual trading, one fault | `TypeOK`, `OneOrderPerSetup`, `AbortedMeansNoOrder`, `FailedMeansNoOrder` | hold |
| `one_position` | two setups on one instrument, opposite directions, late fills, one fault | `SecondOnlyByLateFill` | hold |
| `settles` | one plan, manual trading, one fault, fairness | `UnresolvedSettles`, `EveryFillIsBooked` | hold |
| `stale_close` | as `one_order`, nobody trades by hand | `ClosedMeansClosed` | violated |
| `scan_cycle` | two scan threads, one control thread, two symbols, two trades a session, one fault, one uncounted fill, fairness | `TypeOK`, `OneOrderPerCycle`, `SessionCap`, `FailurePausesTrading`, `TripStopsApprovals`, `LockReleased`, `StartupRetried` | hold |
| `transport` | one thread that reads and writes, one that reads, two attempts, threshold 2, open cycles past `MaxExponent`, fairness | `TypeOK`, `WriteSentOnce`, `DefiniteMeansNotApplied`, `SpacingKept`, `RequestReturns`, `CircuitRecovers` | hold |
| `desk` | paper or live, long or short, three bids, levels at 0.75 R, 1 R and 2 R, the poll and one more thread, one fault | `TypeOK`, `PartialOnce`, `LedgerExact`, `KeepsLife`, `NoInventedTrigger` | hold |
| `strategy` | five histories of 11 candles, three more candles of eight shapes, 18 H1 readings, two spreads | `TypeOK`, `NeverTheSameClassTwice`, `StopUntouched`, `TargetPays`, `StructureStands`, `SpentStaysSpent` | hold |
| `setup_drift` | the same | `SetupKeepsItsName` | violated |
| `feed` | bars of 4 and 3 ticks, grace and minimum 1, lag up to 2, silence up to 14 | `TypeOK`, `ReplacedSoon`, `NeverForming`, `PairIsFresh` | hold |
| `session` | the scan and the poll, two shapes, two faults, fairness | `TypeOK`, `OnlyARaceHurts`, `HistoryKeepsComing` | hold |
| `history_stuck` | one fault | `HistoryRecovers` | violated |

Bounds.  Two plans are enough for one order to be in doubt while another is
attempted, which is what every safety property of the order path is about; two
position ids hold two fills or a fill and a manual position; one reconcile thread
runs against the executor and the boot sequence.  `MaxFaults` bounds crashes,
storage exceptions and manual positions together; one fault at any of the steps reaches
every recovery path, since a recovery is complete before the next fault matters
to the row it left.  The close counter stops at 2.  In Transport two threads are
enough for a late answer, a sleeper with the lock and a failure next to a success;
a threshold and attempts of 2 let a single read open the circuit, and two ticks of
interval and of reset give each of them one step of growth.  `MaxExponent` is the
exponent of the largest power of two a double can hold, 1023; the run gives it the value 1
and counts open cycles to `MaxOpens = 3`, so that the wait is doubled, reaches its cap, and
then overflows, as it does after 1024 cycles.  In ScanCycle `MaxFaults` bounds crashes and
exceptions, `MaxBlind` the fills of a session that nobody counts.

In Desk the lowest bid is the long's stop and beyond the short's target, the highest is
2.2 R of the long, where break-even, partial and trailing stop are planned together, and
beyond the short's stop; the long's moved stop is hit on the way back.  A short that earns
makes the same comparisons the other way round, and a trailing stop behind the break-even is
what `MCDeskBreakeven` is about; the proofs cover both, and every other level.  Prices are
in twentieths of the smallest risk.  Two threads are enough for a stale read and a double
settlement.

In Strategy a swing has one neighbour on each side, the ATR four candles and a reaction two,
so that fourteen candles hold sweeps, breaks and zones that are formed, used up and
traded; each history leads to another part of the decision, and every mutant of the
modules was found from them.  In Feed a silence of 14 ticks is longer than three bars
of either timeframe and a lag of 2 lets a bar close behind a scan's back.  In Session
two faults are a revoked token followed by a lost login, or a changed endpoint next to
either.  Desk and Strategy may stop (a position is closed, the chart is full), so their
runs do not look for deadlock.  The proofs remove these bounds for the properties they
cover.

Fairness.  Threads that run keep running (`WF` on the steps of `execute`,
`reconcile` and `_scan`: no step waits on another thread).  The broker decides
every order (`WF`).  The periodic read of the broker, and the reads of the boot
sequence, succeed again and again although they may fail any number of times
(`SF`): the job is periodic and an outage is assumed to end.  Nothing is assumed
about faults, control requests or the account owner.  In Transport time passes,
`urlopen` has a timeout and the periodic jobs call again (`WF`); a thread that
waits for the throttle's lock is not overtaken for ever (`SF`), since whoever gave
it back is on the network before it asks again.  Nothing is assumed of the host:
`CircuitRecovers` is about one that stays up from some point on.  In Session the
scheduler starts the scan again and again, a request ends and a token expires (`WF`);
revoked tokens, lost requests and changed endpoints are bounded by `MaxFaults`, so that
from some point on there are none.  The expiry matters: a token revoked before the
account number was resolved is replaced only when it expires.

## Findings

* `stale_close`: `reconcile` reads the positions once and the trades later; a
  position opened in between is closed in the books and stays so.
* `setup_drift`: the identity of a setup contains the level that was swept, and the
  high or low of a session still running moves with the next candle.  The same sweep
  and the same break then have another name, which the refusal of a setup already
  traded does not know.
* `history_stuck`: a 4xx on the learned endpoint shape leaves `fetch` before it forgets
  the shape; history then fails until the process restarts.  `HistoryKeepsComing` is
  what does hold: nothing else stops it.

### Refuted promises

Each of these properties states what a comment or a document of the repository says; TLC
finds a counterexample to it under the configuration named (`tlc -config <cfg> <module>`),
next to the weaker property of a run, which holds.

| Property, configuration | What is said | What the code does | What holds |
|---|---|---|---|
| `AbandonedMeansNothing`, `MCExecutionAbandoned` | `repositories.py:153`: ABANDONED is set after the broker was asked and "nothing happened" | the order of a lost answer may fill after the pass looked | `OneOrderPerSetup`: the row keeps the setup blocked |
| `StartupReconciles`, `MCExecutionBoot` | `orchestrator.py:332`: "a failed reconcile means no new orders" | `startup` completes whatever the report says | `StartupRetried` |
| `UnknownPausesTrading`, `MCScanCycleUnverified` | `orchestrator.py:657`: "hammering a broker you cannot read is exactly wrong" | UNVERIFIED is no failure status: no cooldown | `FailurePausesTrading`, for the two statuses that are |
| `SessionLimit`, `MCScanCycleLimit` | `docs/RISK_MANAGEMENT.md:105`: trades per session | an order of unknown outcome that fills is counted for no session | `SessionCap`, which allows for those and for faults |
| `TripStopsOrders`, `MCScanCycleTrip` | `kill_switch.py:3`: "no new trade may be created for any symbol" | nothing after `_hard_blocks` reads the switch again | `TripStopsApprovals`: nothing else passes them |
| `RecoveredIsUsed`, `MCTransportOverflow` | `http.py:58`: "a broker that comes back is used immediately" | from the 1025th open cycle in a row (about eleven days) the wait is an `OverflowError`, raised before the host is tried | `CircuitRecovers`, up to there |
| `PartialNeverRepeats`, `MCDeskPartial` | `docs/WHEN_IS_IT_DONE.md:34`: "Position management cannot repeat itself" | a position polled before its row carries its id has no `partial_taken`: the next poll sends another partial | `PartialOnce`, for a trade that has its row |
| `BreakevenStays`, `MCDeskBreakeven` | the same: guarded "by live broker state" | with trailing from below 1.05 R (`config.py:888` accepts 0.5) one plan moves the stop to break-even and then behind it; the default is 2 R | `KeepsLife`: never worse than the planned stop |
| `SettledMeansReached`, `MCDeskCandle` | `paper.py:258`: closed "if its stop or target has been reached" | a stop raised to break-even is settled by a candle from before it was raised | `NoInventedTrigger`, for the original stop and the target |
| `ScoreIsTheBar`, `MCStrategyReversion` | `reversion.py:231`: "the build's B tier remains this mode's bar" | the scorer's gate on the entry zone refuses every reversion: the mode never trades | - |

### Known limits

Further behaviours that the models contain, or that a property excuses:

* A fill is recorded by three transactions, so a crash leaves a FILLED intent with a
  PENDING row until a pass repairs it (`EveryFillIsBooked`).  When a pass adopts a position
  before the executor books it, the opening is not counted and the executor's check of the
  stop does not happen.  Two passes may count the close of one position twice, and a
  position the account owner opened by hand may be taken for the fill.
* Of two trips that race the later reason wins, also over a safety reason.
* Paper: two threads that settle one row both book it, and a process that dies between the
  row and the balance leaves the balance behind.  `LedgerExact` excludes both, and is then
  weaker than `docs/PAPER_TRADING.md:117`, which says that the ledger reconciles.
* A login that clears `_acc_num` between another thread's `ensure_session` and its request
  lets that request go without an account number (`OnlyARaceHurts` excuses it).
* An adopted position whose row has no stop is never given one; that a live broker loses a
  stop it once had is in Execution, not in Desk.
* A short's target is compared with the candles of the bid, so it may be settled one
  spread before the ask reached it; `NoInventedTrigger` takes the bid as evidence, as
  the code does.
* The buffer of a break-even measured from a small risk is rounded down to a unit of
  price.

## Proofs

Every safety invariant and every action property of a passing run is proved, for all
values of the constants that the module's assumptions admit.  No invariant but the
plainest is inductive; each part below says what had to be added and why.

### Execution

For any sets of plans, setups, symbols, positions and reconcile threads, any bound on
faults and both values of `ManualTrading` (`PlanAssumption`, `IdAssumption`,
`ChoiceAssumption`, `BoundAssumption`: the types of the constants).

* `TypeCorrect`: `Spec => []TypeOK`.
* `OneOrder`: `Spec => []OneOrderPerSetup`.  It does not say why a second order cannot be
  sent.  The reason is the `trades` row, not the intent: a sent order's row is PENDING,
  OPEN, ORPHANED or CLOSED and `mark_aborted` only runs on the thread that has not sent
  yet.  `OrderInv` says so: a sent plan's row blocks its setup (`SentBlocks`), the
  executing plan's row is written before it is sent (`RowWritten`), before the send
  nobody has sent a plan of the setup (`OnlySender`), two sent plans of one setup are one
  plan (`OneSentPlan`), an order makes one position (`OneFillPerOrder`), and FAILED is
  never written over a sent order (`FailedUnsent`).  One lemma per group of actions shows
  it is preserved; `OrderFrame` states once what a step that sends nothing has to
  respect.
* `AbortedIsClean`, `FailedIsClean`: from the same invariant, the two rows that free a
  setup or re-arm an intent never belong to a sent order.
* `OneBotPosition`: `Spec => []SecondOnlyByLateFill`, with fills as late as the broker
  likes.  The live check reads the positions long before the fill, and `BookInv` carries it
  over: an order in flight is waited for, or it is late from then on (`Awaited`); no timely
  position stands where a timely order is in flight, nor where one is about to be sent, from
  the check on (`FreeAhead`); so two timely positions of one instrument are one
  (`OneTimely`).

### ScanCycle

For any scan and control threads, symbols and limits (`LimitAssumption`,
`NullAssumption`): `ScanTypes`, `OneOrder` (one order per cycle), `SessionBound`,
`FailurePauses`, `TripStops`.

`IInv` gives the reason in each case.  The lock admits one thread that is not idle
(`Exclusive`); so what it read of the account still stands when it judges by it
(`SeenStands`), and whatever is past the hard blocks, under review or approved, or was just
opened, was below the limits (`WithinLimits`).  An order is the last thing a scan does
(`SentLast`).  Every position taken is counted, about to be, or cost a fault or an order of
unknown outcome (`Counting`), and a failure is recorded or about to be (`FailureKnown`).
The kill switch is written by threads without the lock: what is past the hard blocks after
a trip was past them when it was written (`Exposed`).

### Transport

For any number of threads, attempts and open cycles, any threshold and any intervals and
cooldowns (`CountAssumption`, `TimeAssumption`, `CallerAssumption`).

* `WriteOnce`, `RefusalIsDefinite`: `[]WriteSentOnce` and `[]DefiniteMeansNotApplied`, from
  `CallInv`, which ties `sent` and `applied` to the label of each thread (a write has left
  exactly once from "flight" on; nothing is applied before an answer that allows it).
* `Spacing`: `Spec => SpacingKept` needs `ThrottleInv` as well: the sleeper holds the lock,
  and what is left of its sleep covers what is left of the interval and of the cooldown.
  That survives every step because whoever changes either needs the lock; `QuietStep`
  shows that only `wait` lets a thread through.
* `TransportTypes`: `Spec => []TypeOK`.  The failures are bounded only together with the
  threads that passed the breaker before it opened: `CircuitInv` says that there are at
  most `FailureThreshold + Cardinality(Reopening)` of them, which is where the set of
  threads has to be finite.

### Desk

For any prices, spreads, levels, lots and threads, in paper and in live mode
(`ThreadAssumption`, `PriceAssumption`, `LevelAssumption`).

* `DeskTypes`: `Spec => []TypeOK`, from `DeskInv`: what each thread carries at each of its
  labels (`Shaped`), and that nothing is under way before there is a position (`Fresh`).
* `PositionsKeepTheirLife`: `Spec => KeepsLife`, for every setting of the manager's levels:
  the refinement of `PositionLife`, step by step: `Init` maps to its initial state, and every
  step to one of its steps or to a stutter (`LifeNext`).  `LifeInv` adds what a stop rests
  on when three writers share it (`StopInv`): that every stop on its way to the position, in
  a plan of the manager (`Advancing`), in the hands of the executor or the reconciler
  (`Placing`) or recorded in the trades row, is at least as safe as the planned one, that a
  position without a stop never had another than the planned (`Held`), and that the size a
  partial is measured by is the row's (`SizeHeld`).
* `OnePartial`: `Spec => []PartialOnce`.  `PartialsCounted` counts the sends against the
  flag: one more than the faults only while one is under way or recorded.
* `LedgerMatchesRows`: `Spec => []LedgerExact`.  `Ledger` says what is due but not booked in
  every state between the two transactions of a close: the part the poller closed, the
  rest of the row one thread closed, and the fee one thread owes, each by one thread, as
  long as nothing ended between the two.
* `OnlyReachedLevelsSettle`: `Spec => NoInventedTrigger`.  `Reached` says that levels the
  market stands at, or that the candles since the opening show, have been reached.

### Feed

For bars of any duration, any grace, minimum and silence, and any lag shorter than a bar
(`FeedAssumption`): `FeedTypes`, `CacheIsReplaced`, `NoFormingCandle` and `FreshPairs`, the
four invariants of the run.  `IInv` adds to `TypeOK` that two bars of a timeframe, on the
broker, in flight or cached, are the same or at least a bar apart (`Apart`: so the bar
before a forming one had closed when the scan began, which is where a lag shorter than a
bar is needed), how long a cached series is still served and how old it gets by then
(`Life`, which gives `ReplacedSoon` and the cached half of `PairIsFresh`), that what is
cached had closed when the running scan began (`Closed`), and the same two bounds for what
the scan was given (`Answered`).

### Session

For any threads, shapes and faults (`SessionAssumption`): `SessionTypes` and `OnlyRacesHurt`.
`IInv` adds that a thread that looks for history has a shape in hand (`Shaped`).

### Chart and Strategy

For every chart of valid candles, any histories, shapes of candles, H1 readings and
spreads, any swing window, ATR period and reaction (`ChartAssumption`,
`StrategyAssumption`).  `StaysCharted` is the invariant: the candles are valid and the
analysis is that of the candles.  The rest is about the operators.

* `NoTwins`: `[]NeverTheSameClassTwice`, by the cases of `Classify`.
* `ScanTypes`: `[]TypeOK`.  `Sound` says what the detectors return for any chart
  (`SweepsSound`, `EventsSound`, `GapsSound`, `BlocksSound` and the liquidity map).
* `StopsAreUntouched`, `TargetsPay`: the two properties of what is built on top.
  `BestGapIsOne`, `BestBlockIsOne` and `DecisionIs` show that the code's
  choices pick one element, so that the evidence is a zone, a sweep and a break of the
  analysis; `StopIsBehind` and `LiveIsUntouched` that the stop is behind a zone no candle
  has traded through; `TargetIsFar` that what the offset in front of a pool gives up
  leaves the reward above its floor.
* `StructureIsNeverRevised`, `ZonesAreNeverRevived`: `StructureStands` and
  `SpentStaysSpent`.  `Grown(cs, ds)` relates a chart to the chart with one more candle;
  true ranges, pivots, displacements, the walk over the candles, gaps, the origin of a
  displacement and the candle that spends a zone are shown to stand, each from the ones
  before (`AtrStands`, `PivotsStand`, `MovesStand`, `WalkStands`, `EventsStand`,
  `GapStands`, `OriginStands`, `SpentStands`, `BlockStands`).

Sums over a set of candles and the walk over the chart are recursive functions, and the
library's induction theorems are out of the provers' reach, so the inductions are written
out: the set of arguments at which the claim fails, if it is not empty, has a smallest
member (`SmallestSubset`, `MinOf`), which contradicts the definition
(`SumsExist`, `SumsAreNat`, `SumsAgree`, `WalksExist`, `WalkTypes`).

### Only model-checked

The liveness properties `UnresolvedSettles`, `EveryFillIsBooked`, `LockReleased`,
`StartupRetried`, `RequestReturns`, `CircuitRecovers` and `HistoryKeepsComing`: fairness and
`ENABLED` are out of the prover's reach.  What the operators of Chart and Strategy compute
exactly (a grade, a total, a tier) is neither proved nor stated as a property; it was
compared with the Python code as described above.  Refutations are TLC's.

## Plan

1. Risk sizing, currency exposure and the losing streak as operators, checked against
   reference definitions over small ranges, with lemmas on their bounds (a size never
   risks more than its budget; what rounding to lots can add).
2. An abstract `OrderBook` (at most one order per setup, every fill booked) that
   Execution implements, its safety half proved from `OrderInv`.
3. The discovery of the quote and closed-position endpoints, in the way of Session.

## Not modelled

Risk sizing and exposure (arithmetic on one account reading: planned), AI and news
providers (vetoes; I/O), the decoding of broker columns and candles, instrument
specifications, the backtest (offline, single threaded; it replays the strategy over
recorded candles), diagnostics, configuration parsing, the dashboard and its proxy.
