----------------------------- MODULE Execution -----------------------------
(***************************************************************************)
(* The path of an order: bot/execution/executor.py (one scan thread at a   *)
(* time), bot/execution/reconciler.py (the periodic thread, the boot       *)
(* sequence and the manual trigger), the tables both write                 *)
(* (bot/storage/repositories.py) and the broker, which is external.        *)
(*                                                                         *)
(* Every database transaction and every broker call is a step of its own:  *)
(* the two threads share the tables and no lock, and the process may die   *)
(* between any two steps.  What survives a crash is the tables and the     *)
(* broker.  The model covers one re-entry window: traded_setup_ids forgets *)
(* no row.                                                                 *)
(***************************************************************************)
EXTENDS Naturals, FiniteSets

CONSTANTS
    Plans,         \* execution ids (execution/plan.py)
    Setups,        \* setup identities (smc/identity.py)
    Symbols,       \* instruments, up to same_instrument
    Directions,    \* BUY, SELL
    SetupOf, SymbolOf, DirectionOf,  \* what a plan is about
    Pos,           \* broker position ids
    Reconcilers,   \* threads that may run a reconcile pass
    Timer,         \* the one that also runs the boot sequence
    NULL,
    ManualTrading, \* may the account owner open positions too?
    MaxFaults      \* bound: crashes, storage exceptions and manual positions

ASSUME PlanAssumption ==
    /\ SetupOf \in [Plans -> Setups]
    /\ SymbolOf \in [Plans -> Symbols]
    /\ DirectionOf \in [Plans -> Directions]

ASSUME IdAssumption ==
    /\ Pos \subseteq Nat
    /\ Plans \cap Pos = {}
    /\ NULL \notin Plans \cup Pos
    /\ Timer \in Reconcilers

ASSUME ChoiceAssumption == ManualTrading \in BOOLEAN

ASSUME BoundAssumption == MaxFaults \in Nat

VARIABLES
    intent,     \* execution_intents: per plan [status, order, pos]
    trade,      \* trades: per execution id [status, pos]
    order,      \* external: what became of the last order sent for a plan
    position,   \* external: the broker's positions
    opens,      \* daily_stats.trades_opened, by the plan that was counted
    closes,     \* daily_stats closes, by position (counts stop at 2)
    exec,       \* the scan thread inside Executor.execute
    recon,      \* each thread inside Reconciler.reconcile
    ready,      \* Orchestrator.startup_complete
    late,       \* history: plans whose order was in flight when execute stopped
                \* waiting for it
    faults

broker == <<order, position>>
stats == <<opens, closes>>
env == <<ready, late, faults>>
vars == <<intent, trade, broker, stats, exec, recon, env>>

----------------------------------------------------------------------------
(* The tables and their writers.                                           *)

INTENT_STATES == {"CREATED", "SUBMITTED", "ACKNOWLEDGED", "FILLED",
                  "AMBIGUOUS", "FAILED", "ABANDONED"}

TRADE_STATES == {"PENDING", "OPEN", "CLOSED", "ORPHANED", "ABORTED"}

RETRYABLE == {"FAILED", "ABANDONED"}

Unresolved == {"CREATED", "SUBMITTED", "ACKNOWLEDGED", "AMBIGUOUS"}

\* An orphan row's execution id is derived from its position id.
Rows == Plans \cup Pos

NoIntent == [status |-> "none", order |-> FALSE, pos |-> NULL]

NoTrade == [status |-> "none", pos |-> NULL]

\* COALESCE(?, column)
Coalesce(new, old) == IF new = NULL THEN old ELSE new

\* IntentRepository.mark: unconditional, ids are kept once recorded.
Mark(p, status, acked, q) ==
    intent' = [intent EXCEPT ![p] =
        [status |-> status, order |-> @.order \/ acked, pos |-> Coalesce(q, @.pos)]]

\* The trades row that holds a position id (UNIQUE).
RowsOf(q) == {x \in Rows : trade[x].pos = q}

\* trades.broker_position_id is UNIQUE: writing q into row p must raise.
UniqueViolation(p, q) ==
    trade[p].status # "none" /\ RowsOf(q) \ {p} # {}

\* TradeRepository.mark_open: an UPDATE, so no row means no effect.
MarkOpen(p, q) ==
    trade' = IF trade[p].status = "none" THEN trade
             ELSE [trade EXCEPT ![p] = [status |-> "OPEN", pos |-> q]]

\* TradeRepository.mark_aborted: only from PENDING.
MarkAborted(p) ==
    trade' = IF trade[p].status = "PENDING"
             THEN [trade EXCEPT ![p].status = "ABORTED"]
             ELSE trade

\* TradeRepository.create_pending: revive ABORTED, keep any other row, insert.
CreatePending(p) ==
    trade' = IF trade[p].status \in {"none", "ABORTED"}
             THEN [trade EXCEPT ![p].status = "PENDING"]
             ELSE trade

\* TradeRepository.mark_closed: every row with this position id, any status.
MarkClosed(q) ==
    trade' = [x \in Rows |-> IF x \in RowsOf(q)
                             THEN [trade[x] EXCEPT !.status = "CLOSED"]
                             ELSE trade[x]]

\* Mutant: a row whose order may be at the broker no longer blocks its setup.
TradedSetupsWithoutPending ==
    {SetupOf[p] : p \in {x \in Plans : trade[x].status \in {"OPEN", "ORPHANED", "CLOSED"}}}

\* TradeRepository.traded_setup_ids over one re-entry window.
TradedSetups ==
    {SetupOf[p] : p \in {x \in Plans : trade[x].status \in
                              {"PENDING", "OPEN", "ORPHANED", "CLOSED"}}}

\* TradeRepository.open_trades, as the position ids it carries.
OpenTradeIds ==
    {trade[x].pos : x \in {y \in Rows :
        trade[y].status \in {"OPEN", "ORPHANED", "PENDING"} /\ trade[y].pos # NULL}}

----------------------------------------------------------------------------
(* The broker.                                                             *)

\* rejected: the broker said no.  lost: it never arrived.  void: accepted and
\* never filled.
OrderStates == {"none", "flying", "accepted", "landed", "void", "lost", "rejected"}

InFlight(p) == order[p] \in {"flying", "accepted"}

\* Execute returns, raises or dies, and the broker may still fill what it sent.
StopWaiting == late' = late \cup {p \in Plans : InFlight(p)}

Unused == [state |-> "none", owner |-> NULL, symbol |-> NULL,
           direction |-> NULL, stop |-> FALSE]

OpenPositions == {q \in Pos : position[q].state = "open"}

\* Position ids are issued in order.
Fresh(q) ==
    /\ position[q].state = "none"
    /\ \A r \in Pos : position[r].state = "none" => q <= r

Matches(q, p) ==
    /\ position[q].symbol = SymbolOf[p]
    /\ position[q].direction = DirectionOf[p]

\* The bound on what goes wrong.
Disturb == faults < MaxFaults /\ faults' = faults + 1

BrokerAccepts(p) ==
    /\ order[p] = "flying"
    /\ order' = [order EXCEPT ![p] = "accepted"]
    /\ UNCHANGED <<intent, trade, position, stats, exec, recon, env>>

BrokerRefuses(p) ==
    /\ \/ /\ order[p] = "flying"
          /\ \E o \in {"rejected", "lost"} : order' = [order EXCEPT ![p] = o]
       \/ /\ order[p] = "accepted"
          /\ order' = [order EXCEPT ![p] = "void"]
    /\ UNCHANGED <<intent, trade, position, stats, exec, recon, env>>

\* The fill; the broker may drop the attached stop.
BrokerFills(p) ==
    /\ order[p] = "accepted"
    /\ \E q \in Pos, stop \in BOOLEAN :
        /\ Fresh(q)
        /\ position' = [position EXCEPT ![q] =
              [state |-> "open", owner |-> p, symbol |-> SymbolOf[p],
               direction |-> DirectionOf[p], stop |-> stop]]
    /\ order' = [order EXCEPT ![p] = "landed"]
    /\ UNCHANGED <<intent, trade, stats, exec, recon, env>>

\* Stop, target, the position manager or the account owner.
BrokerCloses(q) ==
    /\ position[q].state = "open"
    /\ position' = [position EXCEPT ![q].state = "closed"]
    /\ UNCHANGED <<intent, trade, order, stats, exec, recon, env>>

\* A position opened outside the bot.
ManualOpen ==
    /\ ManualTrading
    /\ Disturb
    /\ \E q \in Pos, s \in Symbols, d \in Directions :
        /\ Fresh(q)
        /\ position' = [position EXCEPT ![q] =
              [state |-> "open", owner |-> NULL, symbol |-> s, direction |-> d, stop |-> TRUE]]
    /\ UNCHANGED <<intent, trade, order, stats, exec, recon, ready, late>>

----------------------------------------------------------------------------
(* Executor.execute.                                                       *)

ExecIdle == [pc |-> "idle", plan |-> NULL, found |-> NULL, bare |-> FALSE]

Goto(pc) == exec' = [exec EXCEPT !.pc = pc]

\* The scan hands over a plan its setup gate let through.
ExecBegin(p) ==
    /\ ready
    /\ exec.pc = "idle"
    /\ SetupOf[p] \notin TradedSetups
    /\ exec' = [ExecIdle EXCEPT !.pc = "persist", !.plan = p]
    /\ UNCHANGED <<intent, trade, broker, stats, recon, env>>

\* Steps 1 and 2: no database or no proof of DEMO, nothing written.
ExecRefuse ==
    /\ exec.pc = "persist"
    /\ exec' = ExecIdle
    /\ UNCHANGED <<intent, trade, broker, stats, recon, env>>

\* Step 3, intents.create, then the read reopen decides on.
ExecCreateIntent ==
    LET p == exec.plan IN
    /\ exec.pc = "persist"
    /\ \/ /\ intent[p].status = "none"
          /\ intent' = [intent EXCEPT ![p].status = "CREATED"]
          /\ Goto("pending")
       \/ /\ intent[p].status \in RETRYABLE
          /\ ~intent[p].order /\ intent[p].pos = NULL
          /\ Goto("reopen")
          /\ UNCHANGED intent
       \/ /\ \/ intent[p].status \notin RETRYABLE \cup {"none"}
             \/ intent[p].order \/ intent[p].pos # NULL
          /\ exec' = ExecIdle
          /\ UNCHANGED intent
    /\ UNCHANGED <<trade, broker, stats, recon, env>>

\* reopen's conditional UPDATE; it answers True whatever the UPDATE matched.
ExecReopen ==
    LET p == exec.plan IN
    /\ exec.pc = "reopen"
    /\ intent' = IF /\ intent[p].status \in RETRYABLE
                    /\ ~intent[p].order /\ intent[p].pos = NULL
                 THEN [intent EXCEPT ![p].status = "CREATED"]
                 ELSE intent
    /\ Goto("pending")
    /\ UNCHANGED <<trade, broker, stats, recon, env>>

ExecCreatePending ==
    /\ exec.pc = "pending"
    /\ CreatePending(exec.plan)
    /\ Goto("positions")
    /\ UNCHANGED <<intent, broker, stats, recon, env>>

\* A refusal marks the intent FAILED; mark_aborted is the next transaction.
Fail(p) ==
    /\ Mark(p, "FAILED", FALSE, NULL)
    /\ Goto("abort")

\* Mutant: the live read is taken for granted.
CheckPositionsSkipped ==
    /\ exec.pc = "positions"
    /\ Goto("intents")
    /\ UNCHANGED <<intent, trade, broker, stats, recon, env>>

\* Step 4, first half: the live read.  Unreadable is a refusal.
ExecCheckPositions ==
    /\ exec.pc = "positions"
    /\ \/ /\ \A q \in OpenPositions : position[q].symbol # SymbolOf[exec.plan]
          /\ Goto("intents")
          /\ UNCHANGED intent
       \/ Fail(exec.plan)
    /\ UNCHANGED <<trade, broker, stats, recon, env>>

OtherUnresolved(p) ==
    {x \in Plans \ {p} : intent[x].status \in Unresolved /\ SymbolOf[x] = SymbolOf[p]}

\* Step 4, second half: another plan's unresolved intent on the symbol.
ExecCheckIntents ==
    /\ exec.pc = "intents"
    /\ \/ /\ OtherUnresolved(exec.plan) = {}
          /\ Goto("conditions")
          /\ UNCHANGED intent
       \/ /\ OtherUnresolved(exec.plan) # {}
          /\ Fail(exec.plan)
    /\ UNCHANGED <<trade, broker, stats, recon, env>>

\* Steps 5 and 6: the quote, the spread limits and the second DEMO check.
ExecCheckConditions ==
    /\ exec.pc = "conditions"
    /\ \/ Goto("submit") /\ UNCHANGED intent
       \/ Fail(exec.plan)
    /\ UNCHANGED <<trade, broker, stats, recon, env>>

ExecAbort ==
    /\ exec.pc = "abort"
    /\ MarkAborted(exec.plan)
    /\ exec' = ExecIdle
    /\ UNCHANGED <<intent, broker, stats, recon, env>>

\* Step 7.
ExecSubmit ==
    /\ exec.pc = "submit"
    /\ Mark(exec.plan, "SUBMITTED", FALSE, NULL)
    /\ Goto("send")
    /\ UNCHANGED <<trade, broker, stats, recon, env>>

\* place_market_order: one write, never retried.
ExecSend ==
    /\ exec.pc = "send"
    /\ order' = [order EXCEPT ![exec.plan] = "flying"]
    /\ Goto("await")
    /\ UNCHANGED <<intent, trade, position, stats, recon, env>>

ExecAcknowledged ==
    /\ exec.pc = "await"
    /\ order[exec.plan] \in {"accepted", "landed", "void"}
    /\ Mark(exec.plan, "ACKNOWLEDGED", TRUE, NULL)
    /\ Goto("verify")
    /\ UNCHANGED <<trade, broker, stats, recon, env>>

ExecRejected ==
    /\ exec.pc = "await"
    /\ order[exec.plan] = "rejected"
    /\ Fail(exec.plan)
    /\ UNCHANGED <<trade, broker, stats, recon, env>>

\* Mutant: an unknown outcome is cleaned up like a refusal.
AmbiguousAborts ==
    /\ exec.pc = "await"
    /\ StopWaiting
    /\ Mark(exec.plan, "AMBIGUOUS", FALSE, NULL)
    /\ Goto("abort")
    /\ UNCHANGED <<trade, broker, stats, recon, ready, faults>>

\* A lost answer and any error but a rejection; the row stays PENDING.
ExecAmbiguous ==
    /\ exec.pc = "await"
    /\ StopWaiting
    /\ Mark(exec.plan, "AMBIGUOUS", FALSE, NULL)
    /\ exec' = ExecIdle
    /\ UNCHANGED <<trade, broker, stats, recon, ready, faults>>

\* Step 8: any position of the instrument and direction is taken for the fill.
ExecVerifyFinds ==
    /\ exec.pc = "verify"
    /\ StopWaiting
    /\ \E q \in OpenPositions :
        /\ Matches(q, exec.plan)
        /\ exec' = [exec EXCEPT !.pc = "filled", !.found = q, !.bare = ~position[q].stop]
    /\ UNCHANGED <<intent, trade, broker, stats, recon, ready, faults>>

\* Mutant: no early return when no position was found.
VerifyFallsThrough ==
    /\ exec.pc = "verify"
    /\ StopWaiting
    /\ Mark(exec.plan, "AMBIGUOUS", FALSE, NULL)
    /\ Goto("filled")
    /\ UNCHANGED <<trade, broker, stats, recon, ready, faults>>

\* order_verify_attempts reads that failed or showed no such position.
ExecVerifyGivesUp ==
    /\ exec.pc = "verify"
    /\ StopWaiting
    /\ Mark(exec.plan, "AMBIGUOUS", FALSE, NULL)
    /\ exec' = ExecIdle
    /\ UNCHANGED <<trade, broker, stats, recon, ready, faults>>

ExecFilled ==
    /\ exec.pc = "filled"
    /\ Mark(exec.plan, "FILLED", TRUE, exec.found)
    /\ Goto("open")
    /\ UNCHANGED <<trade, broker, stats, recon, env>>

\* The constraint error is no BotError: it leaves execute.
ExecMarkOpen ==
    LET p == exec.plan q == exec.found IN
    /\ exec.pc = "open"
    /\ \/ UniqueViolation(p, q) /\ exec' = ExecIdle /\ UNCHANGED trade
       \/ ~UniqueViolation(p, q) /\ MarkOpen(p, q) /\ Goto("count")
    /\ UNCHANGED <<intent, broker, stats, recon, env>>

ExecRecordOpen ==
    /\ exec.pc = "count"
    /\ opens' = [opens EXCEPT ![exec.plan] = @ + 1]
    /\ Goto("protect")
    /\ UNCHANGED <<intent, trade, broker, closes, recon, env>>

\* Step 9: a missing stop is attached by one write, which may fail.
ExecProtect ==
    LET q == exec.found IN
    /\ exec.pc = "protect"
    /\ \/ /\ exec.bare /\ position[q].state = "open"
          /\ position' = [position EXCEPT ![q].stop = TRUE]
       \/ UNCHANGED position
    /\ exec' = ExecIdle
    /\ UNCHANGED <<intent, trade, order, stats, recon, env>>

----------------------------------------------------------------------------
(* Reconciler.reconcile, one thread.                                       *)

ReconIdle == [pc |-> "idle", snap |-> {}, bare |-> {}, intents |-> {}, ids |-> {},
              plan |-> NULL, pos |-> NULL]

ReconTo(r, thread) == recon' = [recon EXCEPT ![r] = thread]

\* The one read of the broker's positions that the whole pass works from.
ReconSnapshot(r) ==
    /\ recon[r].pc = "idle"
    /\ ReconTo(r, [ReconIdle EXCEPT
          !.pc = "intents", !.snap = OpenPositions, !.ids = OpenPositions,
          !.bare = {q \in OpenPositions : ~position[q].stop}])
    /\ UNCHANGED <<intent, trade, broker, stats, exec, env>>

\* startup does not look at report.errors: it completes all the same.
ReconUnreadable(r) ==
    /\ recon[r].pc = "idle"
    /\ r = Timer /\ ~ready
    /\ ready' = TRUE
    /\ UNCHANGED <<intent, trade, broker, stats, exec, recon, late, faults>>

\* Mutant: only intents that were never answered are read.
ReadIntentsWithoutAmbiguous(r) ==
    /\ recon[r].pc = "intents"
    /\ ReconTo(r, [recon[r] EXCEPT !.pc = "resolve",
          !.intents = {<<p, intent[p].order>> :
                p \in {x \in Plans : intent[x].status \in Unresolved \ {"AMBIGUOUS"}}}])
    /\ UNCHANGED <<intent, trade, broker, stats, exec, env>>

ReconReadIntents(r) ==
    /\ recon[r].pc = "intents"
    /\ ReconTo(r, [recon[r] EXCEPT !.pc = "resolve",
          !.intents = {<<p, intent[p].order>> :
                            p \in {x \in Plans : intent[x].status \in Unresolved}}])
    /\ UNCHANGED <<intent, trade, broker, stats, exec, env>>

\* _resolve_intents: a position of the instrument and direction was seen.
ReconResolveFilled(r) ==
    /\ recon[r].pc = "resolve"
    /\ \E w \in recon[r].intents, q \in recon[r].snap :
        /\ Matches(q, w[1])
        /\ Mark(w[1], "FILLED", FALSE, q)
        /\ ReconTo(r, [recon[r] EXCEPT !.pc = "open", !.plan = w[1], !.pos = q,
                                  !.intents = @ \ {w}])
    /\ UNCHANGED <<trade, broker, stats, exec, env>>

ReconMarkOpen(r) ==
    LET p == recon[r].plan q == recon[r].pos IN
    /\ recon[r].pc = "open"
    /\ \/ /\ UniqueViolation(p, q)
          /\ ReconTo(r, ReconIdle)
          /\ UNCHANGED trade
       \/ /\ ~UniqueViolation(p, q)
          /\ MarkOpen(p, q)
          /\ ReconTo(r, [recon[r] EXCEPT !.pc = "resolve", !.plan = NULL, !.pos = NULL])
    /\ UNCHANGED <<intent, broker, stats, exec, env>>

\* Mutant: an intent whose position is not in the snapshot is called FAILED.
ResolveUnseenAsFailed(r) ==
    /\ recon[r].pc = "resolve"
    /\ \E w \in recon[r].intents :
        /\ \A q \in recon[r].snap : ~Matches(q, w[1])
        /\ Mark(w[1], "FAILED", FALSE, NULL)
        /\ ReconTo(r, [recon[r] EXCEPT !.intents = @ \ {w}])
    /\ UNCHANGED <<trade, broker, stats, exec, env>>

\* No position: the order history can only confirm a recorded order id; an
\* unreadable history reads as no match, and no match is ABANDONED.
ReconResolveUnseen(r) ==
    /\ recon[r].pc = "resolve"
    /\ \E w \in recon[r].intents :
        /\ \A q \in recon[r].snap : ~Matches(q, w[1])
        /\ \/ w[2] /\ Mark(w[1], "FILLED", TRUE, NULL)
           \/ Mark(w[1], "ABANDONED", FALSE, NULL)
        /\ ReconTo(r, [recon[r] EXCEPT !.intents = @ \ {w}])
    /\ UNCHANGED <<trade, broker, stats, exec, env>>

\* Mutant: a position is left to the intent of its instrument, resolved or not.
AdoptOnlyForeign(r) ==
    /\ recon[r].pc = "resolve" /\ recon[r].intents = {}
    /\ \E q \in recon[r].ids :
        /\ trade' = IF \/ RowsOf(q) # {}
                       \/ \E p \in Plans : Matches(q, p) /\ intent[p].status # "none"
                    THEN trade
                    ELSE [trade EXCEPT ![q] = [status |-> "ORPHANED", pos |-> q]]
        /\ ReconTo(r, [recon[r] EXCEPT !.ids = @ \ {q}])
    /\ UNCHANGED <<intent, broker, stats, exec, env>>

\* _adopt_orphans: a position id no row holds becomes an ORPHANED row.
ReconAdopt(r) ==
    /\ recon[r].pc = "resolve" /\ recon[r].intents = {}
    /\ \E q \in recon[r].ids :
        /\ trade' = IF RowsOf(q) # {} THEN trade
                    ELSE [trade EXCEPT ![q] = [status |-> "ORPHANED", pos |-> q]]
        /\ ReconTo(r, [recon[r] EXCEPT !.ids = @ \ {q}])
    /\ UNCHANGED <<intent, broker, stats, exec, env>>

ReconReadTrades(r) ==
    /\ recon[r].pc = "resolve" /\ recon[r].intents = {} /\ recon[r].ids = {}
    /\ ReconTo(r, [recon[r] EXCEPT !.pc = "close", !.ids = OpenTradeIds \ recon[r].snap])
    /\ UNCHANGED <<intent, trade, broker, stats, exec, env>>

\* _close_stale: what the broker's history holds for the id, if anything, is counted;
\* a position that is still open may have a result there too (a partial close).
ReconMarkClosed(r) ==
    /\ recon[r].pc = "close"
    /\ \E q \in recon[r].ids :
        /\ MarkClosed(q)
        /\ \/ /\ RowsOf(q) # {}
              /\ ReconTo(r, [recon[r] EXCEPT !.pc = "count", !.pos = q, !.ids = @ \ {q}])
           \/ ReconTo(r, [recon[r] EXCEPT !.ids = @ \ {q}])
    /\ UNCHANGED <<intent, broker, stats, exec, env>>

ReconRecordClose(r) ==
    /\ recon[r].pc = "count"
    /\ closes' = [closes EXCEPT ![recon[r].pos] = IF @ < 2 THEN @ + 1 ELSE @]
    /\ ReconTo(r, [recon[r] EXCEPT !.pc = "close", !.pos = NULL])
    /\ UNCHANGED <<intent, trade, broker, opens, exec, env>>

\* _repair_protection: only a row written from a plan records a stop to restore
\* (an orphan row copies the broker's, which is the one that is missing).
ReconRepair(r) ==
    /\ recon[r].pc = "close" /\ recon[r].ids = {}
    /\ \E q \in recon[r].bare :
        /\ \/ /\ RowsOf(q) \cap Plans # {} /\ position[q].state = "open"
              /\ position' = [position EXCEPT ![q].stop = TRUE]
           \/ UNCHANGED position
        /\ ReconTo(r, [recon[r] EXCEPT !.bare = @ \ {q}])
    /\ UNCHANGED <<intent, trade, order, stats, exec, env>>

ReconFinish(r) ==
    /\ recon[r].pc = "close" /\ recon[r].ids = {} /\ recon[r].bare = {}
    /\ ReconTo(r, ReconIdle)
    /\ ready' = (ready \/ r = Timer)
    /\ UNCHANGED <<intent, trade, broker, stats, exec, late, faults>>

----------------------------------------------------------------------------
(* Failures.                                                               *)

\* The process dies and is restarted; memory is gone, startup runs again.
Crash ==
    /\ Disturb
    /\ exec' = ExecIdle
    /\ recon' = [r \in Reconcilers |-> ReconIdle]
    /\ ready' = FALSE
    /\ StopWaiting
    /\ UNCHANGED <<intent, trade, broker, stats>>

\* A storage exception leaves execute, or reconcile, where it stands.
ExecRaises ==
    /\ Disturb
    /\ exec.pc # "idle"
    /\ StopWaiting
    /\ exec' = ExecIdle
    /\ UNCHANGED <<intent, trade, broker, stats, recon, ready>>

ReconRaises(r) ==
    /\ Disturb
    /\ recon[r].pc # "idle"
    /\ ReconTo(r, ReconIdle)
    /\ UNCHANGED <<intent, trade, broker, stats, exec, ready, late>>

----------------------------------------------------------------------------

Init ==
    /\ intent = [p \in Plans |-> NoIntent]
    /\ trade = [x \in Rows |-> NoTrade]
    /\ order = [p \in Plans |-> "none"]
    /\ position = [q \in Pos |-> Unused]
    /\ opens = [p \in Plans |-> 0]
    /\ closes = [q \in Pos |-> 0]
    /\ exec = ExecIdle
    /\ recon = [r \in Reconcilers |-> ReconIdle]
    /\ ready = FALSE
    /\ late = {}
    /\ faults = 0

BrokerNext ==
    \/ \E p \in Plans : BrokerAccepts(p) \/ BrokerRefuses(p) \/ BrokerFills(p)
    \/ \E q \in Pos : BrokerCloses(q)
    \/ ManualOpen

ExecStep ==
    \/ ExecRefuse \/ ExecCreateIntent \/ ExecReopen \/ ExecCreatePending
    \/ ExecCheckPositions \/ ExecCheckIntents \/ ExecCheckConditions \/ ExecAbort
    \/ ExecSubmit \/ ExecSend \/ ExecAcknowledged \/ ExecRejected \/ ExecAmbiguous
    \/ ExecVerifyFinds \/ ExecVerifyGivesUp \/ ExecFilled \/ ExecMarkOpen
    \/ ExecRecordOpen \/ ExecProtect

\* The steps a reconcile pass takes once its read succeeded.
ReconStep(r) ==
    \/ ReconReadIntents(r) \/ ReconResolveFilled(r) \/ ReconMarkOpen(r)
    \/ ReconResolveUnseen(r) \/ ReconAdopt(r)
    \/ ReconReadTrades(r) \/ ReconMarkClosed(r) \/ ReconRecordClose(r)
    \/ ReconRepair(r) \/ ReconFinish(r)

Next ==
    \/ BrokerNext
    \/ \E p \in Plans : ExecBegin(p)
    \/ ExecStep
    \/ \E r \in Reconcilers :
        ReconSnapshot(r) \/ ReconUnreadable(r) \/ ReconStep(r) \/ ReconRaises(r)
    \/ Crash
    \/ ExecRaises

Spec == Init /\ [][Next]_vars

\* The broker decides every order; a thread that is running keeps running; the
\* timer's read of the broker succeeds again and again.
Fairness ==
    /\ \A p \in Plans : WF_vars(BrokerAccepts(p) \/ BrokerRefuses(p) \/ BrokerFills(p))
    /\ WF_vars(ExecStep)
    /\ \A r \in Reconcilers : WF_vars(ReconStep(r))
    /\ SF_vars(ReconSnapshot(Timer))

FairSpec == Spec /\ Fairness

----------------------------------------------------------------------------
(* Properties.                                                             *)

ExecPCs == {"idle", "persist", "reopen", "pending", "positions", "intents",
            "conditions", "submit", "send", "await", "verify", "filled", "open",
            "count", "protect", "abort"}

ReconPCs == {"idle", "intents", "resolve", "open", "close", "count"}

IntentRow == [status : INTENT_STATES \cup {"none"}, order : BOOLEAN, pos : Pos \cup {NULL}]

TradeRow == [status : TRADE_STATES \cup {"none"}, pos : Pos \cup {NULL}]

Position == [state : {"none", "open", "closed"}, owner : Plans \cup {NULL},
             symbol : Symbols \cup {NULL}, direction : Directions \cup {NULL},
             stop : BOOLEAN]

ExecThread == [pc : ExecPCs, plan : Plans \cup {NULL}, found : Pos \cup {NULL},
               bare : BOOLEAN]

\* A row of a pass's copy of the unresolved intents: the plan, an order id or none.
IntentWork == Plans \X BOOLEAN

ReconThread == [pc : ReconPCs, snap : SUBSET Pos, bare : SUBSET Pos,
                intents : SUBSET IntentWork, ids : SUBSET Pos,
                plan : Plans \cup {NULL}, pos : Pos \cup {NULL}]

TypeTables == intent \in [Plans -> IntentRow] /\ trade \in [Rows -> TradeRow]

TypeBroker == order \in [Plans -> OrderStates] /\ position \in [Pos -> Position]

TypeStats == opens \in [Plans -> Nat] /\ closes \in [Pos -> 0..2]

TypeExec ==
    /\ exec \in ExecThread
    /\ exec.pc # "idle" => exec.plan \in Plans
    /\ exec.pc \in {"filled", "open", "count", "protect"} => exec.found \in Pos

TypeRecon ==
    /\ recon \in [Reconcilers -> ReconThread]
    /\ \A r \in Reconcilers :
        /\ recon[r].pc = "open" => recon[r].plan \in Plans
        /\ recon[r].pc \in {"open", "count"} => recon[r].pos \in Pos

TypeEnv == ready \in BOOLEAN /\ late \subseteq Plans /\ faults \in 0..MaxFaults

\* Every row, order, position and thread is in a state its code can write, and a
\* thread that is about to use a plan or a position id holds one.
TypeOK == TypeTables /\ TypeBroker /\ TypeStats /\ TypeExec /\ TypeRecon /\ TypeEnv

\* An order that is at the broker, was, or may still get there.
Sent(p) == order[p] \notin {"none", "rejected"}

Owns(p, q) == position[q].state # "none" /\ position[q].owner = p

\* The orders of a setup: those on their way and the positions they became.
OrdersOf(s) ==
    {p \in Plans : SetupOf[p] = s /\ InFlight(p)}
      \cup {q \in Pos : \E p \in Plans : SetupOf[p] = s /\ Owns(p, q)}

\* The invariant docs/EXECUTION_ENGINE.md opens with: no network failure, crash
\* or concurrent pass makes two orders of one setup, whichever execution ids
\* (scan minutes) the setup was derived under.
OneOrderPerSetup ==
    \A s \in Setups : \A x, y \in OrdersOf(s) : x = y

\* An ABORTED trade row is an order that never reached the broker
\* (TRADE_STATES' comment): it is what frees the setup for another attempt.
AbortedMeansNoOrder ==
    \A p \in Plans : trade[p].status = "ABORTED" => ~Sent(p)

\* Half of RETRYABLE's claim: a FAILED intent proves no order exists, so reopen
\* may arm it again; no stale write of a reconcile pass may turn a sent one FAILED.
FailedMeansNoOrder ==
    \A p \in Plans : intent[p].status = "FAILED" => ~Sent(p)

OwnOpen(q) == position[q].state = "open" /\ position[q].owner # NULL

\* The live duplicate check, and an intent that blocks its instrument, keep the bot
\* to one position per instrument: a second one comes only from an order the broker
\* filled after execute had stopped waiting for it (EXECUTION_ENGINE.md, step 4).
SecondOnlyByLateFill ==
    \A q1, q2 \in Pos :
        /\ q1 # q2 /\ OwnOpen(q1) /\ OwnOpen(q2)
        /\ position[q1].symbol = position[q2].symbol
        => {position[q1].owner, position[q2].owner} \cap late # {}

\* repositories.py:153 "ABANDONED is set only by reconciliation after it has asked
\* the broker and established that nothing happened."
AbandonedMeansNothing ==
    \A p \in Plans :
        intent[p].status = "ABANDONED" => order[p] \notin {"flying", "accepted", "landed"}

\* Orchestrator.startup: "a failed reconcile means no new orders rather than trading
\* on top of an unknown position": startup completes with a pass that read the broker.
StartupReconciles ==
    [][ready' /\ ~ready => recon[Timer].pc # "idle"]_vars

\* An unresolved intent blocks its instrument; the passes settle every one.
UnresolvedSettles ==
    \A p \in Plans :
        intent[p].status \in Unresolved ~> intent[p].status \notin Unresolved

\* A position the bot's order opened gets a row that holds its id, or is closed,
\* whatever crashed between the fill and the row.
EveryFillIsBooked ==
    \A q \in Pos :
        (position[q].state = "open" /\ position[q].owner # NULL)
            ~> (RowsOf(q) # {} \/ position[q].state = "closed")

\* reconciler.py: "TradeLocker is authoritative for what positions exist".  A row
\* is CLOSED only when its position is closed at the broker.
ClosedMeansClosed ==
    \A x \in Rows : trade[x].status = "CLOSED" => position[trade[x].pos].state = "closed"


=============================================================================
