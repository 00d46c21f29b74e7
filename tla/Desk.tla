------------------------------- MODULE Desk -------------------------------
(***************************************************************************)
(* One position and everything that touches it: bot/broker/paper.py, which *)
(* simulates the broker and settles stops and targets whenever somebody    *)
(* reads the positions; bot/execution/manager.py, which moves the stop,    *)
(* takes the partial and closes; the executor and the reconciler, which    *)
(* attach a stop the broker did not; and the tables behind them.           *)
(*                                                                         *)
(* Threads share the tables and no lock: every transaction is a step.  In  *)
(* live mode the broker keeps the position itself, with or without the     *)
(* stop of the order, settles it itself, and a write may end without an    *)
(* answer; the manager is the same code.                                   *)
(* Prices are integers in a unit small enough for the levels computed from *)
(* the planned risk; the buffer of a smaller one is rounded down.  The     *)
(* read model for the page, excursions and events are left out.            *)
(***************************************************************************)
EXTENDS Integers, Sequences, FiniteSets

CONSTANTS
    Modes,        \* the values of TradingConfig.mode considered
    Bids,         \* the bid prices the market visits
    Spread,       \* ask - bid when the executor's spread check lets an order by
    WideSpread,   \* a spread at which an exit is not affordable
    EntrySlip,    \* PaperConfig.entry_slippage_ticks
    Plan,         \* per direction: the [bid, stop, target] of the order
                  \* (placed at that bid: the executor refuses a market that moved)
    Lots,         \* order sizes, in steps of the smallest lot
    BreakevenR, PartialR, TrailR,   \* ExecutionConfig levels in quarters of R
    Poller,       \* the thread of manage_positions
    Readers,      \* other threads that read the positions (scan, reconcile)
    NULL,
    MaxFaults     \* bound on crashes and on exceptions no handler names

ASSUME ThreadAssumption == Poller \notin Readers /\ Readers # {}

ASSUME ModeAssumption == Modes \subseteq {"paper", "live"}

ASSUME NullAssumption == NULL \notin Int

ASSUME PriceAssumption ==
    /\ Bids \subseteq Nat \ {0}
    /\ Spread \in Nat /\ WideSpread \in Nat /\ EntrySlip \in Nat
    /\ \A d \in {"BUY", "SELL"} : Plan[d].stop \in Nat \ {0} /\ Plan[d].target \in Nat \ {0}
    /\ Lots \subseteq Nat \ {0}

ASSUME LevelAssumption ==
    BreakevenR \in Nat \ {0} /\ PartialR \in Nat \ {0} /\ TrailR \in Nat \ {0} /\ MaxFaults \in Nat

VARIABLES
    mode,      \* "paper" or "live"
    bid,       \* the market
    row,       \* paper_positions, or the broker's position in live mode
    range,     \* high and low of the M15 candles stamped after the opening
    account,   \* paper_account: the lots whose result realized_pnl contains, and
               \* the half-turn commissions paid
    trade,     \* the trades row: its stop, partial_taken, and whether it
               \* carries the position id yet
    th,        \* each thread
    faults,
    due,       \* history: what the account should hold, by the rows
    touched,   \* history: the market has been at the stop in force, at the target
    slices,    \* history: partial closes sent for a trade with a row
    bare,      \* history: partial closes sent for a position without one
    stale      \* history: a close acted on a row another thread had changed

tables == <<row, account, trade>>
history == <<due, touched, slices, bare, stale>>
vars == <<mode, bid, row, range, account, trade, th, faults, history>>

Threads == Readers \cup {Poller}

----------------------------------------------------------------------------
(* Prices.                                                                 *)

\* How far b is from a in the direction of the position: every comparison of
\* the code for SELL mirrors the one for BUY.
Gain(d, a, b) == IF d = "BUY" THEN b - a ELSE a - b

Away(d, a, x) == IF d = "BUY" THEN a + x ELSE a - x

\* The side a position is marked and closed at.
Exit(d, b) == IF d = "BUY" THEN b ELSE b + Spread

Extend(r, b) ==
    IF r = NULL THEN NULL
    ELSE [high |-> IF b > r.high THEN b ELSE r.high, low |-> IF b < r.low THEN b ELSE r.low]

At(b) == [high |-> b, low |-> b]

Untouched == [stop |-> FALSE, target |-> FALSE]

\* The live broker may open a position and not attach its stop.
HasStop(s) == s.stop # NULL

\* History: what the market has reached, the stop since it is in force.  The
\* target of a SELL is reached by the bid that the candles are made of, a spread
\* before the ask at which the position is closed.
Touch(s, b, old) ==
    [stop |-> old.stop \/ (HasStop(s) /\ Gain(s.dir, s.stop, Exit(s.dir, b)) <= 0),
     target |-> old.target \/ Gain(s.dir, s.target, b) >= 0]

----------------------------------------------------------------------------
(* PaperBroker.                                                            *)

NoRow == [status |-> "none", dir |-> "BUY", qty |-> 0, entry |-> 0,
          stop |-> 0, target |-> 0, why |-> NULL]

NoTrade == [linked |-> FALSE, stop |-> 0, partial |-> FALSE]

Idle == [pc |-> "idle", pass |-> 1, snap |-> NULL, why |-> NULL,
         size |-> 0, seen |-> NULL, queue |-> <<>>]

NoMoney == [lots |-> 0, fees |-> 0]

To(t, pc) == th' = [th EXCEPT ![t].pc = pc]

Done(t) == th' = [th EXCEPT ![t] = Idle]

\* The stop is reached by the mark or by a candle.
HitStop(s, mark, r) ==
    /\ HasStop(s)
    /\ \/ Gain(s.dir, s.stop, mark) <= 0
       \/ r # NULL /\ Gain(s.dir, s.stop, IF s.dir = "BUY" THEN r.low ELSE r.high) <= 0

HitTarget(s, mark, r) ==
    \/ Gain(s.dir, s.target, mark) >= 0
    \/ r # NULL /\ Gain(s.dir, s.target, IF s.dir = "BUY" THEN r.high ELSE r.low) >= 0

\* _settle_protection's verdict: both touched resolves as the stop.  The stop
\* fills worse by its slippage, the target exactly; amounts are left out.
Settlement(s, mark, r) ==
    CASE HitStop(s, mark, r) /\ HitTarget(s, mark, r)  -> "SAME_WINDOW"
      [] HitStop(s, mark, r) /\ ~HitTarget(s, mark, r) -> "STOP"
      [] ~HitStop(s, mark, r) /\ HitTarget(s, mark, r) -> "TARGET"
      [] OTHER -> NULL

\* What _range_since knows: the candles since the opening, or nothing (the request
\* failed, or the cached answer is from before the first of them).
Evidence == {NULL, range}

\* positions(): the open rows, read before anything is priced.
ReadRows(t) ==
    /\ mode = "paper"
    /\ th[t].pc = "idle" \/ (t = Poller /\ th[t].pc = "account")
    /\ row.status = "OPEN"
    /\ th' = [th EXCEPT ![t].pc = "price", ![t].snap = row]
    /\ UNCHANGED <<mode, bid, range, tables, faults, history>>

\* manage_positions after account_state found nothing open: its actions were
\* planned from the first read all the same.
ReadNoRows(t) ==
    /\ mode = "paper"
    /\ t = Poller /\ th[t].pc = "account"
    /\ row.status # "OPEN"
    /\ To(t, "plan")
    /\ UNCHANGED <<mode, bid, range, tables, faults, history>>

\* After a row that stays open: a reader is done, the poller tracks the row as
\* it now is (first read) or goes on to its plan (account_state's read).
Kept(t) ==
    th' = [th EXCEPT ![t] =
        IF t # Poller THEN Idle
        ELSE IF @.pass = 1 THEN [@ EXCEPT !.pc = "track", !.pass = 2, !.snap = row]
        ELSE [@ EXCEPT !.pc = "plan", !.snap = NULL]]

\* Mutant: a row whose price cannot be read is closed at its last mark.
UnpricedCloses(t) ==
    /\ th[t].pc = "price"
    /\ th' = [th EXCEPT ![t].pc = "close", ![t].why = "STOP", ![t].size = th[t].snap.qty]
    /\ UNCHANGED <<mode, bid, range, tables, faults, history>>

\* No quote: the position is left open.
Unpriced(t) ==
    /\ th[t].pc = "price"
    /\ Kept(t)
    /\ UNCHANGED <<mode, bid, range, tables, faults, history>>

\* A quote, the candles, the verdict.  The levels are those of the row as read.
Priced(t) ==
    /\ th[t].pc = "price"
    /\ \E r \in Evidence :
        LET s == th[t].snap
            verdict == Settlement(s, Exit(s.dir, bid), r)
        IN IF verdict = NULL THEN Kept(t)
           ELSE th' = [th EXCEPT ![t].pc = "close", ![t].why = verdict, ![t].size = s.qty]
    /\ UNCHANGED <<mode, bid, range, tables, faults, history>>

\* Mutant: a partial close writes the whole row back, as it was read.
CloseRowWritesBack(t) ==
    /\ th[t].pc = "close"
    /\ LET s == th[t].snap
           left == s.qty - th[t].size
           gone == IF row.status # "OPEN" THEN 0 ELSE row.qty - left
       IN /\ row' = IF left > 0 THEN [s EXCEPT !.qty = left]
                    ELSE [row EXCEPT !.status = "CLOSED", !.why = th[t].why]
          /\ due' = [due EXCEPT !.lots = @ + gone, !.fees = @ + gone]
          /\ stale' = (stale \/ row.status # "OPEN" \/ row.qty # s.qty)
    /\ To(t, "book")
    /\ UNCHANGED <<mode, bid, range, account, trade, faults, touched, slices, bare>>

\* _close, first transaction: what is left of the row AS READ.  A row closed
\* meanwhile is written again.
CloseRow(t) ==
    /\ th[t].pc = "close"
    /\ LET s == th[t].snap
           left == s.qty - th[t].size
           gone == IF row.status # "OPEN" THEN 0 ELSE row.qty - left
       IN /\ row' = IF left > 0 THEN [row EXCEPT !.qty = left]
                    ELSE [row EXCEPT !.status = "CLOSED", !.why = th[t].why]
          /\ due' = [due EXCEPT !.lots = @ + gone, !.fees = @ + gone]
          /\ stale' = (stale \/ row.status # "OPEN" \/ row.qty # s.qty)
    /\ To(t, "book")
    /\ UNCHANGED <<mode, bid, range, account, trade, faults, touched, slices, bare>>

\* Mutant: the whole row's result is booked when a part of it was closed.
BookWhole(t) ==
    /\ th[t].pc = "book"
    /\ account' = [lots |-> account.lots + th[t].snap.qty, fees |-> account.fees + th[t].snap.qty]
    /\ th' = [th EXCEPT ![t] =
                IF @.queue # <<>> THEN [@ EXCEPT !.pc = "closed", !.snap = NULL]
                ELSE IF t = Poller /\ @.pass = 2 THEN [@ EXCEPT !.pc = "plan", !.snap = NULL]
                ELSE Idle]
    /\ UNCHANGED <<mode, bid, row, range, trade, faults, history>>

\* _close, second transaction (apply_realized).  A settled row ends a read: the
\* poller has nothing to plan for it on its first read, and goes on on its second.
Book(t) ==
    /\ th[t].pc = "book"
    /\ account' = [lots |-> account.lots + th[t].size, fees |-> account.fees + th[t].size]
    /\ th' = [th EXCEPT ![t] =
                IF @.queue # <<>> THEN [@ EXCEPT !.pc = "closed", !.snap = NULL]
                ELSE IF t = Poller /\ @.pass = 2 THEN [@ EXCEPT !.pc = "plan", !.snap = NULL]
                ELSE Idle]
    /\ UNCHANGED <<mode, bid, row, range, trade, faults, history>>

\* place_market_order: refused unless the fill lands between the levels; the
\* row, then the entry half of the commission.  Live, the stop is attached or not.
PlaceOrder(t) ==
    /\ t # Poller
    /\ th[t].pc = "idle"
    /\ row.status = "none"
    /\ \E d \in {"BUY", "SELL"}, q \in Lots, attached \in BOOLEAN :
        LET fill == IF d = "BUY" THEN bid + Spread + EntrySlip ELSE bid - EntrySlip
        IN /\ bid = Plan[d].bid /\ (attached \/ mode = "live")
           /\ Gain(d, Plan[d].stop, fill) > 0 /\ Gain(d, fill, Plan[d].target) > 0
           /\ row' = [status |-> "OPEN", dir |-> d, qty |-> q,
                      entry |-> fill, stop |-> IF attached THEN Plan[d].stop ELSE NULL,
                      target |-> Plan[d].target, why |-> NULL]
           /\ th' = [th EXCEPT ![t].pc = IF mode = "paper" THEN "fee" ELSE "fill",
                               ![t].snap = row', ![t].size = q]
           /\ due' = [due EXCEPT !.fees = IF mode = "paper" THEN @ + q ELSE @]
    /\ range' = NULL
    /\ trade' = NoTrade
    /\ touched' = Touch(row', bid, Untouched) /\ slices' = 0 /\ bare' = 0
    /\ UNCHANGED <<mode, bid, account, faults, stale>>

EntryFee(t) ==
    /\ th[t].pc = "fee"
    /\ account' = [account EXCEPT !.fees = @ + th[t].size]
    /\ To(t, "fill")
    /\ UNCHANGED <<mode, bid, row, range, trade, faults, history>>

\* The executor's mark_open: the trades row, written before the order with the
\* plan's stop, gets its position id.  A position that is gone is never linked.
MarkOpen(t) ==
    /\ th[t].pc = "fill"
    /\ \/ /\ row.status = "OPEN"
          /\ trade' = [trade EXCEPT !.linked = TRUE, !.stop = Plan[row.dir].stop]
          /\ To(t, "verify")
       \/ row.status # "OPEN" /\ Done(t) /\ UNCHANGED trade
    /\ UNCHANGED <<mode, bid, row, range, account, faults, history>>

\* _verify_protection of the position as the executor saw it: its stop is recorded.
VerifyStop(t) ==
    /\ th[t].pc = "verify" /\ HasStop(th[t].snap)
    /\ trade' = [trade EXCEPT !.stop = th[t].snap.stop]
    /\ Done(t)
    /\ UNCHANGED <<mode, bid, row, range, account, faults, history>>

\* A write of stop s at the live broker, carried out.
StopWritten(s) ==
    /\ row.status = "OPEN"
    /\ row' = [row EXCEPT !.stop = s]

\* History: a stop that has just been written has not been reached before.
Retouched == touched' = Touch(row', bid, [touched EXCEPT !.stop = @ /\ row'.stop = row.stop])

\* Without one the plan's is attached and read back; a write that fails, or whose
\* answer is lost, is reported and left to the reconciler.
VerifyAttach(t) ==
    /\ th[t].pc = "verify" /\ ~HasStop(th[t].snap)
    /\ \/ StopWritten(Plan[row.dir].stop) /\ (To(t, "attached") \/ Done(t))
       \/ UNCHANGED row /\ Done(t)
    /\ Retouched
    /\ UNCHANGED <<mode, bid, range, account, trade, faults, due, slices, bare, stale>>

VerifyRecord(t) ==
    /\ th[t].pc = "attached"
    /\ trade' = [trade EXCEPT !.stop = Plan[row.dir].stop]
    /\ Done(t)
    /\ UNCHANGED <<mode, bid, row, range, account, faults, history>>

\* The reconciler links what a crash left behind: the plan's row, or a row
\* adopted with the stop the position has now.
Adopt(t) ==
    /\ t # Poller
    /\ th[t].pc = "idle"
    /\ row.status = "OPEN" /\ ~trade.linked
    /\ \A u \in Readers : th[u].pc \notin {"fee", "fill"}
    /\ \E s \in {Plan[row.dir].stop, row.stop} :
        trade' = [trade EXCEPT !.linked = TRUE, !.stop = s]
    /\ UNCHANGED <<mode, bid, row, range, account, th, faults, history>>

\* _repair_protection: the position was read at the start of the pass, without a
\* stop ...
RepairRead(t) ==
    /\ mode = "live" /\ t # Poller
    /\ th[t].pc = "idle"
    /\ row.status = "OPEN" /\ ~HasStop(row)
    /\ th' = [th EXCEPT ![t].pc = "repair", ![t].snap = row]
    /\ UNCHANGED <<mode, bid, range, tables, faults, history>>

\* ... the row it is restored from is read later; without one the pass only reports.
RepairPlan(t) ==
    /\ th[t].pc = "repair"
    /\ IF trade.linked /\ trade.stop # NULL
       THEN th' = [th EXCEPT ![t].pc = "restore", ![t].snap = [@ EXCEPT !.stop = trade.stop]]
       ELSE Done(t)
    /\ UNCHANGED <<mode, bid, range, tables, faults, history>>

\* The write, over whatever stop the position has by now.
RepairWrite(t) ==
    /\ th[t].pc = "restore"
    /\ StopWritten(th[t].snap.stop) \/ UNCHANGED row
    /\ Done(t)
    /\ Retouched
    /\ UNCHANGED <<mode, bid, range, account, trade, faults, due, slices, bare, stale>>

----------------------------------------------------------------------------
(* PositionManager.                                                        *)

\* The stop is still on the protective side of the price, with 2% of the risk
\* to spare.
StopIsBehindMarket(d, s, price, risk) == 50 * Gain(d, s, price) > risk

\* r_multiple >= q quarters; without risk the code calls it 0 R.
ReachedR(move, risk, q) == IF risk = 0 THEN q <= 0 ELSE 4 * move >= q * risk

\* 50% of the position, rounded to the smallest lot the way round() rounds the
\* doubles of the one and two lots of the model.
HalfOf(q) == (q + 1) \div 2

\* Does a trailing stop s improve on the position's?
Improves(p, s) == HasStop(p) => Gain(p.dir, p.stop, s) > 0

\* plan_actions: p is the position as read (with the price it was tracked at), tr
\* the trades row.  The risk is measured from the stop recorded in the row; without
\* any stop nothing is planned.
PlanActions(p, tr, invalidated, aged) ==
    LET stop == IF tr.linked /\ tr.stop # NULL THEN tr.stop ELSE p.stop
        risk == IF stop > p.entry THEN stop - p.entry ELSE p.entry - stop
        move == Gain(p.dir, p.entry, p.price)
        safe == HasStop(p) /\ Gain(p.dir, p.entry, p.stop) >= 0
        even == Away(p.dir, p.entry, risk \div 20)
        trail == Away(p.dir, p.entry, move - risk)
        MoveStop(s) == [kind |-> "MOVE_STOP", stop |-> s, qty |-> 0]
        If(c, a) == IF c THEN <<a>> ELSE <<>>
    IN IF stop = NULL THEN <<>>
       ELSE If(/\ ReachedR(move, risk, BreakevenR) /\ ~safe
               /\ StopIsBehindMarket(p.dir, even, p.price, risk), MoveStop(even))
       \o If(ReachedR(move, risk, PartialR) /\ ~(tr.linked /\ tr.partial),
             [kind |-> "PARTIAL_CLOSE", stop |-> NULL, qty |-> HalfOf(p.qty)])
       \o If(/\ ReachedR(move, risk, TrailR) /\ Improves(p, trail)
             /\ StopIsBehindMarket(p.dir, trail, p.price, risk), MoveStop(trail))
       \o If(invalidated /\ ~ReachedR(move, risk, 4), [kind |-> "CLOSE", stop |-> NULL, qty |-> 0])
       \o If(aged /\ ~ReachedR(move, risk, 2), [kind |-> "CLOSE", stop |-> NULL, qty |-> 0])

\* In live mode the position is read in one call.
LiveRead ==
    /\ mode = "live"
    /\ th[Poller].pc = "idle"
    /\ row.status = "OPEN"
    /\ th' = [th EXCEPT ![Poller].pc = "track", ![Poller].snap = row]
    /\ UNCHANGED <<mode, bid, range, tables, faults, history>>

\* track: the price of the position; without one it is not planned for.
\* account_state follows, which in paper mode reads and settles once more.
Track ==
    /\ th[Poller].pc = "track"
    /\ \/ LET s == th[Poller].snap IN
          th' = [th EXCEPT ![Poller].pc = IF mode = "paper" THEN "account" ELSE "plan",
                    ![Poller].snap = NULL,
                    ![Poller].seen = [dir |-> s.dir, qty |-> s.qty, entry |-> s.entry,
                                      stop |-> s.stop, price |-> Exit(s.dir, bid)]]
       \/ Done(Poller)
    /\ UNCHANGED <<mode, bid, range, tables, faults, history>>

\* manage_positions: the trades row is read now, the position was read before.
\* _structure_invalidated compares the price with the stop in that row.
Decide ==
    /\ th[Poller].pc = "plan"
    /\ LET p == th[Poller].seen
           invalidated == /\ trade.linked /\ trade.stop # NULL
                          /\ Gain(p.dir, trade.stop, p.price) < 0
       IN \E aged \in BOOLEAN :
            LET acts == PlanActions(p, trade, invalidated, aged)
            IN IF acts = <<>> THEN Done(Poller)
               ELSE th' = [th EXCEPT ![Poller].pc = "apply", ![Poller].queue = acts]
    /\ UNCHANGED <<mode, bid, range, tables, faults, history>>

Action == Head(th[Poller].queue)

\* Mutant: the last action does not end the poll.
NextActionAlways ==
    th' = [th EXCEPT ![Poller].pc = "apply", ![Poller].queue = Tail(@), ![Poller].snap = NULL]

\* On to the next action of the plan.
NextAction ==
    th' = [th EXCEPT ![Poller] =
        IF Len(@.queue) = 1 THEN Idle
        ELSE [@ EXCEPT !.pc = "apply", !.queue = Tail(th[Poller].queue), !.snap = NULL]]

\* A refusal of the broker, a quote that cannot be read or an exit that is not
\* affordable: the action is dropped, the others go on.
ActionFails ==
    /\ th[Poller].pc = "apply"
    /\ NextAction
    /\ UNCHANGED <<mode, bid, range, tables, faults, history>>

Sliced ==
    /\ slices' = IF Action.kind = "PARTIAL_CLOSE" /\ trade.linked /\ slices < 3
                 THEN slices + 1 ELSE slices
    /\ bare' = IF Action.kind = "PARTIAL_CLOSE" /\ ~trade.linked /\ bare < 2
               THEN bare + 1 ELSE bare

IsOpenNow == row.status = "OPEN"

\* PaperBroker.modify_position reads the row and the quote ...
ModifyCheck ==
    /\ mode = "paper"
    /\ th[Poller].pc = "apply" /\ Action.kind = "MOVE_STOP"
    /\ IsOpenNow
    /\ Gain(row.dir, Action.stop, Exit(row.dir, bid)) > 0
    /\ To(Poller, "modify")
    /\ UNCHANGED <<mode, bid, range, tables, faults, history>>

\* ... and then writes, whatever the row has become.
ModifyWrite ==
    /\ th[Poller].pc = "modify"
    /\ row' = [row EXCEPT !.stop = Action.stop]
    /\ Retouched
    /\ To(Poller, "record")
    /\ UNCHANGED <<mode, bid, range, account, trade, faults, due, slices, bare, stale>>

\* TradeRepository.update_protection: the row's stop is the moved one from now on.
RecordStop ==
    /\ th[Poller].pc = "record"
    /\ trade' = IF trade.linked THEN [trade EXCEPT !.stop = Action.stop] ELSE trade
    /\ NextAction
    /\ UNCHANGED <<mode, bid, row, range, account, faults, history>>

\* _exit_is_affordable for a CLOSE; a partial is not asked.
Affordable(spread) ==
    LET risk == Gain(row.dir, trade.stop, row.entry)
    IN \/ Action.kind = "PARTIAL_CLOSE" \/ ~trade.linked \/ trade.stop = NULL \/ risk = 0
       \/ 2 * spread <= (IF risk < 0 THEN -risk ELSE risk)

\* PaperBroker.close_position: a part when it is less than the row has, else all.
CloseCheck ==
    /\ mode = "paper"
    /\ th[Poller].pc = "apply" /\ Action.kind \in {"PARTIAL_CLOSE", "CLOSE"}
    /\ \E spread \in {Spread, WideSpread} : Affordable(spread)
    /\ IsOpenNow
    /\ LET part == Action.qty > 0 /\ Action.qty < row.qty
       IN th' = [th EXCEPT ![Poller].pc = "close", ![Poller].snap = row,
                           ![Poller].why = IF part THEN "PARTIAL" ELSE "MANUAL",
                           ![Poller].size = IF part THEN Action.qty ELSE row.qty]
    /\ Sliced
    /\ UNCHANGED <<mode, bid, range, tables, faults, due, touched, stale>>

\* Mutant: a partial whose outcome is unknown is not recorded as taken.
FlagOnlyKnown ==
    /\ th[Poller].pc = "closed"
    /\ trade' = IF Action.kind = "PARTIAL_CLOSE" /\ mode = "paper"
                   /\ trade.linked
                THEN [trade EXCEPT !.partial = TRUE] ELSE trade
    /\ NextAction
    /\ UNCHANGED <<mode, bid, row, range, account, faults, history>>

\* mark_partial_taken, after a partial that went through or may have.
Flag ==
    /\ th[Poller].pc = "closed"
    /\ trade' = IF Action.kind = "PARTIAL_CLOSE" /\ trade.linked
                THEN [trade EXCEPT !.partial = TRUE] ELSE trade
    /\ NextAction
    /\ UNCHANGED <<mode, bid, row, range, account, faults, history>>

\* A live write: carried out and answered, or without an answer (it may or may not
\* have been carried out).  An unanswered stop move is not recorded.  A write that
\* ends in an exception apply does not name is this step and then Raises.
LiveModify ==
    /\ mode = "live"
    /\ th[Poller].pc = "apply" /\ Action.kind = "MOVE_STOP"
    /\ \/ StopWritten(Action.stop) /\ (To(Poller, "record") \/ NextAction)
       \/ NextAction /\ UNCHANGED row
    /\ Retouched
    /\ UNCHANGED <<mode, bid, range, account, trade, faults, due, slices, bare, stale>>

LiveClose ==
    /\ mode = "live"
    /\ th[Poller].pc = "apply" /\ Action.kind \in {"PARTIAL_CLOSE", "CLOSE"}
    /\ \E spread \in {Spread, WideSpread} : Affordable(spread)
    /\ \/ /\ IsOpenNow
          /\ row' = IF Action.qty > 0 /\ Action.qty < row.qty
                    THEN [row EXCEPT !.qty = @ - Action.qty]
                    ELSE [row EXCEPT !.status = "CLOSED", !.why = "MANUAL"]
       \/ UNCHANGED row
    /\ Sliced
    /\ To(Poller, "closed")
    /\ UNCHANGED <<mode, bid, range, account, trade, faults, due, touched, stale>>

----------------------------------------------------------------------------
(* The market, the broker, the process.                                    *)

PriceMoves ==
    /\ row.status = "OPEN"
    /\ bid' \in Bids \ {bid}
    /\ range' = Extend(range, bid')
    /\ touched' = Touch(row, bid', touched)
    /\ UNCHANGED <<mode, tables, th, faults, due, slices, bare, stale>>

\* A candle opens; the first one after the opening starts the evidence.
CandleOpens ==
    /\ row.status = "OPEN" /\ range = NULL
    /\ range' = At(bid)
    /\ UNCHANGED <<mode, bid, tables, th, faults, history>>

\* The live broker settles by itself.
BrokerSettles ==
    /\ mode = "live" /\ row.status = "OPEN"
    /\ LET verdict == Settlement(row, Exit(row.dir, bid), NULL)
       IN /\ verdict # NULL
          /\ row' = [row EXCEPT !.status = "CLOSED", !.why = verdict]
    /\ UNCHANGED <<mode, bid, range, account, trade, th, faults, history>>

Crash ==
    /\ faults < MaxFaults
    /\ \E t \in Threads : th[t].pc # "idle"
    /\ th' = [t \in Threads |-> Idle]
    /\ faults' = faults + 1
    /\ UNCHANGED <<mode, bid, range, tables, history>>

\* An exception no handler names (the driver of the database, a body that does not
\* parse) ends what thread t was doing, after any of its steps: the jobs and the
\* handlers of the service log it, and the process goes on.
Raises(t) ==
    /\ faults < MaxFaults
    /\ th[t].pc # "idle"
    /\ Done(t)
    /\ faults' = faults + 1
    /\ UNCHANGED <<mode, bid, range, tables, history>>

Init ==
    /\ mode \in Modes
    /\ bid \in Bids
    /\ row = NoRow
    /\ range = NULL
    /\ account = NoMoney
    /\ trade = NoTrade
    /\ th = [t \in Threads |-> Idle]
    /\ faults = 0
    /\ due = NoMoney
    /\ touched = Untouched
    /\ slices = 0 /\ bare = 0
    /\ stale = FALSE

ReadStep(t) == ReadRows(t) \/ ReadNoRows(t) \/ Unpriced(t) \/ Priced(t) \/ CloseRow(t) \/ Book(t)

OrderStep(t) ==
    \/ PlaceOrder(t) \/ EntryFee(t) \/ MarkOpen(t)
    \/ VerifyStop(t) \/ VerifyAttach(t) \/ VerifyRecord(t)

ReconcileStep(t) == Adopt(t) \/ RepairRead(t) \/ RepairPlan(t) \/ RepairWrite(t)

ManageStep ==
    \/ LiveRead \/ Track \/ Decide \/ ActionFails
    \/ ModifyCheck \/ ModifyWrite \/ RecordStop \/ CloseCheck \/ Flag
    \/ LiveModify \/ LiveClose

MarketStep == PriceMoves \/ CandleOpens \/ BrokerSettles

Next ==
    \/ \E t \in Threads : ReadStep(t) \/ OrderStep(t) \/ ReconcileStep(t) \/ Raises(t)
    \/ ManageStep
    \/ MarketStep
    \/ Crash

Spec == Init /\ [][Next]_vars

----------------------------------------------------------------------------
(* Properties.                                                             *)

Rows == [status : {"none", "OPEN", "CLOSED"}, dir : {"BUY", "SELL"},
         qty : Nat, entry : Int, stop : Int \cup {NULL}, target : Int,
         why : {NULL, "STOP", "TARGET", "SAME_WINDOW", "MANUAL"}]

Labels == {"idle", "price", "close", "book", "fee", "fill", "verify", "attached", "repair",
           "restore", "account", "track", "plan", "apply", "modify", "record", "closed"}

\* Types of the tables and of the threads (PaperRepository, TradeRepository).
TypeOK ==
    /\ mode \in {"paper", "live"} /\ bid \in Bids
    /\ row \in Rows
    /\ trade.linked \in BOOLEAN /\ trade.partial \in BOOLEAN
    /\ \A t \in Threads : th[t].pc \in Labels /\ (th[t].pc = "apply" => th[t].queue # <<>>)
    /\ account \in [lots : Nat, fees : Nat]
    /\ slices \in 0..3 /\ bare \in 0..2 /\ faults \in 0..MaxFaults

\* A level seen from the position: larger is safer.
Safety(d, s) == IF s = NULL THEN NULL ELSE Gain(d, 0, s)

\* The position as the rest of the bot may think of it: opened once, its stop never
\* taken away and never worse than the one it was sized with, its size only
\* shrinking, closed for good (PositionLife), over both brokers, three writers of
\* the stop, stale reads, unknown outcomes, exceptions and crashes.
Life == INSTANCE PositionLife WITH
            Level <- Int, Size <- Nat, None <- NULL,
            status <- row.status, stop <- Safety(row.dir, row.stop),
            planned <- Safety(row.dir, Plan[row.dir].stop), size <- row.qty

KeepsLife == Life!Spec

\* A partial is sent once for a trade that has its row, also when its outcome is
\* unknown; only a crash or an exception between the send and mark_partial_taken
\* repeats it.
PartialOnce == slices <= 1 + faults

\* "Position management cannot repeat itself": violated with no fault, by a
\* position that is polled before its row carries the position id.
PartialNeverRepeats == slices + bare <= 1

AtBreakeven == row.status = "OPEN" /\ HasStop(row) /\ Gain(row.dir, row.entry, row.stop) >= 0

\* "break-even, trailing and the structural exit are all guarded by live broker
\* state": a stop brought to break-even stays there, so that break-even is not
\* planned again.  Violated when trailing begins below 1.05 R: its guard compares
\* with the stop as read before the break-even of the same plan.
BreakevenStays == [][AtBreakeven /\ row'.status = "OPEN" => AtBreakeven']_vars

Settling == \E t \in Threads : th[t].pc \in {"book", "fee"}

LedgerAgrees == account = due

\* The paper ledger matches what the rows say was closed, as long as no close acted
\* on a row another thread had changed and nothing died between the two writes.
LedgerExact == mode = "paper" /\ ~stale /\ faults = 0 /\ ~Settling => LedgerAgrees

\* Thread t, holding the row as it is, decides that it is settled.
Settles(t) == th[t].pc = "price" /\ th'[t].pc = "close" /\ th[t].snap = row

\* Settlement invents no trigger (_range_since): a row that still has the stop it was
\* placed with is settled by a price that reached that stop, or the target, since the
\* opening.  The candles begin after the opening, and no candle at all is never taken
\* for a touch.  (A stop the manager has moved may be settled by an earlier candle.)
NoInventedTrigger ==
    [][\A t \in Threads : Settles(t) /\ row.stop = Plan[row.dir].stop =>
            /\ th'[t].why \in {"STOP", "SAME_WINDOW"} => touched.stop
            /\ th'[t].why \in {"TARGET", "SAME_WINDOW"} => touched.target]_vars

\* "Close the position if its stop or target has been reached", for the stop the
\* position has: violated, one moved to break-even is settled by the low of a candle
\* from before the move.
SettledMeansReached ==
    [][\A t \in Threads : Settles(t) /\ th'[t].why = "STOP" => touched.stop]_vars

=============================================================================
