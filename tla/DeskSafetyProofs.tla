-------------------------- MODULE DeskSafetyProofs --------------------------
(***************************************************************************)
(* Proofs of what Desk promises: no stop is worse than the planned one, a  *)
(* partial is sent once, the ledger agrees with the rows, nothing invents  *)
(* a trigger.  They rest on the invariant of DeskProofs and on one more    *)
(* part for each.                                                          *)
(***************************************************************************)
EXTENDS DeskProofs

(* The stop, the partial, the ledger and the evidence.                     *)

\* Stop s is missing, or no worse than the one planned for side d.
Sound(d, s) == s # NULL => Gain(d, Plan[d].stop, s) >= 0

\* No other stop than the planned one has been placed or recorded, nor is about to be
\* restored.
Unmoved ==
    /\ row.stop \in {NULL, Plan[row.dir].stop}
    /\ trade.linked => trade.stop \in {NULL, Plan[row.dir].stop}
    /\ \A t \in Threads : th[t].pc = "restore" => th[t].snap.stop = Plan[row.dir].stop

\* s was read of row u; when it has no stop, m holds since.
ReadOf(s, u, m) == s.dir = u.dir /\ s.entry = u.entry /\ Sound(u.dir, s.stop) /\ (s.stop = NULL => m)

\* The poller, with record r, may have read a stop of row u that others have changed
\* since; each stop it has yet to place is better than the planned one all the same.
Adv(r, u, m) ==
    /\ r.pc = "track" => ReadOf(r.snap, u, m)
    /\ Tracked(r) => ReadOf(r.seen, u, m)
    /\ InOrder(r.queue)
    /\ \A a \in Items(r.queue) : Betters(u.dir, Plan[u.dir].stop, a)

Advancing == Adv(th[Poller], row, Unmoved)

\* Thread r on its way to place or to record a stop of row u, with the broker md.
Placing(r, u, md) ==
    /\ r.pc \in {"fee", "fill", "verify"} =>
           r.snap.stop \in {NULL, Plan[u.dir].stop} /\ (md = "paper" => r.snap.stop # NULL)
    /\ r.pc = "restore" => Sound(u.dir, r.snap.stop)
    /\ r.pc \in {"attached", "repair", "restore"} => md = "live"
    /\ r.pc = "record" => u.stop # NULL

\* The stop, its record and what is on its way to either; a position without a stop
\* never had another one than the planned.
Held ==
    /\ \A t \in Threads : Placing(th[t], row, mode)
    /\ row.stop = NULL => Unmoved /\ mode = "live"
    /\ trade.linked => Sound(row.dir, trade.stop)
    /\ row.status # "none" =>
           Gain(row.dir, Plan[row.dir].stop, row.entry) > 0 /\ Sound(row.dir, row.stop)

StopInv == DeskInv /\ Advancing /\ Held

\* The poller has the quantity its partial is measured by.
SizeHeld ==
    th[Poller].pc = "close" /\ th[Poller].why = "PARTIAL" =>
        th[Poller].snap.qty = row.qty /\ th[Poller].size > 0

\* Thread r is sending a partial, and has not recorded it.
Sending(r) ==
    /\ r.pc \in {"close", "book", "closed"} /\ r.queue # <<>>
    /\ Head(r.queue).kind = "PARTIAL_CLOSE"

\* With the poller's record r, the trades row tr, n partials sent and f crashes: a row
\* that is not there counts none, a recorded partial is not planned again, and one
\* more than the crashes was sent only if it is recorded or under way.
Counted(r, tr, n, f) ==
    /\ ~tr.linked => n = 0 /\ ~tr.partial
    /\ tr.partial => \A a \in Items(r.queue) : a.kind # "PARTIAL_CLOSE"
    /\ n <= f + 1
    /\ ~tr.partial /\ ~Sending(r) => n <= f

PartialsCounted == Counted(th[Poller], trade, slices, faults)

Partly(t) == th[t].pc = "book" /\ th[t].why = "PARTIAL"

Wholly(t) == th[t].pc = "book" /\ th[t].why # "PARTIAL"

Paying(t) == th[t].pc = "fee"

\* What is due and not booked: a part the poller closed, the rest of a row that
\* one thread closed, the entry fee that one thread owes.
Parts == IF Partly(Poller) THEN th[Poller].size ELSE 0

Whole == IF \E t \in Threads : Wholly(t) THEN row.qty ELSE 0

Fees == IF \E t \in Threads : Paying(t) THEN due.fees - due.lots ELSE 0

Ledger ==
    mode = "paper" /\ ~stale /\ faults = 0 =>
        /\ \A t, u \in Threads : Wholly(t) /\ Wholly(u) => t = u
        /\ \A t, u \in Threads : Paying(t) /\ Paying(u) => t = u
        /\ \A t \in Threads : Wholly(t) => row.status = "CLOSED" /\ th[t].size = row.qty
        /\ \A t \in Threads : Paying(t) => th[t].size = due.fees - due.lots
        /\ account.lots + Parts + Whole = due.lots
        /\ account.fees + Parts + Whole + Fees = due.fees

\* The levels of row s that the market is at, with the bid b, and those that the
\* candles r show, have been reached.  (A stop that a live position gets later may
\* lie within the candles.)
Evident(s, b, r, reached, paper) ==
    s.status # "none" =>
        /\ HasStop(s) /\ Gain(s.dir, s.stop, Exit(s.dir, b)) <= 0 => reached.stop
        /\ Gain(s.dir, s.target, b) >= 0 => reached.target
        /\ paper /\ r # NULL /\ s.stop = Plan[s.dir].stop
           /\ Gain(s.dir, s.stop, IF s.dir = "BUY" THEN r.low ELSE r.high) <= 0
               => reached.stop
        /\ r # NULL
           /\ Gain(s.dir, s.target, IF s.dir = "BUY" THEN r.high ELSE r.low) >= 0
               => reached.target

Reached == Evident(row, bid, range, touched, mode = "paper")

----------------------------------------------------------------------------
(* The stop is never worse than the planned one.                           *)

LEMMA StopFacts ==
    ASSUME DeskInv
    PROVE  /\ row \in Rows /\ row.dir \in Directions /\ row.stop \in Int \cup {NULL}
           /\ Plan[row.dir].stop \in Int /\ Plan[row.dir].stop # NULL
           /\ Poller \in Threads /\ th[Poller] \in ThreadRec /\ Shape(Poller, th[Poller])
           /\ th \in [Threads -> ThreadRec] /\ trade \in Trades
  BY PlanFact, PollerIsThread, ThreadFacts, NullAssumption DEF DeskInv, Typed, Rows, Directions

LEMMA SoundPlan ==
    ASSUME NEW d \in Directions
    PROVE  Sound(d, Plan[d].stop) /\ Sound(d, NULL)
  BY PlanFact DEF Sound, Gain, Directions

\* A step of one thread leaves the others alone.
LEMMA OneThread ==
    ASSUME DeskInv, NEW t \in Threads, ReadStep(t) \/ OrderStep(t) \/ ReconcileStep(t) \/ Raises(t)
    PROVE  \A u \in Threads \ {t} : th'[u] = th[u]
  <1>0. th \in [Threads -> ThreadRec]
    BY DEF DeskInv, Typed
  <1>1. \E r : th' = [th EXCEPT ![t] = r]
    <2>1. CASE PlaceOrder(t)
      <3>1. PICK q : th' = [th EXCEPT ![t].pc = IF mode = "paper" THEN "fee" ELSE "fill",
                                      ![t].snap = row', ![t].size = q]
        BY <2>1 DEF PlaceOrder
      <3> QED
        BY <3>1
    <2>2. CASE Adopt(t)
      <3>1. th' = [th EXCEPT ![t] = th[t]]
        BY <1>0, <2>2 DEF Adopt
      <3> QED
        BY <3>1
    <2>3. CASE EntryFee(t) \/ MarkOpen(t) \/ VerifyStop(t) \/ VerifyAttach(t) \/ VerifyRecord(t)
      BY <2>3 DEF EntryFee, MarkOpen, VerifyStop, VerifyAttach, VerifyRecord, To, Done
    <2>4. CASE ReadStep(t)
      BY <2>4 DEF ReadStep, ReadRows, ReadNoRows, Unpriced, Priced, CloseRow, Book, Kept, To
    <2>5. CASE RepairRead(t) \/ RepairPlan(t) \/ RepairWrite(t) \/ Raises(t)
      BY <2>5 DEF RepairRead, RepairPlan, RepairWrite, Raises, Done
    <2> QED
      BY <2>1, <2>2, <2>3, <2>4, <2>5 DEF OrderStep, ReconcileStep
  <1> QED
    BY <1>0, <1>1

\* The stop and its record stay, and no thread begins to restore one.
LEMMA HeldStill ==
    ASSUME DeskInv, Held,
           row'.dir = row.dir, row'.stop = row.stop, row'.entry = row.entry,
           row'.status # "none" => row.status # "none",
           trade'.linked = trade.linked, trade'.stop = trade.stop, mode' = mode,
           \A t \in Threads : \/ th'[t] = th[t]
                              \/ th'[t].pc # "restore" /\ Placing(th'[t], row, mode)
    PROVE  Held' /\ (Unmoved => Unmoved')
  <1>1. \A t \in Threads : Placing(th'[t], row', mode')
    BY DEF Held, Placing
  <1>2. Unmoved => Unmoved'
    BY DEF Unmoved
  <1> QED
    BY <1>1, <1>2 DEF Held, Sound

\* At any other label a thread places nothing.
LEMMA Free ==
    ASSUME NEW r, NEW u, NEW md,
           r.pc \notin {"fee", "fill", "verify", "attached", "repair", "restore", "record"}
    PROVE  r.pc # "restore" /\ Placing(r, u, md)
  BY DEF Placing

\* The poller has nothing to do.
LEMMA AdvIdle ==
    ASSUME NEW v, NEW m
    PROVE  Adv(Idle, v, m)
  <1>1. Idle.pc = "idle" /\ Idle.queue = <<>>
    BY DEF Idle
  <1>2. ~Tracked(Idle)
    BY <1>1 DEF Tracked
  <1> QED
    BY <1>1, <1>2, NoItems DEF Adv

\* The poller does not move, nor do the side and the entry.
LEMMA AdvRow ==
    ASSUME NEW r, NEW u, NEW v, NEW m, NEW n, Adv(r, u, m),
           v.dir = u.dir, v.entry = u.entry, m => n
    PROVE  Adv(r, v, n)
  BY DEF Adv, ReadOf

\* The poller does one more part of its action, and has the same plan.
LEMMA AdvPart ==
    ASSUME NEW r, NEW s, NEW u, NEW m, Adv(r, u, m), s.queue = r.queue,
           s.pc # "track", Tracked(s) => Tracked(r) /\ s.seen = r.seen
    PROVE  Adv(s, u, m)
  BY DEF Adv

\* The poller goes on to its next action.
LEMMA AdvNext ==
    ASSUME StopInv, NextAction, th[Poller].pc \in {"apply", "record", "closed"},
           NEW v, v.dir = row.dir, NEW m
    PROVE  Adv(th'[Poller], v, m) /\ th'[Poller].pc \in {"idle", "apply"}
  <1> DEFINE q == th[Poller].queue
  <1>1. /\ Poller \in Threads /\ th[Poller] \in ThreadRec /\ th \in [Threads -> ThreadRec]
        /\ q \in Seq(Acts) /\ q # <<>>
    BY StopFacts, ThreadFacts DEF StopInv, DeskInv, Typed, Shape
  <1>2. CASE Len(q) = 1
    <2>1. th'[Poller] = Idle
      BY <1>1, <1>2 DEF NextAction
    <2> QED
      BY <2>1, AdvIdle DEF Idle
  <1>3. CASE Len(q) # 1
    <2> DEFINE r == [th[Poller] EXCEPT !.pc = "apply", !.queue = Tail(q), !.snap = NULL]
    <2>1. th'[Poller] = r
      BY <1>1, <1>3 DEF NextAction
    <2>2. r.pc = "apply" /\ r.queue = Tail(q)
      BY <1>1 DEF ThreadRec
    <2>3. ~Tracked(r)
      BY <2>2 DEF Tracked
    <2>4. InOrder(q) /\ \A a \in Items(q) : Betters(v.dir, Plan[v.dir].stop, a)
      BY DEF StopInv, Advancing, Adv
    <2>5. InOrder(Tail(q)) /\ Items(Tail(q)) \subseteq Items(q)
      <3> HIDE DEF q
      <3> QED
        BY <1>1, <2>4, RestOfPlan
    <2>6. \A a \in Items(Tail(q)) : Betters(v.dir, Plan[v.dir].stop, a)
      BY <2>4, <2>5
    <2> HIDE DEF r
    <2> QED
      BY <2>1, <2>2, <2>3, <2>5, <2>6 DEF Adv
  <1> QED
    BY <1>2, <1>3

\* The stop of the action at hand is better than the planned one.
LEMMA HeadAdvances ==
    ASSUME StopInv, th[Poller].pc \in {"apply", "modify", "record"}, Action.kind = "MOVE_STOP"
    PROVE  /\ Action.stop \in Int /\ Action.stop # NULL
           /\ Gain(row.dir, Plan[row.dir].stop, Action.stop) > 0
           /\ Sound(row.dir, Action.stop)
  <1> DEFINE q == th[Poller].queue
  <1>1. q \in Seq(Acts) /\ q # <<>> /\ Action = Head(q) /\ Action.stop \in Int
    BY StopFacts, ThreadFacts, ActionFacts DEF StopInv, DeskInv, Shape, Action
  <1>2. InOrder(q) /\ \A a \in Items(q) : Betters(row.dir, Plan[row.dir].stop, a)
    BY DEF StopInv, Advancing, Adv
  <1> HIDE DEF q
  <1>3. Head(q) \in Items(q)
    BY <1>1, <1>2, RestOfPlan
  <1>4. Gain(row.dir, Plan[row.dir].stop, Action.stop) > 0
    BY <1>1, <1>2, <1>3 DEF Betters
  <1>5. Gain(row.dir, Plan[row.dir].stop, Action.stop) \in Int
    BY <1>1, StopFacts, GainFacts DEF StopInv
  <1>6. Gain(row.dir, Plan[row.dir].stop, Action.stop) >= 0
    BY <1>4, <1>5
  <1> QED
    BY <1>1, <1>4, <1>6, NullAssumption DEF Sound

\* What a thread reads of the row now.
LEMMA ReadsNow ==
    ASSUME StopInv, row.status # "none"
    PROVE  ReadOf(row, row, Unmoved)
  BY DEF StopInv, Held, ReadOf

LEMMA AdvReads ==
    ASSUME StopInv, NEW t \in Threads, ReadStep(t)
    PROVE  Advancing' /\ Held'
  <1>0. /\ row \in Rows /\ Poller \in Threads /\ th[Poller] \in ThreadRec
        /\ Shape(Poller, th[Poller]) /\ th \in [Threads -> ThreadRec]
        /\ Adv(th[Poller], row, Unmoved) /\ DeskInv /\ th[t] \in ThreadRec
    BY StopFacts, ThreadFacts DEF StopInv, DeskInv, Advancing
  <1>1. /\ row'.dir = row.dir /\ row'.stop = row.stop /\ row'.entry = row.entry
        /\ row'.status # "none" => row.status # "none"
    <2>1. CASE CloseRow(t)
      <3>1. row.status # "none"
        BY <1>0, <2>1, AtWork DEF CloseRow
      <3> QED
        BY <1>0, <2>1, <3>1 DEF CloseRow, Rows
    <2>2. CASE ~CloseRow(t)
      BY <2>2 DEF ReadStep, ReadRows, ReadNoRows, Unpriced, Priced, Book, tables
    <2> QED
      BY <2>1, <2>2
  <1>2. trade' = trade /\ mode' = mode
    BY DEF ReadStep, ReadRows, ReadNoRows, Unpriced, Priced, CloseRow, Book, tables
  <1>k. Kept(t) => th'[t].pc \in {"idle", "track", "plan"}
    BY <1>0 DEF Kept, Idle, ThreadRec
  <1>3. th'[t].pc \in {"price", "plan", "idle", "track", "close", "book", "closed"}
    <2>1. CASE Priced(t) /\ ~Kept(t)
      <3>1. \E w, z : th' = [th EXCEPT ![t].pc = "close", ![t].why = w, ![t].size = z]
        BY <2>1 DEF Priced
      <3> QED
        BY <1>0, <3>1 DEF ThreadRec
    <2>2. CASE ReadRows(t) \/ ReadNoRows(t) \/ CloseRow(t)
      BY <1>0, <2>2 DEF ReadRows, ReadNoRows, CloseRow, To, ThreadRec
    <2>3. CASE Book(t)
      BY <1>0, <2>3 DEF Book, ThreadRec, Idle
    <2>4. CASE Kept(t)
      BY <1>k, <2>4
    <2> QED
      BY <2>1, <2>2, <2>3, <2>4 DEF ReadStep, Unpriced
  <1>4. \A u \in Threads : th'[u] = th[u] \/ (th'[u].pc # "restore" /\ Placing(th'[u], row, mode))
    BY <1>0, <1>3, OneThread, Free
  <1>5. Held' /\ (Unmoved => Unmoved')
    BY <1>0, <1>1, <1>2, <1>4, HeldStill DEF StopInv
  <1>6. SUFFICES Adv(th'[Poller], row, Unmoved)
    BY <1>1, <1>5, AdvRow DEF Advancing
  <1>7. CASE t # Poller
    <2>1. th'[Poller] = th[Poller]
      BY <1>0, <1>7, OneThread
    <2> QED
      BY <1>0, <2>1
  <1>8. CASE t = Poller
    <2>k. ASSUME th[Poller].pc = "price", Kept(Poller) PROVE Adv(th'[Poller], row, Unmoved)
      <3>1. CASE th[Poller].pass = 1
        <4> DEFINE r == [th[Poller] EXCEPT !.pc = "track", !.pass = 2, !.snap = row]
        <4>1. th'[Poller] = r
          BY <1>0, <2>k, <3>1 DEF Kept
        <4>2. r.pc = "track" /\ r.snap = row /\ r.queue = th[Poller].queue
          BY <1>0 DEF ThreadRec
        <4>3. r.queue = <<>>
          BY <1>0, <2>k, <4>2 DEF Shape
        <4> HIDE DEF r
        <4>4. ~Tracked(r)
          BY <4>2 DEF Tracked
        <4>5. ReadOf(row, row, Unmoved)
          BY <1>0, <2>k, AtWork, ReadsNow
        <4> QED
          BY <4>1, <4>2, <4>3, <4>4, <4>5, NoItems DEF Adv
      <3>2. CASE th[Poller].pass # 1
        <4> DEFINE r == [th[Poller] EXCEPT !.pc = "plan", !.snap = NULL]
        <4>1. th'[Poller] = r
          BY <1>0, <2>k, <3>2 DEF Kept
        <4>2. /\ r.pc = "plan" /\ r.queue = th[Poller].queue /\ r.seen = th[Poller].seen
              /\ th[Poller].pass = 2 /\ th[Poller].queue = <<>>
          BY <1>0, <2>k, <3>2 DEF ThreadRec, Shape
        <4>3. Tracked(th[Poller])
          BY <2>k, <4>2 DEF Tracked
        <4> HIDE DEF r
        <4> QED
          BY <1>0, <2>k, <4>1, <4>2, <4>3, AdvPart
      <3> QED
        BY <3>1, <3>2
    <2>1. CASE ReadRows(Poller)
      <3> DEFINE r == [th[Poller] EXCEPT !.pc = "price", !.snap = row]
      <3>1. th'[Poller] = r /\ th[Poller].pc \in {"idle", "account"}
        BY <1>0, <2>1 DEF ReadRows
      <3>2. /\ r.pc = "price" /\ r.queue = th[Poller].queue /\ r.seen = th[Poller].seen
            /\ r.pass = th[Poller].pass
        BY <1>0 DEF ThreadRec
      <3>3. th[Poller].pc = "idle" => th[Poller].pass = 1
        BY <1>0 DEF Shape, Idle
      <3> HIDE DEF r
      <3>4. Tracked(r) => Tracked(th[Poller])
        BY <3>1, <3>2, <3>3 DEF Tracked
      <3> QED
        BY <1>0, <3>1, <3>2, <3>4, AdvPart
    <2>2. CASE ReadNoRows(Poller)
      <3> DEFINE r == [th[Poller] EXCEPT !.pc = "plan"]
      <3>1. th'[Poller] = r /\ th[Poller].pc = "account"
        BY <1>0, <2>2 DEF ReadNoRows, To
      <3>2. r.pc = "plan" /\ r.queue = th[Poller].queue /\ r.seen = th[Poller].seen
        BY <1>0 DEF ThreadRec
      <3> HIDE DEF r
      <3>3. Tracked(th[Poller])
        BY <3>1 DEF Tracked
      <3> QED
        BY <1>0, <3>1, <3>2, <3>3, AdvPart
    <2>3. CASE Unpriced(Poller)
      BY <2>3, <2>k DEF Unpriced
    <2>4. CASE Priced(Poller)
      <3>1. th[Poller].pc = "price"
        BY <2>4 DEF Priced
      <3>2. CASE Kept(Poller)
        BY <2>k, <3>1, <3>2
      <3>3. CASE ~Kept(Poller)
        <4>1. PICK w, z : th' = [th EXCEPT ![Poller].pc = "close", ![Poller].why = w,
                                           ![Poller].size = z]
          BY <2>4, <3>3 DEF Priced
        <4> DEFINE r == [th[Poller] EXCEPT !.pc = "close", !.why = w, !.size = z]
        <4>2. th'[Poller] = r
          BY <1>0, <4>1
        <4>3. /\ r.pc = "close" /\ r.queue = th[Poller].queue /\ r.seen = th[Poller].seen
              /\ r.pass = th[Poller].pass
          BY <1>0 DEF ThreadRec
        <4> HIDE DEF r
        <4>4. Tracked(r) => Tracked(th[Poller])
          BY <3>1, <4>3 DEF Tracked
        <4> QED
          BY <1>0, <3>1, <4>2, <4>3, <4>4, AdvPart
      <3> QED
        BY <3>2, <3>3
    <2>5. CASE CloseRow(Poller)
      <3> DEFINE r == [th[Poller] EXCEPT !.pc = "book"]
      <3>1. th'[Poller] = r /\ th[Poller].pc = "close"
        BY <1>0, <2>5 DEF CloseRow, To
      <3>2. /\ r.pc = "book" /\ r.queue = th[Poller].queue /\ r.seen = th[Poller].seen
            /\ r.pass = th[Poller].pass
        BY <1>0 DEF ThreadRec
      <3> HIDE DEF r
      <3>3. Tracked(r) => Tracked(th[Poller])
        BY <3>1, <3>2 DEF Tracked
      <3> QED
        BY <1>0, <3>1, <3>2, <3>3, AdvPart
    <2>6. CASE Book(Poller)
      <3>0. th[Poller].pc = "book"
        BY <2>6 DEF Book
      <3>1. CASE th[Poller].queue # <<>>
        <4> DEFINE r == [th[Poller] EXCEPT !.pc = "closed", !.snap = NULL]
        <4>1. th'[Poller] = r
          BY <1>0, <2>6, <3>1 DEF Book
        <4>2. r.pc = "closed" /\ r.queue = th[Poller].queue
          BY <1>0 DEF ThreadRec
        <4> HIDE DEF r
        <4>3. ~Tracked(r)
          BY <4>2 DEF Tracked
        <4> QED
          BY <1>0, <3>0, <4>1, <4>2, <4>3, AdvPart
      <3>2. CASE th[Poller].queue = <<>> /\ th[Poller].pass = 2
        <4> DEFINE r == [th[Poller] EXCEPT !.pc = "plan", !.snap = NULL]
        <4>1. th'[Poller] = r
          BY <1>0, <2>6, <3>2 DEF Book
        <4>2. r.pc = "plan" /\ r.queue = th[Poller].queue /\ r.seen = th[Poller].seen
          BY <1>0 DEF ThreadRec
        <4> HIDE DEF r
        <4>3. Tracked(th[Poller])
          BY <3>0, <3>2 DEF Tracked
        <4> QED
          BY <1>0, <3>0, <4>1, <4>2, <4>3, AdvPart
      <3>3. CASE th[Poller].queue = <<>> /\ th[Poller].pass # 2
        <4>1. th'[Poller] = Idle
          BY <1>0, <2>6, <3>3 DEF Book
        <4> QED
          BY <4>1, AdvIdle
      <3> QED
        BY <3>1, <3>2, <3>3
    <2> QED
      BY <1>8, <2>1, <2>2, <2>3, <2>4, <2>5, <2>6 DEF ReadStep
  <1> QED
    BY <1>7, <1>8


\* A thread that is done places nothing.
LEMMA FreeDone ==
    ASSUME DeskInv, NEW t \in Threads, Done(t)
    PROVE  \A u \in Threads : \/ th'[u] = th[u]
                              \/ th'[u].pc # "restore" /\ \A v, md : Placing(th'[u], v, md)
  <1>1. th' = [th EXCEPT ![t] = Idle] /\ th \in [Threads -> ThreadRec] /\ Idle.pc = "idle"
    BY StopFacts DEF Done, Idle
  <1>2. \A v, md : Placing(Idle, v, md)
    BY <1>1, Free
  <1> QED
    BY <1>1, <1>2

\* A sound stop is placed.
LEMMA HeldMoved ==
    ASSUME DeskInv, Held, NEW s \in Int, Sound(row.dir, s),
           row' = [row EXCEPT !.stop = s], trade' = trade, mode' = mode,
           \A t \in Threads : \/ th'[t] = th[t]
                              \/ th'[t].pc # "restore" /\ Placing(th'[t], row', mode)
    PROVE  Held' /\ (Unmoved /\ s = Plan[row.dir].stop => Unmoved')
  <1>1. /\ row'.stop = s /\ row'.dir = row.dir /\ row'.entry = row.entry
        /\ row'.status = row.status /\ s # NULL
    BY StopFacts, NullAssumption DEF Rows
  <1>2. \A t \in Threads : Placing(th'[t], row', mode')
    BY <1>1 DEF Held, Placing
  <1>3. Unmoved /\ s = Plan[row.dir].stop => Unmoved'
    BY <1>1 DEF Unmoved
  <1> QED
    BY <1>1, <1>2, <1>3 DEF Held

\* A sound stop is recorded; for a position without a stop it is the planned one.
LEMMA HeldRecorded ==
    ASSUME DeskInv, Held, NEW s, Sound(row.dir, s),
           row.stop = NULL => s \in {NULL, Plan[row.dir].stop},
           row' = row, mode' = mode, trade'.stop = s,
           \A t \in Threads : \/ th'[t] = th[t]
                              \/ th'[t].pc # "restore" /\ Placing(th'[t], row, mode)
    PROVE  Held' /\ (Unmoved /\ s \in {NULL, Plan[row.dir].stop} => Unmoved')
  <1>1. \A t \in Threads : Placing(th'[t], row', mode')
    BY DEF Held
  <1>2. Unmoved /\ s \in {NULL, Plan[row.dir].stop} => Unmoved'
    BY DEF Unmoved
  <1> QED
    BY <1>1, <1>2 DEF Held

LEMMA AdvPlace ==
    ASSUME StopInv, NEW t \in Threads, PlaceOrder(t)
    PROVE  Advancing' /\ Held'
  <1>0. /\ DeskInv /\ Poller \in Threads /\ th \in [Threads -> ThreadRec]
        /\ th[t] \in ThreadRec /\ t # Poller /\ mode \in {"paper", "live"}
    BY StopFacts DEF StopInv, PlaceOrder, DeskInv, Typed
  <1>1. \A u \in Threads : th[u] = Idle
    BY <1>0 DEF PlaceOrder, DeskInv, Fresh, Shaped, Shape
  <1>2. PICK d \in Directions, q \in Lots, attached \in BOOLEAN :
          LET fill == IF d = "BUY" THEN bid + Spread + EntrySlip ELSE bid - EntrySlip
          IN /\ attached \/ mode = "live"
             /\ Gain(d, Plan[d].stop, fill) > 0
             /\ row' = [status |-> "OPEN", dir |-> d, qty |-> q,
                        entry |-> fill, stop |-> IF attached THEN Plan[d].stop ELSE NULL,
                        target |-> Plan[d].target, why |-> NULL]
             /\ th' = [th EXCEPT ![t].pc = IF mode = "paper" THEN "fee" ELSE "fill",
                                 ![t].snap = row', ![t].size = q]
    BY DEF PlaceOrder, Directions
  <1>3. /\ row'.dir = d /\ row'.stop \in {NULL, Plan[d].stop} /\ Plan[d].stop # NULL
        /\ mode = "paper" => row'.stop # NULL
        /\ Gain(d, Plan[d].stop, row'.entry) > 0
    BY <1>0, <1>2, PlanFact, NullAssumption
  <1>4. th'[t].pc \in {"fee", "fill"} /\ th'[t].snap = row'
    BY <1>0, <1>2 DEF ThreadRec
  <1>5. \A u \in Threads \ {t} : th'[u] = Idle
    BY <1>0, <1>1, OneThread DEF OrderStep
  <1>6. mode' = mode /\ trade'.linked = FALSE
    BY DEF PlaceOrder, NoTrade
  <1>7. \A u \in Threads : th'[u].pc # "restore" /\ Placing(th'[u], row', mode')
    <2>1. Placing(th'[t], row', mode')
      BY <1>3, <1>4, <1>6 DEF Placing
    <2>2. Idle.pc = "idle" /\ Placing(Idle, row', mode')
      BY Free DEF Idle
    <2> QED
      BY <1>4, <1>5, <2>1, <2>2
  <1>8. Unmoved'
    BY <1>3, <1>6, <1>7 DEF Unmoved
  <1>9. Sound(row'.dir, row'.stop)
    BY <1>3, SoundPlan
  <1>10. Held'
    BY <1>0, <1>3, <1>6, <1>7, <1>8, <1>9 DEF Held
  <1>11. th'[Poller] = Idle
    BY <1>0, <1>5
  <1> QED
    BY <1>10, <1>11, AdvIdle DEF Advancing

LEMMA AdvOrders ==
    ASSUME StopInv, NEW t \in Threads, OrderStep(t)
    PROVE  Advancing' /\ Held'
  <1>1. CASE PlaceOrder(t)
    BY <1>1, AdvPlace
  <1>2. CASE ~PlaceOrder(t)
    <2>0. /\ DeskInv /\ Held /\ Poller \in Threads /\ th \in [Threads -> ThreadRec]
          /\ th[t] \in ThreadRec /\ row \in Rows /\ row.dir \in Directions
          /\ Placing(th[t], row, mode) /\ mode \in {"paper", "live"} /\ trade \in Trades
          /\ Plan[row.dir].stop \in Int /\ Plan[row.dir].stop # NULL
          /\ Adv(th[Poller], row, Unmoved)
      BY StopFacts DEF StopInv, Held, DeskInv, Typed, Advancing
    <2>1. t # Poller
      BY <1>2, StopFacts
         DEF StopInv, OrderStep, EntryFee, MarkOpen, VerifyStop, VerifyAttach, VerifyRecord,
             Shape, StopWork
    <2>2. /\ \A u \in Threads \ {t} : th'[u] = th[u]
          /\ th'[Poller] = th[Poller]
      BY <2>0, <2>1, OneThread
    <2>3. mode' = mode
      BY <1>2 DEF OrderStep, EntryFee, MarkOpen, VerifyStop, VerifyAttach, VerifyRecord
    <2>4. SUFFICES Held' /\ row'.dir = row.dir /\ row'.entry = row.entry /\ (Unmoved => Unmoved')
      BY <2>0, <2>2, AdvRow DEF Advancing
    \* t goes on to its next label.
    <2>5. ASSUME NEW label, To(t, label)
          PROVE  th'[t].pc = label /\ th'[t].snap = th[t].snap
      BY <2>0, <2>5 DEF To, ThreadRec
    <2>6. CASE EntryFee(t)
      <3>1. th[t].pc = "fee" /\ th'[t].pc = "fill" /\ th'[t].snap = th[t].snap
        BY <2>5, <2>6 DEF EntryFee
      <3>2. Placing(th'[t], row, mode)
        BY <2>0, <3>1 DEF Placing
      <3>3. row' = row /\ trade' = trade
        BY <2>6 DEF EntryFee
      <3> QED
        BY <2>0, <2>2, <2>3, <3>1, <3>2, <3>3, HeldStill
    <2>7. CASE MarkOpen(t)
      <3>1. th[t].pc = "fill" /\ row' = row
        BY <2>7 DEF MarkOpen
      <3>2. CASE To(t, "verify") /\ trade'.stop = Plan[row.dir].stop
        <4>1. th'[t].pc = "verify" /\ th'[t].snap = th[t].snap
          BY <2>5, <3>2
        <4>2. Placing(th'[t], row, mode)
          BY <2>0, <3>1, <4>1 DEF Placing
        <4> QED
          BY <2>0, <2>2, <2>3, <3>1, <3>2, <4>1, <4>2, SoundPlan, HeldRecorded
      <3>3. CASE Done(t) /\ trade' = trade
        BY <2>0, <2>3, <3>1, <3>3, FreeDone, HeldStill
      <3> QED
        BY <2>0, <2>7, <3>2, <3>3 DEF MarkOpen, Trades
    <2>8. CASE VerifyStop(t)
      <3>1. /\ th[t].pc = "verify" /\ row' = row /\ Done(t)
            /\ trade'.stop = th[t].snap.stop
        BY <2>0, <2>8 DEF VerifyStop, Trades
      <3>2. th[t].snap.stop \in {NULL, Plan[row.dir].stop}
        BY <2>0, <3>1 DEF Placing
      <3>3. Sound(row.dir, th[t].snap.stop)
        BY <2>0, <3>2, SoundPlan
      <3> QED
        BY <2>0, <2>3, <3>1, <3>2, <3>3, FreeDone, HeldRecorded
    <2>9. CASE VerifyAttach(t)
      <3>1. th[t].pc = "verify" /\ th[t].snap.stop = NULL /\ trade' = trade
        BY <2>9 DEF VerifyAttach, HasStop
      <3>2. mode = "live"
        BY <2>0, <3>1 DEF Placing
      <3>3. CASE StopWritten(Plan[row.dir].stop) /\ To(t, "attached")
        <4>1. th'[t].pc = "attached"
          BY <2>5, <3>3
        <4>2. Placing(th'[t], row', mode)
          BY <3>2, <4>1 DEF Placing
        <4>3. row' = [row EXCEPT !.stop = Plan[row.dir].stop]
          BY <3>3 DEF StopWritten
        <4>4. row'.dir = row.dir /\ row'.entry = row.entry
          BY <2>0, <4>3 DEF Rows
        <4> QED
          BY <2>0, <2>2, <2>3, <3>1, <4>1, <4>2, <4>3, <4>4, SoundPlan, HeldMoved
      <3>4. CASE StopWritten(Plan[row.dir].stop) /\ Done(t)
        <4>1. row' = [row EXCEPT !.stop = Plan[row.dir].stop]
          BY <3>4 DEF StopWritten
        <4>2. row'.dir = row.dir /\ row'.entry = row.entry
          BY <2>0, <4>1 DEF Rows
        <4> QED
          BY <2>0, <2>3, <3>1, <3>4, <4>1, <4>2, FreeDone, SoundPlan, HeldMoved
      <3>5. CASE row' = row /\ Done(t)
        BY <2>0, <2>3, <3>1, <3>5, FreeDone, HeldStill
      <3> QED
        BY <2>9, <3>3, <3>4, <3>5 DEF VerifyAttach
    <2>10. CASE VerifyRecord(t)
      <3>1. row' = row /\ Done(t) /\ trade'.stop = Plan[row.dir].stop
        BY <2>0, <2>10 DEF VerifyRecord, Trades
      <3> QED
        BY <2>0, <2>3, <3>1, FreeDone, SoundPlan, HeldRecorded
    <2> QED
      BY <1>2, <2>6, <2>7, <2>8, <2>9, <2>10 DEF OrderStep
  <1> QED
    BY <1>1, <1>2

LEMMA AdvReconciles ==
    ASSUME StopInv, NEW t \in Threads, ReconcileStep(t)
    PROVE  Advancing' /\ Held'
  <1>0. /\ DeskInv /\ Held /\ Poller \in Threads /\ th \in [Threads -> ThreadRec]
        /\ th[t] \in ThreadRec /\ row \in Rows /\ row.dir \in Directions
        /\ Placing(th[t], row, mode) /\ mode \in {"paper", "live"} /\ trade \in Trades
        /\ Plan[row.dir].stop \in Int /\ Plan[row.dir].stop # NULL
        /\ Adv(th[Poller], row, Unmoved)
    BY StopFacts DEF StopInv, Held, DeskInv, Typed, Advancing
  <1>1. t # Poller
    BY StopFacts DEF StopInv, ReconcileStep, Adopt, RepairRead, RepairPlan, RepairWrite,
                     Shape, StopWork
  <1>2. /\ \A u \in Threads \ {t} : th'[u] = th[u]
        /\ th'[Poller] = th[Poller]
    BY <1>0, <1>1, OneThread
  <1>3. mode' = mode
    BY DEF ReconcileStep, Adopt, RepairRead, RepairPlan, RepairWrite
  <1>4. SUFFICES Held' /\ row'.dir = row.dir /\ row'.entry = row.entry /\ (Unmoved => Unmoved')
    BY <1>0, <1>2, AdvRow DEF Advancing
  <1>5. CASE Adopt(t)
    <2>1. PICK s \in {Plan[row.dir].stop, row.stop} :
            trade' = [trade EXCEPT !.linked = TRUE, !.stop = s]
      BY <1>5 DEF Adopt
    <2>2. row' = row /\ th' = th /\ trade'.stop = s /\ row.status # "none"
      BY <1>0, <1>5, <2>1 DEF Adopt, Trades
    <2>3. Sound(row.dir, s)
      BY <1>0, <2>1, <2>2, SoundPlan DEF Held
    <2>4. Unmoved \/ row.stop = NULL => s \in {NULL, Plan[row.dir].stop}
      BY <2>1 DEF Unmoved
    <2> QED
      BY <1>0, <1>3, <2>2, <2>3, <2>4, HeldRecorded
  <1>6. CASE RepairRead(t)
    <2>1. row' = row /\ trade' = trade /\ mode = "live" /\ th'[t].pc = "repair"
      BY <1>0, <1>6 DEF RepairRead, tables, ThreadRec
    <2>2. Placing(th'[t], row, mode)
      BY <2>1 DEF Placing
    <2> QED
      BY <1>0, <1>2, <1>3, <2>1, <2>2, HeldStill
  <1>7. CASE RepairPlan(t)
    <2>1. row' = row /\ trade' = trade /\ mode = "live"
      BY <1>0, <1>7 DEF RepairPlan, tables, Placing
    <2>2. CASE Done(t)
      BY <1>0, <1>3, <2>1, <2>2, FreeDone, HeldStill
    <2>3. CASE ~Done(t)
      <3> DEFINE snap == [th[t].snap EXCEPT !.stop = trade.stop]
      <3>1. /\ trade.linked /\ trade.stop # NULL
            /\ th' = [th EXCEPT ![t].pc = "restore", ![t].snap = snap]
        BY <1>7, <2>3 DEF RepairPlan
      <3>2. th'[t].pc = "restore" /\ th'[t].snap = snap
        BY <1>0, <3>1 DEF ThreadRec
      <3>3. th[t].snap \in Rows
        BY <1>0, <1>7, ThreadFacts DEF DeskInv, RepairPlan, Shape
      <3>4. th'[t].snap.stop = trade.stop
        BY <3>2, <3>3 DEF Rows
      <3>5. Placing(th'[t], row, mode)
        BY <1>0, <2>1, <3>1, <3>2, <3>4 DEF Placing, Held
      <3>6. \A u \in Threads : Placing(th'[u], row, mode)
        BY <1>0, <1>2, <3>5 DEF Held
      <3>7. ASSUME Unmoved PROVE Unmoved'
        <4>1. trade.stop = Plan[row.dir].stop
          BY <3>1, <3>7 DEF Unmoved
        <4>2. ASSUME NEW u \in Threads, th'[u].pc = "restore"
              PROVE  th'[u].snap.stop = Plan[row.dir].stop
          <5>1. CASE u = t
            BY <3>4, <4>1, <5>1
          <5>2. CASE u # t
            BY <1>2, <3>7, <4>2, <5>2 DEF Unmoved
          <5> QED
            BY <5>1, <5>2
        <4> QED
          BY <2>1, <3>7, <4>2 DEF Unmoved
      <3> QED
        BY <1>0, <1>3, <2>1, <3>6, <3>7 DEF Held
    <2> QED
      BY <2>2, <2>3
  <1>8. CASE RepairWrite(t)
    <2>1. th[t].pc = "restore" /\ Done(t) /\ trade' = trade
      BY <1>8 DEF RepairWrite
    <2>2. CASE row' = row
      BY <1>0, <1>3, <2>1, <2>2, FreeDone, HeldStill
    <2>3. CASE StopWritten(th[t].snap.stop)
      <3>1. /\ th[t].snap.stop \in Int
            /\ row' = [row EXCEPT !.stop = th[t].snap.stop]
            /\ Sound(row.dir, th[t].snap.stop)
        BY <1>0, <2>1, <2>3, ThreadFacts DEF DeskInv, Shape, StopWritten, Placing
      <3>2. row'.dir = row.dir /\ row'.entry = row.entry
        BY <1>0, <3>1 DEF Rows
      <3>3. Unmoved => th[t].snap.stop = Plan[row.dir].stop
        BY <2>1 DEF Unmoved
      <3> QED
        BY <1>0, <1>3, <2>1, <3>1, <3>2, <3>3, FreeDone, HeldMoved
    <2> QED
      BY <1>8, <2>2, <2>3 DEF RepairWrite
  <1> QED
    BY <1>5, <1>6, <1>7, <1>8 DEF ReconcileStep

LEMMA AdvPlans ==
    ASSUME StopInv, LiveRead \/ Track \/ Decide \/ ActionFails \/ ModifyCheck
    PROVE  Advancing' /\ Held'
  <1>0. /\ row \in Rows /\ Poller \in Threads /\ th[Poller] \in ThreadRec
        /\ Shape(Poller, th[Poller]) /\ th \in [Threads -> ThreadRec]
        /\ Adv(th[Poller], row, Unmoved) /\ trade \in Trades /\ DeskInv /\ Held
        /\ Plan[row.dir].stop \in Int
    BY StopFacts DEF StopInv, DeskInv, Typed, Advancing
  <1>1. row' = row /\ trade' = trade /\ mode' = mode
    BY DEF LiveRead, Track, Decide, ActionFails, ModifyCheck, tables
  <1>2. \A u \in Threads \ {Poller} : th'[u] = th[u]
    BY <1>0 DEF LiveRead, Track, Decide, ActionFails, ModifyCheck, To, Done, NextAction
  <1>3. ASSUME th'[Poller].pc \in {"idle", "track", "account", "plan", "apply", "modify"}
        PROVE  Held' /\ (Unmoved => Unmoved')
    <2>1. th'[Poller].pc # "restore" /\ Placing(th'[Poller], row, mode)
      BY <1>3, Free
    <2> QED
      BY <1>0, <1>1, <1>2, <2>1, HeldStill
  <1>4. SUFFICES /\ th'[Poller].pc \in {"idle", "track", "account", "plan", "apply", "modify"}
                 /\ Adv(th'[Poller], row, Unmoved)
    BY <1>1, <1>3, AdvRow DEF Advancing
  <1>i. ASSUME Done(Poller)
        PROVE  th'[Poller].pc = "idle" /\ Adv(th'[Poller], row, Unmoved)
    <2>1. th'[Poller] = Idle
      BY <1>0, <1>i DEF Done
    <2> QED
      BY <2>1, AdvIdle DEF Idle
  <1>5. CASE LiveRead
    <2> DEFINE r == [th[Poller] EXCEPT !.pc = "track", !.snap = row]
    <2>1. th'[Poller] = r /\ th[Poller].pc = "idle" /\ row.status # "none"
      BY <1>0, <1>5 DEF LiveRead
    <2>2. r.pc = "track" /\ r.snap = row /\ r.queue = th[Poller].queue
      BY <1>0 DEF ThreadRec
    <2>3. r.queue = <<>>
      BY <1>0, <2>1, <2>2 DEF Shape, Idle
    <2> HIDE DEF r
    <2>4. ~Tracked(r) /\ ReadOf(row, row, Unmoved)
      BY <2>1, <2>2, ReadsNow DEF Tracked
    <2> QED
      BY <2>1, <2>2, <2>3, <2>4, NoItems DEF Adv
  <1>6. CASE Track /\ ~Done(Poller)
    <2> DEFINE s == th[Poller].snap
               label == IF mode = "paper" THEN "account" ELSE "plan"
               p == [dir |-> s.dir, qty |-> s.qty, entry |-> s.entry,
                     stop |-> s.stop, price |-> Exit(s.dir, bid)]
               r == [th[Poller] EXCEPT !.pc = label, !.snap = NULL, !.seen = p]
    <2>1. th'[Poller] = r /\ th[Poller].pc = "track"
      BY <1>0, <1>6 DEF Track
    <2>2. r.pc = label /\ r.queue = th[Poller].queue /\ r.seen = p
      BY <1>0 DEF ThreadRec
    <2>3. label \in {"account", "plan"} /\ r.queue = <<>>
      BY <1>0, <2>1, <2>2 DEF Shape
    <2>4. ReadOf(p, row, Unmoved)
      BY <1>0, <2>1 DEF Adv, ReadOf
    <2> HIDE DEF r, p, label
    <2> QED
      BY <2>1, <2>2, <2>3, <2>4, NoItems DEF Adv
  <1>7. CASE Decide /\ ~Done(Poller)
    <2> DEFINE p == th[Poller].seen
               floor == Plan[row.dir].stop
               invalidated == /\ trade.linked /\ trade.stop # NULL
                              /\ Gain(p.dir, trade.stop, p.price) < 0
    <2>1. PICK aged \in BOOLEAN :
            th' = [th EXCEPT ![Poller].pc = "apply",
                      ![Poller].queue = PlanActions(p, trade, invalidated, aged)]
      BY <1>7 DEF Decide
    <2>2. p \in Seen /\ ReadOf(p, row, Unmoved) /\ row.status # "none"
      BY <1>0, <1>7, AtWork DEF Decide, Shape, Tracked, Adv
    <2>3. invalidated \in BOOLEAN
      BY <1>0 DEF Trades
    <2>4. SoundFor(p, trade, floor)
      <3>1. p.dir = row.dir /\ p.entry = row.entry /\ Sound(row.dir, p.stop)
            /\ (p.stop = NULL => Unmoved)
        BY <2>2 DEF ReadOf
      <3>2. Gain(row.dir, floor, row.entry) > 0
        BY <1>0, <2>2 DEF Held
      <3> QED
        BY <3>1, <3>2 DEF SoundFor, Sound, Unmoved
    <2> DEFINE q == PlanActions(p, trade, invalidated, aged)
               r == [th[Poller] EXCEPT !.pc = "apply", !.queue = q]
    <2> HIDE DEF invalidated, p
    <2>5. /\ q \in Seq(Acts) /\ InOrder(q)
          /\ \A a \in Items(q) : Betters(p.dir, floor, a)
      BY <1>0, <2>2, <2>3, <2>4, PlanInOrder
    <2> HIDE DEF q
    <2>6. th'[Poller] = r
      BY <1>0, <2>1 DEF q, p
    <2>7. r.pc = "apply" /\ r.queue = q
      BY <1>0 DEF ThreadRec
    <2> HIDE DEF r
    <2>8. ~Tracked(r) /\ p.dir = row.dir
      BY <2>2, <2>7 DEF Tracked, ReadOf
    <2> QED
      BY <2>5, <2>6, <2>7, <2>8 DEF Adv
  <1>8. CASE ActionFails
    BY <1>8, AdvNext DEF ActionFails
  <1>9. CASE ModifyCheck
    <2> DEFINE r == [th[Poller] EXCEPT !.pc = "modify"]
    <2>1. th'[Poller] = r /\ th[Poller].pc = "apply"
      BY <1>0, <1>9 DEF ModifyCheck, To
    <2>2. r.pc = "modify" /\ r.queue = th[Poller].queue
      BY <1>0 DEF ThreadRec
    <2> HIDE DEF r
    <2>3. ~Tracked(r)
      BY <2>2 DEF Tracked
    <2> QED
      BY <1>0, <2>1, <2>2, <2>3, AdvPart
  <1> QED
    BY <1>i, <1>5, <1>6, <1>7, <1>8, <1>9 DEF LiveRead, Track, Decide, ActionFails, ModifyCheck

LEMMA AdvStops ==
    ASSUME StopInv, ModifyWrite \/ RecordStop \/ LiveModify
    PROVE  Advancing' /\ Held'
  <1>0. /\ row \in Rows /\ Poller \in Threads /\ th[Poller] \in ThreadRec
        /\ Shape(Poller, th[Poller]) /\ th \in [Threads -> ThreadRec]
        /\ Adv(th[Poller], row, Unmoved) /\ trade \in Trades /\ DeskInv /\ Held
        /\ Placing(th[Poller], row, mode)
    BY StopFacts DEF StopInv, DeskInv, Typed, Advancing, Held
  <1>1. th[Poller].pc \in {"apply", "modify", "record"} /\ Action.kind = "MOVE_STOP"
    BY <1>0, ActionFacts DEF ModifyWrite, RecordStop, LiveModify, DeskInv
  <1>2. Action.stop \in Int /\ Action.stop # NULL /\ Sound(row.dir, Action.stop)
    BY <1>1, HeadAdvances
  <1>3. mode' = mode /\ \A u \in Threads \ {Poller} : th'[u] = th[u]
    BY <1>0 DEF ModifyWrite, RecordStop, LiveModify, To, NextAction
  \* The stop is moved, and recorded next or given up.
  <1>4. ASSUME row' = [row EXCEPT !.stop = Action.stop], trade' = trade,
               To(Poller, "record") \/ (th[Poller].pc = "apply" /\ NextAction)
        PROVE  Advancing' /\ Held'
    <2>1. row'.dir = row.dir /\ row'.stop = Action.stop
      BY <1>0, <1>4 DEF Rows
    <2>2. Adv(th'[Poller], row', Unmoved') /\ th'[Poller].pc \in {"idle", "apply", "record"}
      <3>1. CASE th[Poller].pc = "apply" /\ NextAction
        BY <2>1, <3>1, AdvNext
      <3>2. CASE To(Poller, "record")
        <4> DEFINE r == [th[Poller] EXCEPT !.pc = "record"]
        <4>1. th'[Poller] = r
          BY <1>0, <3>2 DEF To
        <4>2. r.pc = "record" /\ r.queue = th[Poller].queue
          BY <1>0 DEF ThreadRec
        <4> HIDE DEF r
        <4>3. ~Tracked(r)
          BY <4>2 DEF Tracked
        <4> QED
          BY <1>0, <2>1, <4>1, <4>2, <4>3 DEF Adv
      <3> QED
        BY <1>4, <3>1, <3>2
    <2>3. th'[Poller].pc # "restore" /\ Placing(th'[Poller], row', mode)
      BY <1>2, <2>1, <2>2 DEF Placing
    <2> QED
      BY <1>0, <1>2, <1>3, <1>4, <2>2, <2>3, HeldMoved DEF Advancing
  <1>5. CASE ModifyWrite
    BY <1>4, <1>5 DEF ModifyWrite
  <1>6. CASE RecordStop
    <2>1. th[Poller].pc = "record" /\ NextAction /\ row' = row
      BY <1>6 DEF RecordStop
    <2>2. Adv(th'[Poller], row', Unmoved') /\ th'[Poller].pc \in {"idle", "apply"}
      BY <2>1, AdvNext
    <2>3. th'[Poller].pc # "restore" /\ Placing(th'[Poller], row, mode)
      BY <2>2, Free
    <2>4. row.stop # NULL
      BY <1>0, <2>1 DEF Placing
    <2>5. trade' = trade \/ trade'.stop = Action.stop
      BY <1>0, <1>6 DEF RecordStop, Trades
    <2>6. Held'
      <3>1. CASE trade' = trade
        BY <1>0, <1>3, <2>1, <2>3, <3>1, HeldStill
      <3>2. CASE trade'.stop = Action.stop
        BY <1>0, <1>2, <1>3, <2>1, <2>3, <2>4, <3>2, HeldRecorded
      <3> QED
        BY <2>5, <3>1, <3>2
    <2> QED
      BY <2>2, <2>6 DEF Advancing
  <1>7. CASE LiveModify
    <2>1. th[Poller].pc = "apply" /\ trade' = trade
      BY <1>7 DEF LiveModify
    <2>2. CASE row' = row /\ NextAction
      <3>1. Adv(th'[Poller], row', Unmoved') /\ th'[Poller].pc \in {"idle", "apply"}
        BY <2>1, <2>2, AdvNext
      <3>2. th'[Poller].pc # "restore" /\ Placing(th'[Poller], row, mode)
        BY <3>1, Free
      <3>3. Held'
        BY <1>0, <1>3, <2>1, <2>2, <3>2, HeldStill
      <3> QED
        BY <3>1, <3>3 DEF Advancing
    <2>3. CASE StopWritten(Action.stop) /\ (To(Poller, "record") \/ NextAction)
      BY <1>4, <2>1, <2>3 DEF StopWritten
    <2> QED
      BY <1>7, <2>2, <2>3 DEF LiveModify
  <1> QED
    BY <1>5, <1>6, <1>7

LEMMA AdvCloses ==
    ASSUME StopInv, CloseCheck \/ Flag \/ LiveClose
    PROVE  Advancing' /\ Held'
  <1>0. /\ row \in Rows /\ Poller \in Threads /\ th[Poller] \in ThreadRec
        /\ Shape(Poller, th[Poller]) /\ th \in [Threads -> ThreadRec]
        /\ Adv(th[Poller], row, Unmoved) /\ trade \in Trades /\ DeskInv /\ Held
    BY StopFacts DEF StopInv, DeskInv, Typed, Advancing
  <1>1. mode' = mode /\ \A u \in Threads \ {Poller} : th'[u] = th[u]
    BY <1>0 DEF CloseCheck, Flag, LiveClose, To, NextAction
  <1>2. /\ row'.dir = row.dir /\ row'.stop = row.stop /\ row'.entry = row.entry
        /\ row'.status # "none" => row.status # "none"
    <2>1. row.status # "none"
      BY <1>0, AtWork DEF CloseCheck, Flag, LiveClose
    <2> QED
      BY <1>0, <2>1 DEF CloseCheck, Flag, LiveClose, Rows, tables
  <1>3. trade'.linked = trade.linked /\ trade'.stop = trade.stop
    BY <1>0 DEF CloseCheck, Flag, LiveClose, Trades, tables
  <1>4. th'[Poller].pc \in {"idle", "apply", "close", "closed"} /\ Adv(th'[Poller], row, Unmoved)
    <2>1. CASE CloseCheck
      <3>1. PICK w, z : /\ th' = [th EXCEPT ![Poller].pc = "close", ![Poller].snap = row,
                                            ![Poller].why = w, ![Poller].size = z]
                        /\ th[Poller].pc = "apply"
        BY <2>1 DEF CloseCheck
      <3> DEFINE r == [th[Poller] EXCEPT !.pc = "close", !.snap = row, !.why = w, !.size = z]
      <3>2. th'[Poller] = r
        BY <1>0, <3>1
      <3>3. r.pc = "close" /\ r.queue = th[Poller].queue /\ r.queue # <<>>
        BY <1>0, <3>1 DEF ThreadRec, Shape
      <3> HIDE DEF r
      <3>4. ~Tracked(r)
        BY <3>3 DEF Tracked
      <3> QED
        BY <1>0, <3>1, <3>2, <3>3, <3>4, AdvPart
    <2>2. CASE Flag
      BY <2>2, AdvNext DEF Flag
    <2>3. CASE LiveClose
      <3>1. th[Poller].pc = "apply" /\ To(Poller, "closed")
        BY <2>3 DEF LiveClose
      <3> DEFINE r == [th[Poller] EXCEPT !.pc = "closed"]
      <3>2. th'[Poller] = r
        BY <1>0, <3>1 DEF To
      <3>3. r.pc = "closed" /\ r.queue = th[Poller].queue
        BY <1>0 DEF ThreadRec
      <3> HIDE DEF r
      <3>4. ~Tracked(r)
        BY <3>3 DEF Tracked
      <3> QED
        BY <1>0, <3>1, <3>2, <3>3, <3>4, AdvPart
    <2> QED
      BY <2>1, <2>2, <2>3
  <1>5. th'[Poller].pc # "restore" /\ Placing(th'[Poller], row, mode)
    BY <1>4, Free
  <1>6. Held' /\ (Unmoved => Unmoved')
    BY <1>0, <1>1, <1>2, <1>3, <1>5, HeldStill
  <1> QED
    BY <1>2, <1>4, <1>6, AdvRow DEF Advancing

\* Every thread stays where it is, or is done.
LEMMA AdvEnds ==
    ASSUME StopInv, \A u \in Threads : th'[u] = th[u] \/ th'[u] = Idle,
           row'.dir = row.dir, row'.stop = row.stop, row'.entry = row.entry,
           row'.status # "none" => row.status # "none",
           trade' = trade, mode' = mode
    PROVE  Advancing' /\ Held'
  <1>1. Idle.pc # "restore" /\ Placing(Idle, row, mode)
    BY Free DEF Idle
  <1>2. Held' /\ (Unmoved => Unmoved')
    BY <1>1, HeldStill DEF StopInv
  <1>3. Adv(th'[Poller], row, Unmoved)
    BY PollerIsThread, AdvIdle DEF StopInv, Advancing
  <1> QED
    BY <1>2, <1>3, AdvRow DEF Advancing

LEMMA AdvStep == StopInv /\ [Next]_vars => Advancing' /\ Held'
  <1> SUFFICES ASSUME StopInv, [Next]_vars PROVE Advancing' /\ Held'
    OBVIOUS
  <1>0. row \in Rows /\ th \in [Threads -> ThreadRec] /\ DeskInv
    BY StopFacts DEF StopInv
  <1>1. ASSUME NEW t \in Threads, ReadStep(t) \/ OrderStep(t) \/ ReconcileStep(t)
        PROVE  Advancing' /\ Held'
    BY <1>1, AdvReads, AdvOrders, AdvReconciles
  <1>2. CASE ManageStep
    BY <1>2, AdvPlans, AdvStops, AdvCloses DEF ManageStep
  <1>3. CASE MarketStep
    <2>1. /\ th' = th /\ trade' = trade /\ mode' = mode
          /\ row'.dir = row.dir /\ row'.stop = row.stop /\ row'.entry = row.entry
          /\ row'.status # "none" => row.status # "none"
      BY <1>0, <1>3
         DEF MarketStep, PriceMoves, CandleOpens, BrokerSettles, tables, Rows
    <2> QED
      BY <2>1, AdvEnds
  <1>4. ASSUME Crash \/ \E t \in Threads : Raises(t)
        PROVE  Advancing' /\ Held'
    <2>1. \A u \in Threads : th'[u] = th[u] \/ th'[u] = Idle
      BY <1>0, <1>4 DEF Crash, Raises, Done
    <2>2. row' = row /\ trade' = trade /\ mode' = mode
      BY <1>4 DEF Crash, Raises, tables
    <2> QED
      BY <2>1, <2>2, AdvEnds
  <1>5. CASE UNCHANGED vars
    BY <1>5, AdvEnds DEF vars
  <1> QED
    BY <1>1, <1>2, <1>3, <1>4, <1>5 DEF Next

LEMMA AdvStart == Init => Advancing /\ Held
  <1> SUFFICES ASSUME Init PROVE Advancing /\ Held
    OBVIOUS
  <1>1. \A t \in Threads : th[t] = Idle
    BY DEF Init
  <1>2. Placing(Idle, row, mode)
    BY Free DEF Idle
  <1>3. row.stop # NULL /\ row.status = "none" /\ ~trade.linked
    BY NullAssumption DEF Init, NoRow, NoTrade
  <1> QED
    BY <1>1, <1>2, <1>3, AdvIdle, PollerIsThread DEF Advancing, Held
----------------------------------------------------------------------------
(* The size shrinks.                                                       *)

LEMMA SizeStep == DeskInv /\ SizeHeld /\ [Next]_vars => SizeHeld'
  <1> SUFFICES ASSUME DeskInv, SizeHeld, [Next]_vars,
                      th'[Poller].pc = "close", th'[Poller].why = "PARTIAL"
               PROVE  th'[Poller].snap.qty = row'.qty /\ th'[Poller].size > 0
    BY DEF SizeHeld
  <1>0. /\ row \in Rows /\ Poller \in Threads /\ th[Poller] \in ThreadRec
        /\ Shape(Poller, th[Poller]) /\ th \in [Threads -> ThreadRec]
    BY StopFacts DEF DeskInv, Typed
  <1>1. CASE th'[Poller] = th[Poller] /\ row'.qty = row.qty
    BY <1>1 DEF SizeHeld
  <1>2. ASSUME NEW t \in Threads, ReadStep(t) \/ OrderStep(t) \/ ReconcileStep(t), t # Poller
        PROVE  th'[Poller] = th[Poller] /\ row'.qty = row.qty
    <2>1. th'[Poller] = th[Poller]
      BY <1>0, <1>2, OneThread
    <2>2. CASE CloseRow(t)
      <3> DEFINE left == th[t].snap.qty - th[t].size
      <3>1. /\ th[t].snap \in Rows /\ th[t].size <= th[t].snap.qty /\ th[t].size \in Nat
            /\ ~(th[t].size < th[t].snap.qty)
        BY <1>2, <2>2, ThreadFacts DEF CloseRow, Shape, DeskInv
      <3>2. ~(left > 0)
        BY <3>1 DEF Rows
      <3> HIDE DEF left
      <3>3. row' = [row EXCEPT !.status = "CLOSED", !.why = th[t].why]
        BY <2>2, <3>2 DEF CloseRow, left
      <3> QED
        BY <1>0, <2>1, <3>3 DEF Rows
    <2>3. CASE PlaceOrder(t)
      BY <1>0, <2>1, <2>3 DEF PlaceOrder, DeskInv, Fresh
    <2>4. CASE ReadStep(t) /\ ~CloseRow(t)
      BY <2>1, <2>4 DEF ReadStep, ReadRows, ReadNoRows, Unpriced, Priced, Book, tables
    <2>5. CASE EntryFee(t) \/ MarkOpen(t) \/ VerifyStop(t) \/ VerifyRecord(t)
      BY <2>1, <2>5 DEF EntryFee, MarkOpen, VerifyStop, VerifyRecord
    <2>6. CASE Adopt(t) \/ RepairRead(t) \/ RepairPlan(t)
      BY <2>1, <2>6 DEF Adopt, RepairRead, RepairPlan, tables
    <2>7. CASE VerifyAttach(t) \/ RepairWrite(t)
      BY <1>0, <2>1, <2>7 DEF VerifyAttach, RepairWrite, StopWritten, Rows
    <2> QED
      BY <1>2, <2>2, <2>3, <2>4, <2>5, <2>6, <2>7 DEF OrderStep, ReconcileStep
  <1>3. ASSUME ReadStep(Poller) PROVE FALSE
    <2>1. CASE Priced(Poller)
      <3>1. PICK e \in Evidence :
              LET s == th[Poller].snap
                  verdict == Settlement(s, Exit(s.dir, bid), e)
              IN  IF verdict = NULL THEN Kept(Poller)
                  ELSE th' = [th EXCEPT ![Poller].pc = "close", ![Poller].why = verdict,
                                        ![Poller].size = s.qty]
        BY <2>1 DEF Priced
      <3> DEFINE verdict == Settlement(th[Poller].snap, Exit(th[Poller].snap.dir, bid), e)
      <3>2. verdict # NULL => verdict \in Whys
        BY SettlementFact
      <3> HIDE DEF verdict
      <3>3. CASE Kept(Poller)
        BY <1>0, <3>3 DEF Kept, ThreadRec
      <3>4. CASE verdict # NULL
        <4>1. th'[Poller].why = verdict
          BY <1>0, <3>1, <3>4 DEF ThreadRec, verdict
        <4> QED
          BY <3>2, <3>4, <4>1 DEF Whys
      <3> QED
        BY <3>1, <3>3, <3>4 DEF verdict
    <2>2. CASE Unpriced(Poller)
      BY <1>0, <2>2 DEF Unpriced, Kept, ThreadRec
    <2>3. CASE ReadRows(Poller) \/ ReadNoRows(Poller) \/ CloseRow(Poller)
      BY <1>0, <2>3 DEF ReadRows, ReadNoRows, CloseRow, To, ThreadRec
    <2>4. CASE Book(Poller)
      BY <1>0, <2>4 DEF Book, ThreadRec, Idle
    <2> QED
      BY <1>3, <2>1, <2>2, <2>3, <2>4 DEF ReadStep
  <1>4. CASE \E t \in Threads : ReadStep(t) \/ OrderStep(t) \/ ReconcileStep(t)
    <2>1. PICK t \in Threads : ReadStep(t) \/ OrderStep(t) \/ ReconcileStep(t)
      BY <1>4
    <2>2. CASE t # Poller
      BY <1>1, <1>2, <2>1, <2>2
    <2>3. CASE t = Poller
      <3>1. ~OrderStep(t)
        BY <1>0, <2>3 DEF OrderStep, PlaceOrder, EntryFee, MarkOpen, VerifyStop, VerifyAttach,
                          VerifyRecord, Shape, StopWork
      <3>2. ~ReconcileStep(t)
        BY <1>0, <2>3 DEF ReconcileStep, Adopt, RepairRead, RepairPlan, RepairWrite,
                          Shape, StopWork
      <3> QED
        BY <1>3, <2>1, <2>3, <3>1, <3>2
    <2> QED
      BY <2>2, <2>3
  <1>5. CASE ManageStep
    <2>1. CASE CloseCheck
      <3> DEFINE part == Action.qty > 0 /\ Action.qty < row.qty
      <3>1. /\ th'[Poller].snap = row /\ row' = row
            /\ th'[Poller].why = IF part THEN "PARTIAL" ELSE "MANUAL"
            /\ th'[Poller].size = IF part THEN Action.qty ELSE row.qty
        BY <1>0, <2>1 DEF CloseCheck, ThreadRec, tables
      <3> QED
        BY <3>1
    <2>2. CASE LiveRead \/ Track \/ Decide
      <3>1. CASE LiveRead
        BY <1>0, <3>1 DEF LiveRead, ThreadRec
      <3>2. CASE Done(Poller)
        BY <1>0, <3>2 DEF Done, Idle
      <3>3. CASE Track /\ ~Done(Poller)
        BY <1>0, <3>3 DEF Track, ThreadRec
      <3>4. CASE Decide /\ ~Done(Poller)
        <4>1. PICK q : th' = [th EXCEPT ![Poller].pc = "apply", ![Poller].queue = q]
          BY <3>4 DEF Decide
        <4> QED
          BY <1>0, <4>1 DEF ThreadRec
      <3> QED
        BY <2>2, <3>1, <3>2, <3>3, <3>4
    <2>3. CASE ModifyCheck \/ ModifyWrite \/ LiveClose
      BY <1>0, <2>3 DEF ModifyCheck, ModifyWrite, LiveClose, To, ThreadRec
    <2>4. ASSUME NextAction PROVE FALSE
      BY <1>0, <2>4 DEF NextAction, Idle, ThreadRec
    <2>5. CASE ActionFails \/ RecordStop \/ Flag
      BY <2>4, <2>5 DEF ActionFails, RecordStop, Flag
    <2>6. CASE LiveModify
      <3>1. To(Poller, "record")
        BY <2>4, <2>6 DEF LiveModify
      <3> QED
        BY <1>0, <3>1 DEF To, ThreadRec
    <2> QED
      BY <1>5, <2>1, <2>2, <2>3, <2>5, <2>6 DEF ManageStep
  <1>6. CASE MarketStep
    <2>1. th' = th /\ row'.qty = row.qty
      BY <1>0, <1>6 DEF MarketStep, PriceMoves, CandleOpens, BrokerSettles, tables, Rows
    <2> QED
      BY <1>1, <2>1
  <1>7. CASE Crash \/ \E t \in Threads : Raises(t)
    <2>1. row' = row /\ (th'[Poller] = th[Poller] \/ th'[Poller] = Idle)
      BY <1>0, <1>7 DEF Crash, Raises, Done, tables
    <2>2. th'[Poller] # Idle
      BY DEF Idle
    <2> QED
      BY <1>1, <2>1, <2>2
  <1>8. CASE UNCHANGED vars
    BY <1>1, <1>8 DEF vars
  <1> QED
    BY <1>4, <1>5, <1>6, <1>7, <1>8 DEF Next

----------------------------------------------------------------------------
(* One position, as PositionLife has it.                                   *)

LifeInv == StopInv /\ SizeHeld

\* A change of the row that PositionLife allows.
LifeStep == [Life!Next]_<<row.status, Safety(row.dir, row.stop),
                          Safety(row.dir, Plan[row.dir].stop), row.qty>>

\* A level is worse or better for the position as its Safety is.
LEMMA SafetyFacts ==
    ASSUME NEW d \in Directions, NEW s \in Int
    PROVE  /\ Safety(d, s) \in Int
           /\ Sound(d, s) => Safety(d, s) >= Safety(d, Plan[d].stop)
  BY PlanFact, NullAssumption DEF Safety, Sound, Gain, Directions

\* A sound stop is placed.
LEMMA Protects ==
    ASSUME LifeInv, row.status # "none", NEW s \in Int, Sound(row.dir, s),
           row' = [row EXCEPT !.stop = s]
    PROVE  LifeStep
  <1>1. row \in Rows /\ row.dir \in Directions
    BY StopFacts DEF LifeInv, StopInv
  <1>2. /\ row'.stop = s /\ row'.dir = row.dir /\ row'.status = row.status
        /\ row'.qty = row.qty
    BY <1>1 DEF Rows
  <1>3. /\ Safety(row.dir, s) \in Int
        /\ Safety(row.dir, s) >= Safety(row.dir, Plan[row.dir].stop)
    BY <1>1, SafetyFacts
  <1>4. Life!Protect
    BY <1>2, <1>3 DEF Life!Protect
  <1> QED
    BY <1>4 DEF Life!Next, LifeStep

LEMMA Stays ==
    ASSUME row' = row
    PROVE  LifeStep
  BY DEF LifeStep

LEMMA Shuts ==
    ASSUME LifeInv, row.status # "none",
           row'.status = "CLOSED", row'.stop = row.stop, row'.dir = row.dir, row'.qty = row.qty
    PROVE  LifeStep
  <1>1. CASE row.status = "OPEN"
    <2>1. Life!Close
      BY <1>1 DEF Life!Close
    <2> QED
      BY <2>1 DEF LifeStep, Life!Next
  <1>2. CASE row.status = "CLOSED"
    BY <1>2 DEF LifeStep
  <1> QED
    BY <1>1, <1>2, StopFacts DEF LifeInv, StopInv, Rows

LEMMA Shrinks ==
    ASSUME LifeInv, row.status # "none", NEW lots \in Nat, lots < row.qty,
           row' = [row EXCEPT !.qty = lots]
    PROVE  LifeStep
  <1>1. /\ row'.qty = lots /\ row'.stop = row.stop /\ row'.dir = row.dir
        /\ row'.status = row.status
    BY StopFacts DEF LifeInv, StopInv, Rows
  <1>2. Life!Shrink
    BY <1>1 DEF Life!Shrink
  <1> QED
    BY <1>2 DEF LifeStep, Life!Next

LEMMA LifeReads ==
    ASSUME LifeInv, NEW t \in Threads, ReadStep(t)
    PROVE  LifeStep
  <1>0. DeskInv /\ row \in Rows
    BY StopFacts DEF LifeInv, StopInv
  <1>1. CASE CloseRow(t)
    <2> DEFINE left == th[t].snap.qty - th[t].size
    <2>1. /\ th[t].snap \in Rows /\ th[t].snap.qty \in Nat
          /\ th[t].size <= th[t].snap.qty /\ th[t].size \in Nat
          /\ th[t].why = "PARTIAL" <=> th[t].size < th[t].snap.qty
          /\ t # Poller => th[t].why # "PARTIAL"
          /\ row.status # "none"
      BY <1>0, <1>1, ThreadFacts, AtWork DEF CloseRow, Shape, DeskInv, Rows
    <2>2. CASE left > 0
      <3>1. th[t].size < th[t].snap.qty
        BY <2>1, <2>2
      <3>2. t = Poller /\ th[t].why = "PARTIAL" /\ th[Poller].pc = "close"
        BY <1>1, <2>1, <3>1 DEF CloseRow
      <3>3. th[t].snap.qty = row.qty /\ th[t].size > 0
        BY <3>2 DEF SizeHeld, LifeInv
      <3>4. left \in Nat /\ left < row.qty
        BY <2>1, <3>1, <3>3
      <3> HIDE DEF left
      <3>5. row' = [row EXCEPT !.qty = left]
        BY <1>1, <2>2 DEF CloseRow, left
      <3> QED
        BY <2>1, <3>4, <3>5, Shrinks
    <2>3. CASE ~(left > 0)
      <3>1. row' = [row EXCEPT !.status = "CLOSED", !.why = th[t].why]
        BY <1>1, <2>3 DEF CloseRow
      <3>2. /\ row'.status = "CLOSED" /\ row'.stop = row.stop /\ row'.dir = row.dir
            /\ row'.qty = row.qty
        BY <1>0, <3>1 DEF Rows
      <3> QED
        BY <2>1, <3>2, Shuts
    <2> QED
      BY <2>2, <2>3
  <1>2. CASE ~CloseRow(t)
    <2>1. row' = row
      BY <1>2 DEF ReadStep, ReadRows, ReadNoRows, Unpriced, Priced, Book, tables
    <2> QED
      BY <2>1, Stays
  <1> QED
    BY <1>1, <1>2

LEMMA LifeOrders ==
    ASSUME LifeInv, NEW t \in Threads, OrderStep(t) \/ ReconcileStep(t)
    PROVE  LifeStep
  <1>0. DeskInv /\ row \in Rows /\ row.dir \in Directions /\ Plan[row.dir].stop \in Int
    BY StopFacts DEF LifeInv, StopInv
  <1>1. CASE PlaceOrder(t)
    <2>1. PICK d \in Directions, q \in Lots :
            /\ row'.status = "OPEN" /\ row'.dir = d /\ row'.qty = q
            /\ row'.stop \in {NULL, Plan[d].stop}
      BY <1>1 DEF PlaceOrder, Directions
    <2>2. q \in Nat /\ Plan[d].stop \in Int
      BY PlanFact, PriceAssumption
    <2>3. Safety(d, Plan[d].stop) \in Int /\ Safety(d, NULL) = NULL
      BY <2>2, SafetyFacts DEF Safety
    <2>4. Life!Open
      BY <1>1, <2>1, <2>2, <2>3 DEF Life!Open, PlaceOrder
    <2> QED
      BY <2>4 DEF LifeStep, Life!Next
  <1>2. CASE row' = row
    BY <1>2, Stays
  <1>3. CASE VerifyAttach(t) /\ row' # row
    <2>1. row' = [row EXCEPT !.stop = Plan[row.dir].stop] /\ row.status # "none"
      BY <1>3 DEF VerifyAttach, StopWritten
    <2> QED
      BY <1>0, <2>1, SoundPlan, Protects
  <1>4. CASE RepairWrite(t) /\ row' # row
    <2>1. /\ row' = [row EXCEPT !.stop = th[t].snap.stop] /\ row.status # "none"
          /\ th[t].pc = "restore"
      BY <1>4 DEF RepairWrite, StopWritten
    <2>2. th[t].snap.stop \in Int /\ Sound(row.dir, th[t].snap.stop)
      BY <1>0, <2>1, ThreadFacts DEF DeskInv, Shape, LifeInv, StopInv, Held, Placing
    <2> QED
      BY <2>1, <2>2, Protects
  <1> QED
    BY <1>1, <1>2, <1>3, <1>4
       DEF OrderStep, EntryFee, MarkOpen, VerifyStop, VerifyRecord,
           ReconcileStep, Adopt, RepairRead, RepairPlan, tables

LEMMA LifeManages ==
    ASSUME LifeInv, ManageStep
    PROVE  LifeStep
  <1>0. DeskInv /\ row \in Rows /\ row.qty \in Nat /\ StopInv
    BY StopFacts DEF LifeInv, StopInv, Rows
  <1>p. ASSUME th[Poller].pc \in {"apply", "modify"}, Action.kind = "MOVE_STOP",
               row' = [row EXCEPT !.stop = Action.stop]
        PROVE  LifeStep
    <2>1. Action.stop \in Int /\ Sound(row.dir, Action.stop)
      BY <1>0, <1>p, HeadAdvances
    <2>2. row.status # "none"
      BY <1>0, <1>p, AtWork, PollerIsThread
    <2> QED
      BY <1>p, <2>1, <2>2, Protects
  <1>1. CASE ModifyWrite
    <2>1. Action.kind = "MOVE_STOP"
      BY <1>0, <1>1, ActionFacts DEF ModifyWrite, DeskInv
    <2> QED
      BY <1>1, <1>p, <2>1 DEF ModifyWrite
  <1>2. CASE LiveModify
    <2>1. row' = row \/ row' = [row EXCEPT !.stop = Action.stop]
      BY <1>2 DEF LiveModify, StopWritten
    <2> QED
      BY <1>2, <1>p, <2>1, Stays DEF LiveModify
  <1>3. CASE LiveClose
    <2>1. th[Poller].pc = "apply" /\ row.status # "none" /\ Action.qty \in Nat
      BY <1>0, <1>3, AtWork, PollerIsThread, ActionFacts DEF LiveClose, DeskInv
    <2>2. CASE row' = row
      BY <2>2, Stays
    <2>3. CASE /\ Action.qty > 0 /\ Action.qty < row.qty
               /\ row' = [row EXCEPT !.qty = row.qty - Action.qty]
      <3>1. row.qty - Action.qty \in Nat /\ row.qty - Action.qty < row.qty
        BY <1>0, <2>1, <2>3
      <3> QED
        BY <2>1, <2>3, <3>1, Shrinks
    <2>4. CASE row' = [row EXCEPT !.status = "CLOSED", !.why = "MANUAL"]
      <3>1. /\ row'.status = "CLOSED" /\ row'.stop = row.stop /\ row'.dir = row.dir
            /\ row'.qty = row.qty
        BY <1>0, <2>4 DEF Rows
      <3> QED
        BY <2>1, <3>1, Shuts
    <2> QED
      BY <1>3, <2>2, <2>3, <2>4 DEF LiveClose
  <1>4. CASE ~ModifyWrite /\ ~LiveModify /\ ~LiveClose
    <2>1. row' = row
      BY <1>4 DEF ManageStep, LiveRead, Track, Decide, ActionFails, ModifyCheck, RecordStop,
                  CloseCheck, Flag, tables
    <2> QED
      BY <2>1, Stays
  <1> QED
    BY <1>1, <1>2, <1>3, <1>4

LEMMA LifeNext == LifeInv /\ [Next]_vars => LifeStep
  <1> SUFFICES ASSUME LifeInv, [Next]_vars PROVE LifeStep
    OBVIOUS
  <1>1. CASE \E t \in Threads : ReadStep(t) \/ OrderStep(t) \/ ReconcileStep(t)
    BY <1>1, LifeReads, LifeOrders
  <1>2. CASE ManageStep
    BY <1>2, LifeManages
  <1>3. CASE BrokerSettles
    <2>1. \E w : row' = [row EXCEPT !.status = "CLOSED", !.why = w]
      BY <1>3 DEF BrokerSettles
    <2>2. row'.status = "CLOSED" /\ row'.stop = row.stop /\ row'.dir = row.dir /\ row'.qty = row.qty
      BY <2>1, StopFacts DEF Rows, LifeInv, StopInv
    <2> QED
      BY <1>3, <2>2, Shuts DEF BrokerSettles
  <1>4. CASE PriceMoves \/ CandleOpens \/ Crash \/ (\E t \in Threads : Raises(t)) \/ UNCHANGED vars
    <2>1. row' = row
      BY <1>4 DEF PriceMoves, CandleOpens, Crash, Raises, vars, tables
    <2> QED
      BY <2>1, Stays
  <1> QED
    BY <1>1, <1>2, <1>3, <1>4 DEF Next, MarketStep

LEMMA LifeInvariant == Spec => []LifeInv
  <1>1. Init => LifeInv
    BY DeskStart, AdvStart, PollerIsThread DEF Init, LifeInv, StopInv, SizeHeld, Idle
  <1>2. LifeInv /\ [Next]_vars => LifeInv'
    BY DeskStep, AdvStep, SizeStep DEF LifeInv, StopInv
  <1> QED
    BY <1>1, <1>2, PTL DEF Spec

\* Over both brokers, a stop that the broker did not attach, the three writers of it,
\* stale reads, answers that never come, exceptions and crashes, a position is opened
\* once, its stop is never taken away and never worse than the one it was sized with,
\* its size only shrinks and once closed it stays closed: manager.py, executor.py,
\* reconciler.py and paper.py implement PositionLife, wherever the manager's levels
\* are set.
THEOREM PositionsKeepTheirLife == Spec => KeepsLife
  <1>1. Init => Life!Init
    <2> SUFFICES ASSUME Init PROVE Life!Init
      OBVIOUS
    <2>1. row.dir \in Directions /\ row.stop = 0 /\ row.status = "none" /\ row.qty = 0
      BY DEF Init, NoRow, Directions
    <2>2. Safety(row.dir, 0) \in Int /\ Safety(row.dir, Plan[row.dir].stop) \in Int
      BY <2>1, PlanFact, SafetyFacts
    <2> QED
      BY <2>1, <2>2 DEF Life!Init
  <1>2. LifeInv /\ [Next]_vars => [Life!Next]_<<row.status, Safety(row.dir, row.stop),
                                       Safety(row.dir, Plan[row.dir].stop), row.qty>>
    BY LifeNext DEF LifeStep
  <1> QED
    BY <1>1, <1>2, LifeInvariant, PTL DEF Spec, KeepsLife, Life!Spec, Life!life

----------------------------------------------------------------------------
(* A partial is sent once.                                                 *)

\* The poller does not lose a partial under way.
LEMMA CountedPart ==
    ASSUME NEW r, NEW s, NEW tr, NEW n, NEW f, Counted(r, tr, n, f),
           s.queue = r.queue,
           r.pc \in {"close", "book", "closed"} /\ r.queue # <<>> => s.pc \in {"close", "book", "closed"}
    PROVE  Counted(s, tr, n, f)
  BY DEF Counted, Sending

LEMMA CountedTables ==
    ASSUME DeskInv
    PROVE  /\ slices \in Nat /\ faults \in Nat /\ trade \in Trades
           /\ th \in [Threads -> ThreadRec]
           /\ Poller \in Threads /\ th[Poller] \in ThreadRec /\ Shape(Poller, th[Poller])
  BY StopFacts, LevelAssumption DEF DeskInv, Typed

LEMMA CountedReads ==
    ASSUME DeskInv, PartialsCounted, NEW t \in Threads, ReadStep(t)
    PROVE  PartialsCounted'
  <1>1. UNCHANGED <<trade, slices, faults>>
    BY DEF ReadStep, ReadRows, ReadNoRows, Unpriced, Priced, CloseRow, Book, tables, history
  <1>2. /\ th'[Poller].queue = th[Poller].queue
        /\ th[Poller].pc \in {"close", "book", "closed"} /\ th[Poller].queue # <<>>
               => th'[Poller].pc \in {"close", "book", "closed"}
    <2>1. CASE t # Poller
      BY <2>1, CountedTables, OneThread
    <2>2. CASE t = Poller
      <3>k. ASSUME th[Poller].pc = "price", Kept(Poller)
            PROVE  th'[Poller].queue = th[Poller].queue
        BY <3>k, CountedTables DEF Kept, ThreadRec
      <3>1. CASE ReadRows(Poller) \/ ReadNoRows(Poller)
        BY <3>1, CountedTables DEF ReadRows, ReadNoRows, To, ThreadRec
      <3>2. CASE Unpriced(Poller)
        BY <3>2, <3>k DEF Unpriced
      <3>3. CASE Priced(Poller)
        <4>1. CASE Kept(Poller)
          BY <3>3, <3>k, <4>1 DEF Priced
        <4>2. CASE ~Kept(Poller)
          <5>1. PICK w, z : th' = [th EXCEPT ![Poller].pc = "close", ![Poller].why = w,
                                             ![Poller].size = z]
            BY <3>3, <4>2 DEF Priced
          <5> QED
            BY <5>1, <3>3, CountedTables DEF Priced, ThreadRec
        <4> QED
          BY <4>1, <4>2
      <3>4. CASE CloseRow(Poller)
        BY <3>4, CountedTables DEF CloseRow, To, ThreadRec
      <3>5. CASE Book(Poller)
        BY <3>5, CountedTables DEF Book, ThreadRec, Idle
      <3> QED
        BY <2>2, <3>1, <3>2, <3>3, <3>4, <3>5 DEF ReadStep
    <2> QED
      BY <2>1, <2>2
  <1> QED
    BY <1>1, <1>2, CountedPart DEF PartialsCounted

LEMMA CountedOrders ==
    ASSUME DeskInv, PartialsCounted, NEW t \in Threads, OrderStep(t) \/ ReconcileStep(t)
    PROVE  PartialsCounted'
  <1>0. Counted(th[Poller], trade, slices, faults) /\ trade \in Trades
    BY CountedTables DEF PartialsCounted
  <1>1. t # Poller
    BY CountedTables
       DEF OrderStep, PlaceOrder, EntryFee, MarkOpen, VerifyStop, VerifyAttach, VerifyRecord,
           ReconcileStep, Adopt, RepairRead, RepairPlan, RepairWrite, Shape, StopWork
  <1>2. th'[Poller] = th[Poller] /\ faults' = faults
    BY <1>1, CountedTables, OneThread
       DEF OrderStep, PlaceOrder, EntryFee, MarkOpen, VerifyStop, VerifyAttach, VerifyRecord,
           ReconcileStep, Adopt, RepairRead, RepairPlan, RepairWrite
  <1>3. CASE PlaceOrder(t)
    <2>1. th[Poller] = Idle
      BY <1>3, CountedTables DEF PlaceOrder, DeskInv, Fresh, Shape
    <2>2. trade' = NoTrade /\ slices' = 0
      BY <1>3 DEF PlaceOrder
    <2>3. Items(th[Poller].queue) = {} /\ 0 <= faults /\ 0 <= faults + 1
      BY <2>1, NoItems, CountedTables DEF Idle
    <2> QED
      BY <1>2, <2>2, <2>3 DEF PartialsCounted, Counted, NoTrade
  <1>4. CASE ~PlaceOrder(t)
    <2>1. /\ slices' = slices
          /\ trade'.partial = trade.partial /\ (trade'.linked \/ trade'.linked = trade.linked)
      BY <1>0, <1>4
         DEF OrderStep, EntryFee, MarkOpen, VerifyStop, VerifyAttach, VerifyRecord,
             ReconcileStep, Adopt, RepairRead, RepairPlan, RepairWrite, history, tables, Trades
    <2> QED
      BY <1>0, <1>2, <2>1 DEF PartialsCounted, Counted
  <1> QED
    BY <1>3, <1>4

\* On to the next action: what is left of the plan holds no other partial once the
\* one at hand is recorded.
LEMMA CountedNext ==
    ASSUME StopInv, PartialsCounted, NextAction,
           th[Poller].pc \in {"apply", "record", "closed"},
           NEW tr, ~tr.linked => ~trade.linked /\ ~tr.partial,
           tr.partial => trade.partial \/ Action.kind = "PARTIAL_CLOSE",
           trade.partial => tr.partial,
           Sending(th[Poller]) /\ tr.linked => tr.partial
    PROVE  Counted(th'[Poller], tr, slices, faults)
  <1> DEFINE q == th[Poller].queue
  <1>1. /\ Poller \in Threads /\ th \in [Threads -> ThreadRec] /\ th[Poller] \in ThreadRec
        /\ q \in Seq(Acts) /\ q # <<>> /\ InOrder(q)
        /\ slices \in Nat /\ faults \in Nat
        /\ Counted(th[Poller], trade, slices, faults)
    BY CountedTables, ThreadFacts DEF StopInv, DeskInv, Shape, Advancing, Adv, PartialsCounted
  <1>2. /\ ~Sending(th'[Poller])
        /\ Items(th'[Poller].queue) \subseteq Items(Tail(q))
    <2>1. CASE Len(q) = 1
      <3>1. th'[Poller] = Idle
        BY <1>1, <2>1 DEF NextAction
      <3> QED
        BY <3>1, NoItems DEF Idle, Sending
    <2>2. CASE Len(q) # 1
      <3>1. th'[Poller].queue = Tail(q) /\ th'[Poller].pc = "apply"
        BY <1>1, <2>2 DEF NextAction, ThreadRec
      <3> QED
        BY <3>1 DEF Sending
    <2> QED
      BY <2>1, <2>2
  <1> HIDE DEF q
  <1>3. ASSUME tr.partial, NEW a \in Items(Tail(q)) PROVE a.kind # "PARTIAL_CLOSE"
    <2>1. a \in Items(q) /\ Before(Head(q), a)
      BY <1>1, RestOfPlan
    <2>2. CASE trade.partial
      BY <1>1, <2>1, <2>2 DEF Counted, q
    <2>3. CASE Head(q).kind = "PARTIAL_CLOSE"
      BY <2>1, <2>3 DEF Before
    <2> QED
      BY <1>3, <2>2, <2>3 DEF Action, q
  <1>4. ~tr.partial => slices <= faults
    <2>1. CASE ~tr.linked
      BY <1>1, <2>1 DEF Counted
    <2>2. CASE tr.linked /\ ~tr.partial
      BY <1>1, <2>2 DEF Counted
    <2> QED
      BY <2>1, <2>2
  <1> QED
    BY <1>1, <1>2, <1>3, <1>4 DEF Counted

\* A partial goes out: none was recorded, and none is under way.
LEMMA CountedSend ==
    ASSUME DeskInv, PartialsCounted, Sliced, th[Poller].pc = "apply",
           NEW r, r.pc \in {"close", "closed"}, r.queue = th[Poller].queue
    PROVE  Counted(r, trade, slices', faults)
  <1> DEFINE q == th[Poller].queue
  <1>1. /\ q \in Seq(Acts) /\ q # <<>> /\ Action = Head(q)
        /\ slices \in Nat /\ faults \in Nat
        /\ Counted(th[Poller], trade, slices, faults)
    BY CountedTables, ThreadFacts DEF DeskInv, Shape, PartialsCounted, Action
  <1>2. Head(q) \in Items(q)
    <2>1. q[1] = Head(q) /\ 1 \in 1 .. Len(q)
      BY <1>1, HeadTailProperties, EmptySeq
    <2> QED
      BY <2>1 DEF Items
  <1>3. ~Sending(th[Poller])
    BY DEF Sending
  <1>4. CASE Action.kind = "PARTIAL_CLOSE" /\ trade.linked
    <2>1. ~trade.partial
      BY <1>1, <1>2, <1>4 DEF Counted
    <2>2. slices <= faults
      BY <1>1, <1>3, <2>1 DEF Counted
    <2>3. Sending(r)
      BY <1>1, <1>4 DEF Sending
    <2>4. slices' <= faults + 1
      BY <1>1, <2>2 DEF Sliced
    <2> QED
      BY <1>4, <2>1, <2>3, <2>4 DEF Counted
  <1>5. CASE ~(Action.kind = "PARTIAL_CLOSE" /\ trade.linked)
    <2>1. slices' = slices
      BY <1>5 DEF Sliced
    <2> QED
      BY <1>1, <1>3, <2>1 DEF Counted
  <1> QED
    BY <1>4, <1>5

LEMMA CountedManages ==
    ASSUME StopInv, PartialsCounted, ManageStep
    PROVE  PartialsCounted'
  <1>0. /\ trade \in Trades /\ th \in [Threads -> ThreadRec] /\ Poller \in Threads
        /\ th[Poller] \in ThreadRec /\ Shape(Poller, th[Poller])
        /\ Counted(th[Poller], trade, slices, faults) /\ DeskInv
    BY CountedTables DEF PartialsCounted, StopInv
  <1>1. faults' = faults
    BY DEF ManageStep, LiveRead, Track, Decide, ActionFails, ModifyCheck, ModifyWrite,
           RecordStop, CloseCheck, Flag, LiveModify, LiveClose
  <1>i. Counted(Idle, trade, slices, faults) \/ Sending(th[Poller])
    <2>1. Idle.queue = <<>> /\ ~Sending(Idle)
      BY DEF Idle, Sending
    <2> QED
      BY <1>0, <2>1, NoItems DEF Counted
  <1>2. CASE LiveRead \/ ModifyCheck \/ ModifyWrite
    <2>1. trade' = trade /\ slices' = slices
      BY <1>2 DEF LiveRead, ModifyCheck, ModifyWrite, tables, history
    <2>2. /\ th'[Poller].queue = th[Poller].queue
          /\ th[Poller].pc \notin {"close", "book", "closed"}
      BY <1>0, <1>2 DEF LiveRead, ModifyCheck, ModifyWrite, To, ThreadRec
    <2> QED
      BY <1>0, <1>1, <2>1, <2>2, CountedPart DEF PartialsCounted
  <1>3. CASE Track \/ Decide
    <2>1. trade' = trade /\ slices' = slices /\ ~Sending(th[Poller])
      BY <1>3 DEF Track, Decide, tables, history, Sending
    <2>2. CASE Done(Poller)
      <3>1. th'[Poller] = Idle
        BY <1>0, <2>2 DEF Done
      <3> QED
        BY <1>1, <1>i, <2>1, <3>1 DEF PartialsCounted
    <2>3. CASE Track /\ ~Done(Poller)
      <3>1. th'[Poller].queue = th[Poller].queue /\ th[Poller].pc = "track"
        BY <1>0, <2>3 DEF Track, ThreadRec
      <3> QED
        BY <1>0, <1>1, <2>1, <3>1, CountedPart DEF PartialsCounted
    <2>4. CASE Decide /\ ~Done(Poller)
      <3> DEFINE p == th[Poller].seen
                 invalidated == /\ trade.linked /\ trade.stop # NULL
                                /\ Gain(p.dir, trade.stop, p.price) < 0
      <3>1. PICK aged \in BOOLEAN :
              th' = [th EXCEPT ![Poller].pc = "apply",
                        ![Poller].queue = PlanActions(p, trade, invalidated, aged)]
        BY <2>4 DEF Decide
      <3> DEFINE q == PlanActions(p, trade, invalidated, aged)
      <3>2. p \in Seen /\ invalidated \in BOOLEAN
        BY <1>0, <2>4 DEF Decide, Shape, Tracked, Trades
      <3> HIDE DEF p, invalidated
      <3>3. \A a \in Items(q) : a.kind = "PARTIAL_CLOSE" => ~(trade.linked /\ trade.partial)
        BY <1>0, <3>2, PlanInOrder
      <3> HIDE DEF q
      <3>4. th'[Poller].queue = q /\ th'[Poller].pc = "apply"
        BY <1>0, <3>1 DEF ThreadRec, q, p
      <3>5. ~Sending(th'[Poller])
        BY <3>4 DEF Sending
      <3> QED
        BY <1>0, <1>1, <2>1, <3>3, <3>4, <3>5 DEF PartialsCounted, Counted
    <2> QED
      BY <1>3, <2>2, <2>3, <2>4
  <1>4. CASE th[Poller].pc = "apply" /\ NextAction /\ trade' = trade /\ slices' = slices
    <2>1. ~Sending(th[Poller])
      BY <1>4 DEF Sending
    <2>2. ~trade.linked => ~trade.partial
      BY <1>0 DEF Counted
    <2> QED
      BY <1>1, <1>4, <2>1, <2>2, CountedNext DEF PartialsCounted
  <1>5. CASE ActionFails
    BY <1>4, <1>5 DEF ActionFails, tables, history
  <1>6. CASE RecordStop
    <2>1. th[Poller].pc = "record" /\ NextAction /\ slices' = slices
      BY <1>6 DEF RecordStop, history
    <2>2. trade'.linked = trade.linked /\ trade'.partial = trade.partial
      BY <1>0, <1>6 DEF RecordStop, Trades
    <2>3. ~Sending(th[Poller]) /\ (~trade.linked => ~trade.partial)
      BY <1>0, <2>1 DEF Sending, Counted
    <2> QED
      BY <1>1, <2>1, <2>2, <2>3, CountedNext DEF PartialsCounted
  <1>7. CASE Flag
    <2>1. th[Poller].pc = "closed" /\ NextAction /\ slices' = slices
      BY <1>7 DEF Flag, history
    <2>2. /\ trade'.linked = trade.linked
          /\ trade'.partial <=> trade.partial \/ (Action.kind = "PARTIAL_CLOSE" /\ trade.linked)
      BY <1>0, <1>7 DEF Flag, Trades
    <2>3. ~trade.linked => ~trade.partial
      BY <1>0 DEF Counted
    <2>4. Sending(th[Poller]) => Action.kind = "PARTIAL_CLOSE"
      BY DEF Sending, Action
    <2> QED
      BY <1>1, <2>1, <2>2, <2>3, <2>4, CountedNext DEF PartialsCounted
  <1>8. CASE CloseCheck \/ LiveClose
    <2>1. /\ th[Poller].pc = "apply" /\ Sliced /\ trade' = trade
          /\ th'[Poller].pc \in {"close", "closed"} /\ th'[Poller].queue = th[Poller].queue
      BY <1>0, <1>8 DEF CloseCheck, LiveClose, To, ThreadRec, tables
    <2> QED
      BY <1>0, <1>1, <2>1, CountedSend DEF PartialsCounted
  <1>9. CASE LiveModify
    <2>1. th[Poller].pc = "apply" /\ trade' = trade /\ slices' = slices
      BY <1>9 DEF LiveModify
    <2>2. CASE To(Poller, "record")
      <3>1. th'[Poller].queue = th[Poller].queue
        BY <1>0, <2>2 DEF To, ThreadRec
      <3> QED
        BY <1>0, <1>1, <2>1, <3>1, CountedPart DEF PartialsCounted
    <2> QED
      BY <1>4, <1>9, <2>1, <2>2 DEF LiveModify
  <1> QED
    BY <1>2, <1>3, <1>5, <1>6, <1>7, <1>8, <1>9 DEF ManageStep

LEMMA CountedStep == StopInv /\ PartialsCounted /\ [Next]_vars => PartialsCounted'
  <1> SUFFICES ASSUME StopInv, PartialsCounted, [Next]_vars PROVE PartialsCounted'
    OBVIOUS
  <1>0. DeskInv /\ th \in [Threads -> ThreadRec] /\ slices \in Nat /\ faults \in Nat
    BY CountedTables DEF StopInv
  <1>1. ASSUME NEW t \in Threads, ReadStep(t) \/ OrderStep(t) \/ ReconcileStep(t)
        PROVE  PartialsCounted'
    BY <1>0, <1>1, CountedReads, CountedOrders
  <1>2. CASE ManageStep
    BY <1>2, CountedManages
  <1>3. CASE MarketStep \/ UNCHANGED vars
    <2>1. UNCHANGED <<th, trade, slices, faults>>
      BY <1>3 DEF MarketStep, PriceMoves, CandleOpens, BrokerSettles, tables, history, vars
    <2> QED
      BY <2>1 DEF PartialsCounted
  <1>4. CASE Crash \/ \E t \in Threads : Raises(t)
    <2>1. /\ th'[Poller] = th[Poller] \/ th'[Poller] = Idle
          /\ trade' = trade /\ slices' = slices /\ faults' = faults + 1
      BY <1>0, <1>4, PollerIsThread DEF Crash, Raises, Done, tables, history
    <2>2. Idle.queue = <<>>
      BY DEF Idle
    <2>3. slices <= faults' /\ slices <= faults' + 1
      BY <1>0, <2>1 DEF PartialsCounted, Counted
    <2>4. /\ ~trade.linked => slices = 0 /\ ~trade.partial
          /\ trade.partial => \A a \in Items(th[Poller].queue) : a.kind # "PARTIAL_CLOSE"
      BY DEF PartialsCounted, Counted
    <2> QED
      BY <2>1, <2>2, <2>3, <2>4, NoItems DEF PartialsCounted, Counted
  <1> QED
    BY <1>1, <1>2, <1>3, <1>4 DEF Next

\* The manager sends a trade's partial once for a trade that has its row, also when the
\* broker's answer never came; only a crash, or an exception that ends the poll, between
\* the send and mark_partial_taken makes it send one more.
THEOREM OnePartial == Spec => []PartialOnce
  <1>1. Init => PartialsCounted
    <2>1. Idle.queue = <<>> /\ ~NoTrade.linked /\ ~NoTrade.partial
      BY DEF Idle, NoTrade
    <2> QED
      BY <2>1, PollerIsThread, NoItems DEF Init, PartialsCounted, Counted
  <1>2. DeskInv /\ PartialsCounted => PartialOnce
    BY CountedTables DEF PartialsCounted, Counted, PartialOnce
  <1> QED
    BY <1>1, <1>2, CountedStep, LifeInvariant, PTL DEF Spec, LifeInv, StopInv

----------------------------------------------------------------------------
(* The ledger agrees with the rows.                                        *)

Busy(r) == r.pc \in {"book", "fee"}

\* No thread begins or ends a booking, and what is left of the row stays.
LEMMA LedgerStill ==
    ASSUME DeskInv, Ledger,
           \A u \in Threads : Busy(th[u]) \/ Busy(th'[u]) =>
               th'[u].pc = th[u].pc /\ th'[u].why = th[u].why /\ th'[u].size = th[u].size,
           row'.qty = row.qty, row'.status = row.status,
           UNCHANGED <<account, due, mode, faults, stale>>
    PROVE  Ledger'
  <1>1. \A u \in Threads :
          /\ Partly(u)' <=> Partly(u)
          /\ Wholly(u)' <=> Wholly(u)
          /\ Paying(u)' <=> Paying(u)
          /\ Partly(u) \/ Wholly(u) \/ Paying(u) => th'[u].size = th[u].size
    BY DEF Busy, Partly, Wholly, Paying
  <1>2. Whole' = Whole
    <2>1. (\E u \in Threads : Wholly(u)') <=> (\E u \in Threads : Wholly(u))
      BY <1>1
    <2> QED
      BY <2>1 DEF Whole
  <1>3. Fees' = Fees
    <2>1. (\E u \in Threads : Paying(u)') <=> (\E u \in Threads : Paying(u))
      BY <1>1
    <2> QED
      BY <2>1 DEF Fees
  <1>4. Parts' = Parts
    BY <1>1, PollerIsThread DEF Parts
  <1> SUFFICES ASSUME mode = "paper", ~stale, faults = 0
               PROVE  /\ \A t, u \in Threads : Wholly(t)' /\ Wholly(u)' => t = u
                      /\ \A t, u \in Threads : Paying(t)' /\ Paying(u)' => t = u
                      /\ \A t \in Threads : Wholly(t)' =>
                             row'.status = "CLOSED" /\ th'[t].size = row'.qty
                      /\ \A t \in Threads : Paying(t)' => th'[t].size = due'.fees - due'.lots
                      /\ account'.lots + Parts' + Whole' = due'.lots
                      /\ account'.fees + Parts' + Whole' + Fees' = due'.fees
    BY DEF Ledger
  <1>5. /\ \A t, u \in Threads : Wholly(t) /\ Wholly(u) => t = u
        /\ \A t, u \in Threads : Paying(t) /\ Paying(u) => t = u
        /\ \A t \in Threads : Wholly(t) => row.status = "CLOSED" /\ th[t].size = row.qty
        /\ \A t \in Threads : Paying(t) => th[t].size = due.fees - due.lots
        /\ account.lots + Parts + Whole = due.lots
        /\ account.fees + Parts + Whole + Fees = due.fees
    BY DEF Ledger
  <1> HIDE DEF Ledger
  <1>6. \A t, u \in Threads : Wholly(t)' /\ Wholly(u)' => t = u
    BY <1>1, <1>5
  <1>7. \A t, u \in Threads : Paying(t)' /\ Paying(u)' => t = u
    BY <1>1, <1>5
  <1>8. \A t \in Threads : Wholly(t)' => row'.status = "CLOSED" /\ th'[t].size = row'.qty
    BY <1>1, <1>5
  <1>9. \A t \in Threads : Paying(t)' => th'[t].size = due'.fees - due'.lots
    BY <1>1, <1>5
  <1> QED
    BY <1>2, <1>3, <1>4, <1>5, <1>6, <1>7, <1>8, <1>9

\* What the ledger says when it has anything to say.
LEMMA LedgerFacts ==
    ASSUME DeskInv, Ledger, mode = "paper", ~stale, faults = 0
    PROVE  /\ \A t, u \in Threads : Wholly(t) /\ Wholly(u) => t = u
           /\ \A t, u \in Threads : Paying(t) /\ Paying(u) => t = u
           /\ \A t \in Threads : Wholly(t) => row.status = "CLOSED" /\ th[t].size = row.qty
           /\ \A t \in Threads : Paying(t) => th[t].size = due.fees - due.lots
           /\ account.lots + Parts + Whole = due.lots
           /\ account.fees + Parts + Whole + Fees = due.fees
           /\ account.lots \in Nat /\ account.fees \in Nat /\ due.lots \in Int /\ due.fees \in Int
           /\ Parts \in Nat /\ Whole \in Nat /\ Fees \in Int
  <1>1. /\ account.lots \in Nat /\ account.fees \in Nat /\ due.lots \in Int /\ due.fees \in Int
        /\ row.qty \in Nat /\ th[Poller].size \in Nat
    BY StopFacts, ThreadFacts DEF DeskInv, Typed, Rows
  <1>2. Parts \in Nat /\ Whole \in Nat /\ Fees \in Int
    BY <1>1 DEF Parts, Whole, Fees
  <1> QED
    BY <1>1, <1>2 DEF Ledger

\* A thread closes the row it has read, or a part of it.
LEMMA LedgerClose ==
    ASSUME DeskInv, SizeHeld, Ledger, NEW t \in Threads, CloseRow(t)
    PROVE  Ledger'
  <1> SUFFICES ASSUME mode = "paper", ~stale', faults = 0 PROVE Ledger'
    BY DEF Ledger, CloseRow
  <1> DEFINE s == th[t].snap
             left == s.qty - th[t].size
             gone == IF row.status # "OPEN" THEN 0 ELSE row.qty - left
             busy == [th[t] EXCEPT !.pc = "book"]
  <1>1. /\ th \in [Threads -> ThreadRec] /\ th[t] \in ThreadRec /\ row \in Rows /\ row.qty \in Nat
        /\ due \in [lots : Int, fees : Int] /\ Poller \in Threads
        /\ s.qty \in Nat /\ th[t].size \in Nat /\ th[t].size <= s.qty
        /\ th[t].why = "PARTIAL" <=> th[t].size < s.qty
        /\ t # Poller => th[t].why # "PARTIAL"
        /\ th[t].pc = "close"
    BY ThreadFacts, StopFacts DEF DeskInv, Typed, Rows, CloseRow, Shape
  <1>2. /\ ~stale /\ row.status = "OPEN" /\ row.qty = s.qty
        /\ UNCHANGED <<mode, account, faults>>
        /\ row' = IF left > 0 THEN [row EXCEPT !.qty = left]
                  ELSE [row EXCEPT !.status = "CLOSED", !.why = th[t].why]
        /\ due' = [due EXCEPT !.lots = due.lots + gone, !.fees = due.fees + gone]
        /\ th' = [th EXCEPT ![t] = busy]
    BY DEF CloseRow, To
  <1>3. left = s.qty - th[t].size /\ left \in Nat /\ gone = th[t].size
    BY <1>1, <1>2
  <1> HIDE DEF s, left, gone
  <1>4. due'.lots = due.lots + th[t].size /\ due'.fees = due.fees + th[t].size
    BY <1>1, <1>2, <1>3
  <1>5. /\ th'[t].pc = "book" /\ th'[t].why = th[t].why /\ th'[t].size = th[t].size
        /\ \A u \in Threads \ {t} : th'[u] = th[u]
    BY <1>1, <1>2 DEF ThreadRec
  <1>l. /\ \A u, v \in Threads : Paying(u) /\ Paying(v) => u = v
        /\ \A u \in Threads : Wholly(u) => row.status = "CLOSED"
        /\ \A u \in Threads : Paying(u) => th[u].size = due.fees - due.lots
        /\ account.lots + Parts + Whole = due.lots
        /\ account.fees + Parts + Whole + Fees = due.fees
        /\ account.lots \in Nat /\ account.fees \in Nat /\ due.lots \in Int /\ due.fees \in Int
        /\ Fees \in Int
    BY <1>2, LedgerFacts
  <1>6. /\ \A u \in Threads : ~Wholly(u)
        /\ ~Partly(t) /\ ~Paying(t)
    BY <1>1, <1>2, <1>l DEF Partly, Paying
  <1>7. Whole = 0
    BY <1>6 DEF Whole
  <1>8. /\ \A u \in Threads : Paying(u)' <=> Paying(u)
        /\ \A u \in Threads : Paying(u) => th'[u].size = th[u].size
    BY <1>5, <1>6 DEF Paying
  <1>9. due'.fees - due'.lots = due.fees - due.lots
    BY <1>1, <1>4, <1>l
  <1>10. Fees' = Fees
    <2>1. (\E u \in Threads : Paying(u)') <=> (\E u \in Threads : Paying(u))
      BY <1>8
    <2> QED
      BY <1>9, <2>1 DEF Fees
  <1>11. /\ \A u, v \in Threads : Paying(u)' /\ Paying(v)' => u = v
         /\ \A u \in Threads : Paying(u)' => th'[u].size = due'.fees - due'.lots
    BY <1>8, <1>9, <1>l
  <1>12. /\ Parts' + Whole' = th[t].size + Parts
         /\ \A u, v \in Threads : Wholly(u)' /\ Wholly(v)' => u = v
         /\ \A u \in Threads : Wholly(u)' => row'.status = "CLOSED" /\ th'[u].size = row'.qty
    <2>1. CASE th[t].why = "PARTIAL"
      <3>1. t = Poller /\ Parts = 0
        BY <1>1, <1>6, <2>1 DEF Parts
      <3>2. \A u \in Threads : ~Wholly(u)'
        BY <1>5, <1>6, <2>1 DEF Wholly
      <3>3. Whole' = 0
        BY <3>2 DEF Whole
      <3>4. Parts' = th[t].size
        BY <1>5, <2>1, <3>1 DEF Parts, Partly
      <3> QED
        BY <1>1, <3>1, <3>2, <3>3, <3>4
    <2>2. CASE th[t].why # "PARTIAL"
      <3>1. th[t].size = s.qty /\ ~(left > 0)
        BY <1>1, <1>3, <2>2
      <3>2. row'.status = "CLOSED" /\ row'.qty = th[t].size
        BY <1>1, <1>2, <3>1 DEF Rows
      <3>3. Wholly(t)' /\ \A u \in Threads : Wholly(u)' => u = t
        BY <1>5, <1>6, <2>2 DEF Wholly
      <3>4. Whole' = th[t].size
        BY <3>2, <3>3 DEF Whole
      <3>5. Parts' = Parts /\ Parts \in Nat
        <4>1. Partly(Poller)' <=> Partly(Poller)
          BY <1>1, <1>5, <1>6, <2>2 DEF Partly
        <4>2. Partly(Poller) => th'[Poller].size = th[Poller].size
          BY <1>1, <1>5
        <4>3. th[Poller].size \in Nat
          BY <1>1 DEF ThreadRec
        <4> QED
          BY <4>1, <4>2, <4>3 DEF Parts
      <3> QED
        BY <1>1, <1>5, <3>2, <3>3, <3>4, <3>5
    <2> QED
      BY <2>1, <2>2
  <1>13. Parts \in Nat /\ Parts' \in Nat /\ Whole' \in Nat
    <2>1. th[Poller].size \in Nat /\ th'[Poller].size \in Nat /\ row'.qty \in Nat
      <3>1. th'[Poller].size = th[Poller].size /\ th[Poller].size \in Nat
        BY <1>1, <1>5 DEF ThreadRec
      <3>2. row'.qty = left \/ row'.qty = row.qty
        BY <1>1, <1>2 DEF Rows
      <3> QED
        BY <1>1, <1>3, <3>1, <3>2
    <2> QED
      BY <2>1 DEF Parts, Whole
  <1>14. account'.lots + Parts' + Whole' = due'.lots
    <2>1. account'.lots = account.lots /\ account.lots + Parts = due.lots
      BY <1>2, <1>7, <1>13, <1>l
    <2> QED
      BY <1>1, <1>4, <1>12, <1>13, <1>l, <2>1
  <1>15. account'.fees + Parts' + Whole' + Fees' = due'.fees
    BY <1>1, <1>2, <1>4, <1>7, <1>10, <1>12, <1>13, <1>l
  <1> QED
    BY <1>11, <1>12, <1>14, <1>15 DEF Ledger

\* The result of a close is booked.
LEMMA LedgerBook ==
    ASSUME DeskInv, Ledger, NEW t \in Threads, Book(t)
    PROVE  Ledger'
  <1> SUFFICES ASSUME mode = "paper", ~stale, faults = 0 PROVE Ledger'
    BY DEF Ledger, Book, history
  <1>1. /\ th \in [Threads -> ThreadRec] /\ th[t] \in ThreadRec /\ Poller \in Threads
        /\ th[t].size \in Nat /\ th[t].pc = "book"
        /\ t # Poller => th[t].why # "PARTIAL"
    BY ThreadFacts, StopFacts DEF DeskInv, Typed, Book, Shape
  <1>2. /\ account'.lots = account.lots + th[t].size /\ account'.fees = account.fees + th[t].size
        /\ UNCHANGED <<mode, row, faults, due, stale>>
    BY DEF Book, history
  <1>3. \A u \in Threads \ {t} : th'[u] = th[u]
    BY OneThread DEF ReadStep
  <1>4. th'[t].pc \notin {"book", "fee"}
    BY <1>1 DEF Book, ThreadRec, Idle
  <1>l. /\ \A u, v \in Threads : Wholly(u) /\ Wholly(v) => u = v
        /\ \A u, v \in Threads : Paying(u) /\ Paying(v) => u = v
        /\ \A u \in Threads : Wholly(u) => row.status = "CLOSED" /\ th[u].size = row.qty
        /\ \A u \in Threads : Paying(u) => th[u].size = due.fees - due.lots
        /\ account.lots + Parts + Whole = due.lots
        /\ account.fees + Parts + Whole + Fees = due.fees
        /\ account.lots \in Nat /\ account.fees \in Nat /\ due.lots \in Int /\ due.fees \in Int
        /\ Parts \in Nat /\ Whole \in Nat /\ Fees \in Int
    BY LedgerFacts
  <1>5. /\ \A u \in Threads : Paying(u)' <=> Paying(u)
        /\ \A u \in Threads : Paying(u) => th'[u].size = th[u].size
        /\ \A u \in Threads : Wholly(u)' <=> Wholly(u) /\ u # t
        /\ \A u \in Threads \ {t} : th'[u].size = th[u].size
    BY <1>1, <1>3, <1>4 DEF Paying, Wholly
  <1>6. Fees' = Fees
    <2>1. (\E u \in Threads : Paying(u)') <=> (\E u \in Threads : Paying(u))
      BY <1>5
    <2> QED
      BY <1>2, <2>1 DEF Fees
  <1>7. Parts' + Whole' + th[t].size = Parts + Whole
    <2>1. CASE th[t].why = "PARTIAL"
      <3>1. t = Poller /\ Parts = th[t].size
        BY <1>1, <2>1 DEF Parts, Partly
      <3>2. Parts' = 0
        BY <1>4, <3>1 DEF Parts, Partly
      <3>3. \A u \in Threads : Wholly(u)' <=> Wholly(u)
        BY <1>5, <2>1 DEF Wholly
      <3>4. Whole' = Whole
        <4>1. (\E u \in Threads : Wholly(u)') <=> (\E u \in Threads : Wholly(u))
          BY <3>3
        <4> QED
          BY <1>2, <4>1 DEF Whole
      <3> QED
        BY <1>1, <1>l, <3>1, <3>2, <3>4
    <2>2. CASE th[t].why # "PARTIAL"
      <3>1. Wholly(t) /\ Whole = th[t].size
        BY <1>1, <1>l, <2>2 DEF Wholly, Whole
      <3>2. \A u \in Threads : ~Wholly(u)'
        BY <1>5, <1>l, <3>1
      <3>3. Whole' = 0
        BY <3>2 DEF Whole
      <3>4. Parts' = Parts
        <4>1. (Partly(Poller)' <=> Partly(Poller)) /\ (Partly(Poller) => Poller # t)
          BY <1>1, <1>3, <1>4, <2>2 DEF Partly
        <4>2. Partly(Poller) => th'[Poller].size = th[Poller].size
          BY <1>1, <1>3, <4>1
        <4> QED
          BY <4>1, <4>2 DEF Parts
      <3> QED
        BY <1>1, <1>l, <3>1, <3>3, <3>4
    <2> QED
      BY <2>1, <2>2
  <1>8. Parts' \in Nat /\ Whole' \in Nat
    <2>1. th'[Poller].size \in Nat /\ row'.qty \in Nat
      BY <1>1, ReadSteps DEF ReadStep, DeskInv, Typed, ThreadRec, Rows
    <2> QED
      BY <2>1 DEF Parts, Whole
  <1>9. account'.lots + Parts' + Whole' = due'.lots
    <2>1. due'.lots = due.lots
      BY <1>2
    <2> QED
      BY <1>1, <1>2, <1>7, <1>8, <1>l, <2>1
  <1>10. account'.fees + Parts' + Whole' + Fees' = due'.fees
    <2>1. due'.fees = due.fees /\ account'.fees = account.fees + th[t].size
      BY <1>2
    <2>2. account.fees + (Parts' + Whole' + th[t].size) + Fees = due.fees
      BY <1>7, <1>l
    <2>3. (account.fees + th[t].size) + Parts' + Whole' + Fees = due.fees
      BY <1>1, <1>8, <1>l, <2>2
    <2> QED
      BY <1>6, <2>1, <2>3
  <1>11. /\ \A u, v \in Threads : Paying(u)' /\ Paying(v)' => u = v
         /\ \A u, v \in Threads : Wholly(u)' /\ Wholly(v)' => u = v
         /\ \A u \in Threads : Wholly(u)' => row'.status = "CLOSED" /\ th'[u].size = row'.qty
         /\ \A u \in Threads : Paying(u)' => th'[u].size = due'.fees - due'.lots
    BY <1>2, <1>5, <1>l
  <1> QED
    BY <1>9, <1>10, <1>11 DEF Ledger

\* The order opens the row and owes its entry fee, which is then paid.
LEMMA LedgerOrders ==
    ASSUME DeskInv, Ledger, NEW t \in Threads, OrderStep(t) \/ ReconcileStep(t)
    PROVE  Ledger'
  <1> SUFFICES ASSUME mode = "paper", ~stale, faults = 0 PROVE Ledger'
    BY DEF Ledger, OrderStep, PlaceOrder, EntryFee, MarkOpen, VerifyStop, VerifyAttach,
           VerifyRecord, ReconcileStep, Adopt, RepairRead, RepairPlan, RepairWrite, history
  <1>0. /\ th \in [Threads -> ThreadRec] /\ th[t] \in ThreadRec /\ Poller \in Threads
        /\ th[t].size \in Nat
    BY ThreadFacts, StopFacts DEF DeskInv, Typed
  <1>1. /\ UNCHANGED <<mode, faults, stale>>
        /\ \A u \in Threads \ {t} : th'[u] = th[u]
    BY OneThread DEF OrderStep, PlaceOrder, EntryFee, MarkOpen, VerifyStop, VerifyAttach,
           VerifyRecord, ReconcileStep, Adopt, RepairRead, RepairPlan, RepairWrite, history
  <1>l. /\ \A u, v \in Threads : Wholly(u) /\ Wholly(v) => u = v
        /\ \A u, v \in Threads : Paying(u) /\ Paying(v) => u = v
        /\ \A u \in Threads : Wholly(u) => row.status = "CLOSED" /\ th[u].size = row.qty
        /\ \A u \in Threads : Paying(u) => th[u].size = due.fees - due.lots
        /\ account.lots + Parts + Whole = due.lots
        /\ account.fees + Parts + Whole + Fees = due.fees
        /\ account.lots \in Nat /\ account.fees \in Nat /\ due.lots \in Int /\ due.fees \in Int
        /\ Parts \in Nat /\ Whole \in Nat /\ Fees \in Int
    BY LedgerFacts
  <1>2. CASE PlaceOrder(t)
    <2>1. due = NoMoney /\ \A u \in Threads : th[u].pc = "idle"
      BY <1>2 DEF PlaceOrder, DeskInv, Fresh
    <2>2. Parts = 0 /\ Whole = 0 /\ Fees = 0
      BY <1>0, <2>1 DEF Parts, Whole, Fees, Partly, Wholly, Paying
    <2>3. account.lots = 0 /\ account.fees = 0
      BY <1>l, <2>1, <2>2 DEF NoMoney
    <2>4. PICK q \in Lots :
            /\ th' = [th EXCEPT ![t].pc = "fee", ![t].snap = row', ![t].size = q]
            /\ due' = [due EXCEPT !.fees = due.fees + q]
      BY <1>2 DEF PlaceOrder
    <2>5. q \in Nat /\ due'.lots = 0 /\ due'.fees = q /\ account' = account
      BY <1>2, <2>1, <2>4, PriceAssumption DEF NoMoney, PlaceOrder
    <2>6. th'[t].pc = "fee" /\ th'[t].size = q /\ \A u \in Threads \ {t} : th'[u].pc = "idle"
      BY <1>0, <1>1, <2>1, <2>4 DEF ThreadRec
    <2>7. /\ \A u \in Threads : ~Wholly(u)' /\ (Paying(u)' <=> u = t)
          /\ ~Partly(Poller)'
      BY <1>0, <2>6 DEF Wholly, Paying, Partly
    <2>8. Parts' = 0 /\ Whole' = 0 /\ Fees' = q
      BY <2>5, <2>7 DEF Parts, Whole, Fees
    <2>9. /\ account'.lots + Parts' + Whole' = due'.lots
          /\ account'.fees + Parts' + Whole' + Fees' = due'.fees
          /\ due'.fees - due'.lots = q
      BY <2>3, <2>5, <2>8
    <2> QED
      BY <2>6, <2>7, <2>9 DEF Ledger
  <1>3. CASE EntryFee(t)
    <2>1. /\ th[t].pc = "fee" /\ account'.fees = account.fees + th[t].size
          /\ account'.lots = account.lots /\ UNCHANGED <<row, due>>
      BY <1>3 DEF EntryFee, history, DeskInv, Typed
    <2>2. th'[t].pc = "fill"
      BY <1>0, <1>3 DEF EntryFee, To, ThreadRec
    <2>3. Paying(t) /\ Fees = th[t].size
      BY <1>l, <2>1 DEF Paying, Fees
    <2>4. \A u \in Threads : ~Paying(u)'
      <3>1. ASSUME NEW u \in Threads, u # t PROVE ~Paying(u)'
        <4>1. ~Paying(u)
          BY <1>l, <2>3, <3>1
        <4> QED
          BY <1>1, <3>1, <4>1 DEF Paying
      <3> QED
        BY <2>2, <3>1 DEF Paying
    <2>5. /\ \A u \in Threads : Wholly(u)' <=> Wholly(u)
          /\ \A u \in Threads : Wholly(u) => th'[u].size = th[u].size
          /\ Partly(Poller)' <=> Partly(Poller)
          /\ Partly(Poller) => th'[Poller].size = th[Poller].size
      BY <1>0, <1>1, <2>1, <2>2 DEF Wholly, Partly
    <2>6. Fees' = 0 /\ Parts' = Parts
      BY <2>4, <2>5 DEF Fees, Parts
    <2>7. Whole' = Whole
      <3>1. (\E u \in Threads : Wholly(u)') <=> (\E u \in Threads : Wholly(u))
        BY <2>5
      <3> QED
        BY <2>1, <3>1 DEF Whole
    <2>8. account'.lots + Parts' + Whole' = due'.lots
      BY <1>l, <2>1, <2>6, <2>7
    <2>9. account'.fees + Parts' + Whole' + Fees' = due'.fees
      BY <1>0, <1>l, <2>1, <2>3, <2>6, <2>7
    <2>10. /\ \A u, v \in Threads : Wholly(u)' /\ Wholly(v)' => u = v
           /\ \A u \in Threads : Wholly(u)' => row'.status = "CLOSED" /\ th'[u].size = row'.qty
      BY <1>l, <2>1, <2>5
    <2> QED
      BY <2>4, <2>8, <2>9, <2>10 DEF Ledger
  <1>4. CASE ~PlaceOrder(t) /\ ~EntryFee(t)
    <2>0. row \in Rows
      BY StopFacts
    <2>1. /\ row'.qty = row.qty /\ row'.status = row.status
          /\ UNCHANGED <<account, due>>
      BY <1>4, <2>0
         DEF OrderStep, MarkOpen, VerifyStop, VerifyAttach, VerifyRecord, StopWritten, Rows,
             ReconcileStep, Adopt, RepairRead, RepairPlan, RepairWrite, history, tables
    <2>2. th'[t] = th[t] \/ (~Busy(th[t]) /\ ~Busy(th'[t]))
      <3>1. CASE MarkOpen(t) \/ VerifyStop(t) \/ VerifyAttach(t) \/ VerifyRecord(t)
        BY <1>0, <3>1 DEF MarkOpen, VerifyStop, VerifyAttach, VerifyRecord, To, Done, Idle,
                          Busy, ThreadRec
      <3>2. CASE Adopt(t) \/ RepairRead(t) \/ RepairWrite(t)
        BY <1>0, <3>2 DEF Adopt, RepairRead, RepairWrite, Done, Idle, Busy, ThreadRec
      <3>3. CASE RepairPlan(t)
        <4>1. PICK s : th' = [th EXCEPT ![t].pc = "restore", ![t].snap = s] \/ Done(t)
          BY <3>3 DEF RepairPlan
        <4>2. th'[t].pc \in {"restore", "idle"}
          BY <1>0, <4>1 DEF Done, Idle, ThreadRec
        <4> QED
          BY <3>3, <4>2 DEF RepairPlan, Busy
      <3> QED
        BY <1>4, <3>1, <3>2, <3>3 DEF OrderStep, ReconcileStep
    <2> QED
      BY <1>1, <2>1, <2>2, LedgerStill
  <1> QED
    BY <1>2, <1>3, <1>4

LEMMA LedgerReads ==
    ASSUME DeskInv, SizeHeld, Ledger, NEW t \in Threads, ReadStep(t)
    PROVE  Ledger'
  <1>0. th \in [Threads -> ThreadRec] /\ th[t] \in ThreadRec
    BY ThreadFacts DEF DeskInv, Typed
  <1>1. CASE CloseRow(t)
    BY <1>1, LedgerClose
  <1>2. CASE Book(t)
    BY <1>2, LedgerBook
  <1>3. CASE ReadRows(t) \/ ReadNoRows(t) \/ Unpriced(t) \/ Priced(t)
    <2>1. UNCHANGED <<row, account, due, mode, faults, stale>>
      BY <1>3 DEF ReadRows, ReadNoRows, Unpriced, Priced, tables, history
    <2>2. \A u \in Threads \ {t} : th'[u] = th[u]
      BY OneThread
    <2>3. ~Busy(th[t])
      BY <1>3 DEF ReadRows, ReadNoRows, Unpriced, Priced, Busy
    <2>k. ASSUME Kept(t) PROVE ~Busy(th'[t])
      BY <1>0, <2>k DEF Kept, Busy, ThreadRec, Idle
    <2>4. ~Busy(th'[t])
      <3>1. CASE ReadRows(t) \/ ReadNoRows(t)
        BY <1>0, <3>1 DEF ReadRows, ReadNoRows, To, Busy, ThreadRec
      <3>2. CASE Unpriced(t)
        BY <2>k, <3>2 DEF Unpriced
      <3>3. CASE Priced(t) /\ ~Kept(t)
        <4>1. \E w, z : th' = [th EXCEPT ![t].pc = "close", ![t].why = w, ![t].size = z]
          BY <3>3 DEF Priced
        <4> QED
          BY <1>0, <4>1 DEF Busy, ThreadRec
      <3> QED
        BY <1>3, <2>k, <3>1, <3>2, <3>3
    <2> QED
      BY <2>1, <2>2, <2>3, <2>4, LedgerStill
  <1> QED
    BY <1>1, <1>2, <1>3 DEF ReadStep

LEMMA LedgerManages ==
    ASSUME DeskInv, Ledger, ManageStep
    PROVE  Ledger'
  <1> SUFFICES ASSUME mode = "paper" PROVE Ledger'
    BY DEF Ledger, ManageStep, LiveRead, Track, Decide, ActionFails, ModifyCheck, ModifyWrite,
           RecordStop, CloseCheck, Flag, LiveModify, LiveClose
  <1>0. /\ th \in [Threads -> ThreadRec] /\ Poller \in Threads /\ th[Poller] \in ThreadRec
        /\ row \in Rows
    BY StopFacts DEF DeskInv, Typed
  <1>1. /\ UNCHANGED <<account, due, mode, faults, stale>>
        /\ row'.qty = row.qty /\ row'.status = row.status
    BY <1>0 DEF ManageStep, LiveRead, Track, Decide, ActionFails, ModifyCheck, ModifyWrite,
                RecordStop, CloseCheck, Flag, LiveModify, LiveClose, tables, history, Rows
  <1>n. ASSUME NextAction
        PROVE  ~Busy(th'[Poller]) /\ \A u \in Threads \ {Poller} : th'[u] = th[u]
    BY <1>0, <1>n DEF NextAction, Busy, Idle, ThreadRec
  <1>2. ~Busy(th[Poller])
    BY DEF ManageStep, LiveRead, Track, Decide, ActionFails, ModifyCheck, ModifyWrite,
           RecordStop, CloseCheck, Flag, LiveModify, LiveClose, Busy
  <1>3. ~Busy(th'[Poller]) /\ \A u \in Threads \ {Poller} : th'[u] = th[u]
    <2>1. CASE NextAction
      BY <1>n, <2>1
    <2>2. CASE LiveRead \/ Track \/ Decide
      <3>1. CASE LiveRead
        BY <1>0, <3>1 DEF LiveRead, Busy, ThreadRec
      <3>2. CASE Done(Poller)
        BY <1>0, <3>2 DEF Done, Idle, Busy
      <3>3. CASE Track /\ ~Done(Poller)
        BY <1>0, <3>3 DEF Track, Busy, ThreadRec
      <3>4. CASE Decide /\ ~Done(Poller)
        <4>1. PICK q : th' = [th EXCEPT ![Poller].pc = "apply", ![Poller].queue = q]
          BY <3>4 DEF Decide
        <4> QED
          BY <1>0, <4>1 DEF Busy, ThreadRec
      <3> QED
        BY <2>2, <3>1, <3>2, <3>3, <3>4
    <2>3. CASE ModifyCheck \/ ModifyWrite \/ CloseCheck
      BY <1>0, <2>3 DEF ModifyCheck, ModifyWrite, CloseCheck, To, Busy, ThreadRec
    <2> QED
      BY <2>1, <2>2, <2>3 DEF ManageStep, ActionFails, RecordStop, Flag, LiveModify, LiveClose
  <1> QED
    BY <1>1, <1>2, <1>3, LedgerStill

LEMMA LedgerStep == DeskInv /\ SizeHeld /\ Ledger /\ [Next]_vars => Ledger'
  <1> SUFFICES ASSUME DeskInv, SizeHeld, Ledger, [Next]_vars PROVE Ledger'
    OBVIOUS
  <1>1. ASSUME NEW t \in Threads, ReadStep(t) \/ OrderStep(t) \/ ReconcileStep(t)
        PROVE  Ledger'
    BY <1>1, LedgerReads, LedgerOrders
  <1>2. CASE ManageStep
    BY <1>2, LedgerManages
  <1>3. CASE BrokerSettles
    BY <1>3 DEF BrokerSettles, Ledger
  <1>4. CASE PriceMoves \/ CandleOpens \/ UNCHANGED vars
    <2>1. UNCHANGED <<row, th, account, due, mode, faults, stale>>
      BY <1>4 DEF PriceMoves, CandleOpens, tables, history, vars
    <2> QED
      BY <2>1, LedgerStill
  <1>5. CASE Crash \/ \E t \in Threads : Raises(t)
    <2>1. faults' = faults + 1 /\ faults \in Nat
      BY <1>5, CountedTables DEF Crash, Raises
    <2>2. faults' # 0
      BY <2>1
    <2> QED
      BY <2>2 DEF Ledger
  <1> QED
    BY <1>1, <1>2, <1>3, <1>4, <1>5 DEF Next, MarketStep

\* The paper account holds exactly the results and commissions that the rows call for,
\* between the two transactions of every close and order: for any number of threads
\* that settle, as long as no close acted on a row another thread had changed and no
\* thread or process ended between the two writes.
THEOREM LedgerMatchesRows == Spec => []LedgerExact
  <1>1. Init => Ledger
    <2> SUFFICES ASSUME Init PROVE Ledger
      OBVIOUS
    <2>1. \A t \in Threads : th[t].pc = "idle"
      BY DEF Init, Idle
    <2>2. Parts = 0 /\ Whole = 0 /\ Fees = 0
      BY <2>1, PollerIsThread DEF Parts, Whole, Fees, Partly, Wholly, Paying
    <2>3. account.lots = 0 /\ account.fees = 0 /\ due.lots = 0 /\ due.fees = 0
      BY DEF Init, NoMoney
    <2> QED
      BY <2>1, <2>2, <2>3 DEF Ledger, Wholly, Paying
  <1>2. DeskInv /\ Ledger => LedgerExact
    <2> SUFFICES ASSUME DeskInv, Ledger, mode = "paper", ~stale, faults = 0, ~Settling
                 PROVE  account = due
      BY DEF LedgerExact, LedgerAgrees
    <2>1. \A t \in Threads : ~Partly(t) /\ ~Wholly(t) /\ ~Paying(t)
      BY DEF Settling, Partly, Wholly, Paying
    <2>2. Parts = 0 /\ Whole = 0 /\ Fees = 0
      BY <2>1, PollerIsThread DEF Parts, Whole, Fees
    <2>3. /\ account.lots + Parts + Whole = due.lots
          /\ account.fees + Parts + Whole + Fees = due.fees
          /\ account.lots \in Nat /\ account.fees \in Nat
      BY LedgerFacts
    <2>4. account.lots = due.lots /\ account.fees = due.fees
      BY <2>2, <2>3
    <2> QED
      BY <2>4 DEF DeskInv, Typed
  <1> QED
    BY <1>1, <1>2, LedgerStep, LifeInvariant, PTL DEF Spec, LifeInv, StopInv

----------------------------------------------------------------------------
(* Settlement invents no trigger.                                          *)

LEMMA MarketFacts ==
    ASSUME DeskInv
    PROVE  /\ row \in Rows /\ row.dir \in Directions /\ row.target \in Int
           /\ HasStop(row) => row.stop \in Int
           /\ bid \in Int /\ Spread \in Nat
           /\ touched \in [stop : BOOLEAN, target : BOOLEAN]
           /\ range # NULL => range.high \in Int /\ range.low \in Int
  BY PriceAssumption DEF DeskInv, Typed, Rows, Directions, HasStop

\* The levels stay, and so do the market and the candles.
LEMMA EvidentRow ==
    ASSUME NEW s, NEW v, NEW b, NEW r, NEW reached, NEW paper, Evident(s, b, r, reached, paper),
           v.dir = s.dir, v.stop = s.stop, v.target = s.target,
           v.status # "none" => s.status # "none"
    PROVE  Evident(v, b, r, reached, paper)
  BY DEF Evident, HasStop

LEMMA ReachedMoves ==
    ASSUME DeskInv, Reached, PriceMoves
    PROVE  Reached'
  <1>1. /\ row.status = "OPEN" /\ bid' \in Int /\ row' = row /\ mode' = mode
        /\ range' = Extend(range, bid') /\ touched' = Touch(row, bid', touched)
    <2>1. bid' \in Bids
      BY DEF PriceMoves
    <2>2. bid' \in Int
      BY <2>1, PriceAssumption
    <2> QED
      BY <2>2 DEF PriceMoves, tables
  <1>2. /\ mode = "paper" /\ range # NULL /\ row.stop = Plan[row.dir].stop
           /\ Gain(row.dir, row.stop, IF row.dir = "BUY" THEN range.low ELSE range.high) <= 0
               => touched.stop
        /\ range # NULL
           /\ Gain(row.dir, row.target, IF row.dir = "BUY" THEN range.high ELSE range.low) >= 0
               => touched.target
    BY <1>1 DEF Reached, Evident
  <1>3. /\ touched'.stop <=>
               touched.stop \/ (HasStop(row) /\ Gain(row.dir, row.stop, Exit(row.dir, bid')) <= 0)
        /\ touched'.target <=> touched.target \/ Gain(row.dir, row.target, bid') >= 0
    BY <1>1 DEF Touch
  <1>4. range' # NULL =>
            /\ range # NULL
            /\ range'.high = IF bid' > range.high THEN bid' ELSE range.high
            /\ range'.low = IF bid' < range.low THEN bid' ELSE range.low
    BY <1>1 DEF Extend
  \* The ask is not below the bid.
  <1>5. HasStop(row) /\ Gain(row.dir, row.stop, bid') <= 0 =>
            Gain(row.dir, row.stop, Exit(row.dir, bid')) <= 0
    BY <1>1, MarketFacts DEF Gain, Exit, Directions
  <1>6. ASSUME mode = "paper", range' # NULL, row.stop = Plan[row.dir].stop,
               Gain(row.dir, row.stop, IF row.dir = "BUY" THEN range'.low ELSE range'.high) <= 0
        PROVE  touched'.stop
    <2> DEFINE old == IF row.dir = "BUY" THEN range.low ELSE range.high
               new == IF row.dir = "BUY" THEN range'.low ELSE range'.high
    <2>1. new = old \/ new = bid'
      BY <1>4, <1>6
    <2>2. CASE new = old
      BY <1>2, <1>3, <1>4, <1>6, <2>2
    <2>3. CASE new = bid'
      <3>1. HasStop(row)
        BY <1>6, StopFacts DEF HasStop
      <3> QED
        BY <1>3, <1>5, <1>6, <2>3, <3>1
    <2> QED
      BY <2>1, <2>2, <2>3
  <1>7. ASSUME range' # NULL,
               Gain(row.dir, row.target, IF row.dir = "BUY" THEN range'.high ELSE range'.low) >= 0
        PROVE  touched'.target
    <2> DEFINE old == IF row.dir = "BUY" THEN range.high ELSE range.low
               new == IF row.dir = "BUY" THEN range'.high ELSE range'.low
    <2>1. new = old \/ new = bid'
      BY <1>4, <1>7
    <2>2. CASE new = old
      BY <1>2, <1>3, <1>4, <1>7, <2>2
    <2>3. CASE new = bid'
      BY <1>3, <1>7, <2>3
    <2> QED
      BY <2>1, <2>2, <2>3
  <1> QED
    BY <1>1, <1>3, <1>6, <1>7 DEF Reached, Evident

LEMMA ReachedOpens ==
    ASSUME DeskInv, Reached, CandleOpens
    PROVE  Reached'
  <1>1. /\ row.status = "OPEN" /\ row' = row /\ bid' = bid /\ touched' = touched /\ mode' = mode
        /\ range'.high = bid /\ range'.low = bid
    BY DEF CandleOpens, At, tables, history
  <1>2. /\ HasStop(row) /\ Gain(row.dir, row.stop, Exit(row.dir, bid)) <= 0 => touched.stop
        /\ Gain(row.dir, row.target, bid) >= 0 => touched.target
    BY <1>1 DEF Reached, Evident
  <1>3. row.stop = Plan[row.dir].stop => HasStop(row)
    BY StopFacts DEF HasStop
  <1>5. HasStop(row) /\ Gain(row.dir, row.stop, bid) <= 0 =>
            Gain(row.dir, row.stop, Exit(row.dir, bid)) <= 0
    BY MarketFacts DEF Gain, Exit, Directions
  <1>4. /\ (IF row.dir = "BUY" THEN range'.low ELSE range'.high) = bid
        /\ (IF row.dir = "BUY" THEN range'.high ELSE range'.low) = bid
    BY <1>1
  <1> QED
    BY <1>1, <1>2, <1>3, <1>4, <1>5 DEF Reached, Evident

\* A stop that is written is reached if the market is at it; in paper mode it is
\* another one than the plan's.
LEMMA ReachedStop ==
    ASSUME DeskInv, Reached, NEW s \in Int, row' = [row EXCEPT !.stop = s], Retouched,
           mode = "paper" => s # Plan[row.dir].stop,
           UNCHANGED <<mode, bid, range>>
    PROVE  Reached'
  <1>1. /\ row'.stop = s /\ row'.dir = row.dir /\ row'.target = row.target
        /\ row'.status = row.status
    BY MarketFacts DEF Rows
  <1>2. /\ HasStop(row') /\ Gain(row'.dir, row'.stop, Exit(row'.dir, bid)) <= 0 => touched'.stop
        /\ touched'.target <=> touched.target \/ Gain(row'.dir, row'.target, bid) >= 0
    BY MarketFacts DEF Retouched, Touch
  <1> QED
    BY <1>1, <1>2 DEF Reached, Evident

\* A write that was not carried out.
LEMMA ReachedSame ==
    ASSUME DeskInv, Reached, row' = row, Retouched, UNCHANGED <<mode, bid, range>>
    PROVE  Reached'
  <1>1. /\ touched.stop => touched'.stop
        /\ touched.target => touched'.target
    BY MarketFacts DEF Retouched, Touch
  <1> QED
    BY <1>1 DEF Reached, Evident

LEMMA ReachedStep == StopInv /\ Reached /\ [Next]_vars => Reached'
  <1> SUFFICES ASSUME StopInv, Reached, [Next]_vars PROVE Reached'
    OBVIOUS
  <1>0. row \in Rows /\ Evident(row, bid, range, touched, mode = "paper") /\ DeskInv
    BY MarketFacts DEF Reached, StopInv
  \* The levels and the evidence stay.
  <1>s. ASSUME row' = row, UNCHANGED <<mode, bid, range, touched>>
        PROVE  Reached'
    BY <1>s DEF Reached
  <1>1. ASSUME NEW t \in Threads, ReadStep(t) PROVE Reached'
    <2>1. UNCHANGED <<mode, bid, range, touched>>
      BY <1>1 DEF ReadStep, ReadRows, ReadNoRows, Unpriced, Priced, CloseRow, Book, history
    <2>2. CASE CloseRow(t)
      <3>1. row.status # "none"
        BY <1>0, <2>2, AtWork DEF CloseRow
      <3>2. row'.dir = row.dir /\ row'.stop = row.stop /\ row'.target = row.target
        BY <1>0, <2>2 DEF CloseRow, Rows
      <3> QED
        BY <1>0, <2>1, <3>1, <3>2, EvidentRow DEF Reached
    <2>3. CASE ~CloseRow(t)
      <3>1. row' = row
        BY <1>1, <2>3 DEF ReadStep, ReadRows, ReadNoRows, Unpriced, Priced, Book, tables
      <3> QED
        BY <1>s, <2>1, <3>1
    <2> QED
      BY <2>2, <2>3
  <1>2. ASSUME NEW t \in Threads, OrderStep(t) \/ ReconcileStep(t) PROVE Reached'
    <2>1. CASE PlaceOrder(t)
      <3>1. bid' = bid /\ range' = NULL /\ touched' = Touch(row', bid, Untouched)
        BY <2>1 DEF PlaceOrder
      <3>2. /\ HasStop(row') /\ Gain(row'.dir, row'.stop, Exit(row'.dir, bid)) <= 0
                   => touched'.stop
            /\ Gain(row'.dir, row'.target, bid) >= 0 => touched'.target
        BY <3>1 DEF Touch
      <3> QED
        BY <3>1, <3>2 DEF Reached, Evident
    <2>2. CASE VerifyAttach(t) \/ RepairWrite(t)
      <3>1. UNCHANGED <<mode, bid, range>> /\ Retouched
        BY <2>2 DEF VerifyAttach, RepairWrite
      <3>2. mode # "paper"
        BY <2>2 DEF StopInv, Held, Placing, VerifyAttach, RepairWrite, HasStop
      <3>3. \/ row' = row
            \/ \E s \in Int : row' = [row EXCEPT !.stop = s]
        <4>1. Plan[row.dir].stop \in Int
          BY <1>0, StopFacts
        <4>2. RepairWrite(t) => th[t].snap.stop \in Int
          BY <1>0, ThreadFacts DEF DeskInv, Shape, RepairWrite
        <4> QED
          BY <2>2, <4>1, <4>2 DEF VerifyAttach, RepairWrite, StopWritten
      <3> QED
        BY <1>0, <3>1, <3>2, <3>3, ReachedSame, ReachedStop
    <2>3. CASE EntryFee(t) \/ MarkOpen(t) \/ VerifyStop(t) \/ VerifyRecord(t)
      BY <1>s, <2>3 DEF EntryFee, MarkOpen, VerifyStop, VerifyRecord, history
    <2>4. CASE Adopt(t) \/ RepairRead(t) \/ RepairPlan(t)
      BY <1>s, <2>4 DEF Adopt, RepairRead, RepairPlan, tables, history
    <2> QED
      BY <1>2, <2>1, <2>2, <2>3, <2>4 DEF OrderStep, ReconcileStep
  \* The manager's stop is better than the plan's.
  <1>m. ASSUME th[Poller].pc \in {"apply", "modify"}, Action.kind = "MOVE_STOP",
               row' = [row EXCEPT !.stop = Action.stop], Retouched,
               UNCHANGED <<mode, bid, range>>
        PROVE  Reached'
    <2>1. Action.stop \in Int /\ Gain(row.dir, Plan[row.dir].stop, Action.stop) > 0
      BY <1>m, HeadAdvances
    <2>2. Action.stop # Plan[row.dir].stop
      BY <1>0, <2>1, StopFacts DEF Gain, Directions
    <2> QED
      BY <1>0, <1>m, <2>1, <2>2, ReachedStop
  <1>3. CASE ModifyWrite
    <2>1. Action.kind = "MOVE_STOP"
      BY <1>0, <1>3, ActionFacts DEF ModifyWrite, DeskInv
    <2> QED
      BY <1>3, <1>m, <2>1 DEF ModifyWrite
  <1>4. CASE LiveModify
    <2>1. /\ th[Poller].pc = "apply" /\ Action.kind = "MOVE_STOP"
          /\ row' = row \/ row' = [row EXCEPT !.stop = Action.stop]
          /\ Retouched /\ UNCHANGED <<mode, bid, range>>
      BY <1>4 DEF LiveModify, StopWritten
    <2> QED
      BY <1>0, <1>m, <2>1, ReachedSame
  <1>5. CASE LiveClose
    <2>1. UNCHANGED <<mode, bid, range, touched>> /\ row.status # "none"
      BY <1>0, <1>5, AtWork, PollerIsThread DEF LiveClose
    <2>2. row'.dir = row.dir /\ row'.stop = row.stop /\ row'.target = row.target
      BY <1>0, <1>5 DEF LiveClose, Rows
    <2> QED
      BY <1>0, <2>1, <2>2, EvidentRow DEF Reached
  <1>6. CASE ManageStep /\ ~ModifyWrite /\ ~LiveModify /\ ~LiveClose
    <2>1. row' = row /\ UNCHANGED <<mode, bid, range, touched>>
      BY <1>6 DEF ManageStep, LiveRead, Track, Decide, ActionFails, ModifyCheck, RecordStop,
                  CloseCheck, Flag, tables, history
    <2> QED
      BY <1>s, <2>1
  <1>7. CASE PriceMoves
    BY <1>0, <1>7, ReachedMoves
  <1>8. CASE CandleOpens
    BY <1>0, <1>8, ReachedOpens
  <1>9. CASE BrokerSettles
    <2>1. /\ UNCHANGED <<mode, bid, range, touched>> /\ row.status # "none"
          /\ row'.dir = row.dir /\ row'.stop = row.stop /\ row'.target = row.target
      BY <1>0, <1>9 DEF BrokerSettles, history, Rows
    <2> QED
      BY <1>0, <2>1, EvidentRow DEF Reached
  <1>10. CASE Crash \/ (\E t \in Threads : Raises(t)) \/ UNCHANGED vars
    BY <1>s, <1>10 DEF Crash, Raises, tables, history, vars
  <1> QED
    BY <1>1, <1>2, <1>3, <1>4, <1>5, <1>6, <1>7, <1>8, <1>9, <1>10 DEF Next, MarketStep

\* Only the paper broker prices rows.
PricedInPaper == \A t \in Threads : th[t].pc = "price" => mode = "paper"

LEMMA PaperStep == DeskInv /\ PricedInPaper /\ [Next]_vars => PricedInPaper'
  <1> SUFFICES ASSUME DeskInv, PricedInPaper, [Next]_vars,
                      NEW t \in Threads, th'[t].pc = "price"
               PROVE  mode' = "paper"
    BY DEF PricedInPaper
  <1>0. th \in [Threads -> ThreadRec] /\ th[t] \in ThreadRec /\ Poller \in Threads
    BY StopFacts DEF DeskInv, Typed
  <1>1. mode' = mode
    BY DEF Next, ReadStep, ReadRows, ReadNoRows, Unpriced, Priced, CloseRow, Book,
           OrderStep, PlaceOrder, EntryFee, MarkOpen, VerifyStop, VerifyAttach, VerifyRecord,
           ReconcileStep, Adopt, RepairRead, RepairPlan, RepairWrite, Raises,
           ManageStep, LiveRead, Track, Decide, ActionFails, ModifyCheck, ModifyWrite, RecordStop,
           CloseCheck, Flag, LiveModify, LiveClose,
           MarketStep, PriceMoves, CandleOpens, BrokerSettles, Crash, vars
  <1>2. CASE th'[t] = th[t]
    BY <1>1, <1>2 DEF PricedInPaper
  <1>3. ASSUME NEW u \in Threads, ReadStep(u) \/ OrderStep(u) \/ ReconcileStep(u) \/ Raises(u)
        PROVE  mode' = "paper"
    <2>1. CASE u # t
      BY <1>2, <1>3, <2>1, OneThread
    <2>2. CASE u = t
      <3>1. CASE ReadRows(t)
        BY <1>1, <3>1 DEF ReadRows
      <3>2. CASE th[t].pc = "price"
        BY <1>1, <3>2 DEF PricedInPaper
      <3>3. CASE ReadNoRows(t) \/ CloseRow(t) \/ Book(t)
        <4>1. CASE ReadNoRows(t) \/ CloseRow(t)
          BY <1>0, <4>1 DEF ReadNoRows, CloseRow, To, ThreadRec
        <4>2. CASE Book(t)
          <5> DEFINE next == [th[t] EXCEPT !.pc = "closed", !.snap = NULL]
                     planned == [th[t] EXCEPT !.pc = "plan", !.snap = NULL]
          <5>1. next.pc = "closed" /\ planned.pc = "plan" /\ Idle.pc = "idle"
            BY <1>0 DEF ThreadRec, Idle
          <5>2. th'[t] \in {next, planned, Idle}
            BY <1>0, <4>2 DEF Book
          <5> HIDE DEF next, planned
          <5> QED
            BY <5>1, <5>2
        <4> QED
          BY <3>3, <4>1, <4>2
      <3>4. CASE PlaceOrder(t)
        <4>1. PICK q : th' = [th EXCEPT ![t].pc = IF mode = "paper" THEN "fee" ELSE "fill",
                                        ![t].snap = row', ![t].size = q]
          BY <3>4 DEF PlaceOrder
        <4> QED
          BY <1>0, <4>1 DEF ThreadRec
      <3>5. CASE EntryFee(t) \/ MarkOpen(t) \/ VerifyStop(t) \/ VerifyAttach(t) \/ VerifyRecord(t)
        BY <1>0, <3>5 DEF EntryFee, MarkOpen, VerifyStop, VerifyAttach, VerifyRecord, To, Done,
                          Idle, ThreadRec
      <3>6. CASE ReconcileStep(t)
        <4>1. CASE RepairPlan(t)
          <5>1. PICK s : th' = [th EXCEPT ![t].pc = "restore", ![t].snap = s] \/ Done(t)
            BY <4>1 DEF RepairPlan
          <5> QED
            BY <1>0, <5>1 DEF Done, Idle, ThreadRec
        <4>2. CASE Adopt(t)
          BY <1>2, <4>2 DEF Adopt
        <4>3. CASE RepairRead(t) \/ RepairWrite(t)
          BY <1>0, <4>3 DEF RepairRead, RepairWrite, Done, Idle, ThreadRec
        <4> QED
          BY <3>6, <4>1, <4>2, <4>3 DEF ReconcileStep
      <3>7. CASE Raises(t)
        BY <1>0, <3>7 DEF Raises, Done, Idle
      <3> QED
        BY <1>3, <2>2, <3>1, <3>2, <3>3, <3>4, <3>5, <3>6, <3>7
           DEF ReadStep, Unpriced, Priced, OrderStep
    <2> QED
      BY <2>1, <2>2
  <1>4. CASE ManageStep
    <2>1. CASE t # Poller
      <3>1. th'[t] = th[t]
        BY <1>0, <1>4, <2>1
           DEF ManageStep, LiveRead, Track, Decide, ActionFails, ModifyCheck, ModifyWrite,
               RecordStop, CloseCheck, Flag, LiveModify, LiveClose, NextAction, To, Done
      <3> QED
        BY <1>2, <3>1
    <2>2. CASE t = Poller
      <3>1. ~NextAction /\ ~Done(t)
        <4> DEFINE next == [th[t] EXCEPT !.pc = "apply", !.queue = Tail(th[Poller].queue),
                                         !.snap = NULL]
        <4>1. next.pc = "apply" /\ Idle.pc = "idle"
          BY <1>0 DEF ThreadRec, Idle
        <4>2. NextAction \/ Done(t) => th'[t] \in {next, Idle}
          BY <1>0, <2>2 DEF NextAction, Done
        <4> HIDE DEF next
        <4> QED
          BY <4>1, <4>2
      <3>2. \A label \in {"modify", "record", "closed"} : ~To(t, label)
        BY <1>0 DEF To, ThreadRec
      <3>3. CASE LiveRead \/ Track
        BY <1>0, <2>2, <3>1, <3>3 DEF LiveRead, Track, ThreadRec
      <3>4. CASE Decide
        <4>1. PICK q : th' = [th EXCEPT ![t].pc = "apply", ![t].queue = q]
          BY <2>2, <3>1, <3>4 DEF Decide
        <4> QED
          BY <1>0, <4>1 DEF ThreadRec
      <3>5. CASE CloseCheck
        <4>1. \E w, z : th' = [th EXCEPT ![t].pc = "close", ![t].snap = row,
                                         ![t].why = w, ![t].size = z]
          BY <2>2, <3>5 DEF CloseCheck
        <4> QED
          BY <1>0, <4>1 DEF ThreadRec
      <3> QED
        BY <1>4, <2>2, <3>1, <3>2, <3>3, <3>4, <3>5
           DEF ManageStep, ActionFails, ModifyCheck, ModifyWrite, RecordStop, Flag, LiveModify,
               LiveClose
    <2> QED
      BY <2>1, <2>2
  <1>5. CASE MarketStep \/ UNCHANGED vars
    BY <1>2, <1>5 DEF MarketStep, PriceMoves, CandleOpens, BrokerSettles, vars
  <1>6. CASE Crash
    BY <1>6 DEF Crash, Idle
  <1> QED
    BY <1>3, <1>4, <1>5, <1>6 DEF Next

\* What a thread settles a row for has happened.
LEMMA SettledForCause ==
    ASSUME DeskInv, Reached, PricedInPaper, [Next]_vars, NEW t \in Threads, Settles(t),
           row.stop = Plan[row.dir].stop
    PROVE  /\ th'[t].why \in {"STOP", "SAME_WINDOW"} => touched.stop
           /\ th'[t].why \in {"TARGET", "SAME_WINDOW"} => touched.target
  <1>0. /\ th \in [Threads -> ThreadRec] /\ th[t] \in ThreadRec
        /\ th[t].pc = "price" /\ th'[t].pc = "close" /\ th[t].snap = row
    BY ThreadFacts DEF DeskInv, Typed, Settles
  <1>k. ~Kept(t)
    <2>1. CASE t # Poller
      BY <1>0, <2>1 DEF Kept, Idle
    <2>2. CASE t = Poller /\ th[t].pass = 1
      <3> DEFINE r == [th[t] EXCEPT !.pc = "track", !.pass = 2, !.snap = row]
      <3>1. r.pc = "track"
        BY <1>0 DEF ThreadRec
      <3>2. Kept(t) => th'[t] = r
        BY <1>0, <2>2 DEF Kept
      <3> HIDE DEF r
      <3> QED
        BY <1>0, <3>1, <3>2
    <2>3. CASE t = Poller /\ th[t].pass # 1
      BY <1>0, <2>3 DEF Kept, ThreadRec
    <2> QED
      BY <2>1, <2>2, <2>3
  <1>1. Priced(t)
    <2>1. ASSUME NEW u \in Threads, ReadStep(u) \/ OrderStep(u) \/ ReconcileStep(u) PROVE u = t
      BY <1>0, <2>1, OneThread
    <2>2. CASE ReadStep(t) \/ OrderStep(t) \/ ReconcileStep(t)
      <3>1. ~Unpriced(t)
        BY <1>k DEF Unpriced
      <3> QED
        BY <1>0, <2>2, <3>1
           DEF ReadStep, ReadRows, ReadNoRows, CloseRow, Book,
               OrderStep, PlaceOrder, EntryFee, MarkOpen, VerifyStop, VerifyAttach, VerifyRecord,
               ReconcileStep, Adopt, RepairRead, RepairPlan, RepairWrite
    <2>3. ~ManageStep
      <3>1. SUFFICES ASSUME ManageStep PROVE FALSE
        OBVIOUS
      <3>2. th[Poller].pc # "price"
        BY <3>1 DEF ManageStep, LiveRead, Track, Decide, ActionFails, ModifyCheck, ModifyWrite,
                    RecordStop, CloseCheck, Flag, LiveModify, LiveClose
      <3>3. th'[t] = th[t]
        BY <1>0, <3>1, <3>2
           DEF ManageStep, LiveRead, Track, Decide, ActionFails, ModifyCheck, ModifyWrite,
               RecordStop, CloseCheck, Flag, LiveModify, LiveClose, NextAction, To, Done
      <3> QED
        BY <1>0, <3>3
    <2>4. ~MarketStep /\ ~Crash /\ ~UNCHANGED vars /\ \A u \in Threads : ~Raises(u)
      BY <1>0 DEF MarketStep, PriceMoves, CandleOpens, BrokerSettles, Crash, Raises, Done, vars,
                  Idle
    <2> QED
      BY <2>1, <2>2, <2>3, <2>4 DEF Next
  <1>2. PICK r \in Evidence :
          LET s == th[t].snap
              verdict == Settlement(s, Exit(s.dir, bid), r)
          IN  IF verdict = NULL THEN Kept(t)
              ELSE th' = [th EXCEPT ![t].pc = "close", ![t].why = verdict, ![t].size = s.qty]
    BY <1>1 DEF Priced
  <1> DEFINE mark == Exit(row.dir, bid)
             verdict == Settlement(row, mark, r)
  <1>3. ~Kept(t)
    BY <1>k
  <1>4. verdict # NULL /\ th'[t].why = verdict
    BY <1>0, <1>2, <1>3 DEF ThreadRec
  <1>5. /\ verdict \in {"STOP", "SAME_WINDOW"} => HitStop(row, mark, r)
        /\ verdict \in {"TARGET", "SAME_WINDOW"} => HitTarget(row, mark, r)
    <2> HIDE DEF mark
    <2>1. CASE HitStop(row, mark, r) /\ HitTarget(row, mark, r)
      BY <2>1
    <2>2. CASE HitStop(row, mark, r) /\ ~HitTarget(row, mark, r)
      BY <2>2 DEF Settlement
    <2>3. CASE ~HitStop(row, mark, r) /\ HitTarget(row, mark, r)
      BY <2>3 DEF Settlement
    <2>4. CASE ~HitStop(row, mark, r) /\ ~HitTarget(row, mark, r)
      BY <1>4, <2>4 DEF Settlement
    <2> QED
      BY <2>1, <2>2, <2>3, <2>4
  <1>6. /\ row.status # "none" /\ (r = NULL \/ r = range)
        /\ HasStop(row) /\ Gain(row.dir, row.stop, mark) <= 0 => touched.stop
        /\ Gain(row.dir, row.target, bid) >= 0 => touched.target
        /\ range # NULL
           /\ Gain(row.dir, row.stop, IF row.dir = "BUY" THEN range.low ELSE range.high) <= 0
               => touched.stop
        /\ range # NULL
           /\ Gain(row.dir, row.target, IF row.dir = "BUY" THEN range.high ELSE range.low) >= 0
               => touched.target
    <2>1. row.status # "none"
      BY <1>0, AtWork
    <2>2. mode = "paper"
      BY <1>0 DEF PricedInPaper
    <2> QED
      BY <2>1, <2>2 DEF Reached, Evident, Evidence
  <1>7. Gain(row.dir, row.target, mark) >= 0 => Gain(row.dir, row.target, bid) >= 0
    BY MarketFacts DEF Gain, Exit, Directions
  <1>8. HitStop(row, mark, r) => touched.stop
    BY <1>6 DEF HitStop
  <1>9. HitTarget(row, mark, r) => touched.target
    BY <1>6, <1>7 DEF HitTarget
  <1> QED
    BY <1>4, <1>5, <1>8, <1>9

\* _settle_protection and _range_since: a row that has the stop it was placed with is
\* settled only by a level the market reached since the opening, by the mark or by a
\* candle, at any spread and whichever candles the request brought back.
THEOREM OnlyReachedLevelsSettle == Spec => NoInventedTrigger
  <1> DEFINE Cause == \A t \in Threads : Settles(t) /\ row.stop = Plan[row.dir].stop =>
                          /\ th'[t].why \in {"STOP", "SAME_WINDOW"} => touched.stop
                          /\ th'[t].why \in {"TARGET", "SAME_WINDOW"} => touched.target
  <1>1. Init => Reached /\ PricedInPaper
    BY DEF Init, NoRow, Reached, Evident, PricedInPaper, Idle
  <1>2. DeskInv /\ Reached /\ PricedInPaper /\ [Next]_vars => [Cause]_vars
    BY SettledForCause
  <1> QED
    BY <1>1, <1>2, ReachedStep, PaperStep, LifeInvariant, PTL
       DEF Spec, LifeInv, StopInv, NoInventedTrigger

=============================================================================
