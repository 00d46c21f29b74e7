----------------------------- MODULE DeskProofs -----------------------------
(***************************************************************************)
(* Proofs about Desk, for any bids, levels, lots, spreads and slips, any   *)
(* number of threads that read the positions and any number of crashes and *)
(* exceptions.                                                             *)
(* Nothing is used of HalfOf but that it is a natural number, so they hold *)
(* however the partial is rounded.                                         *)
(***************************************************************************)
EXTENDS Desk, SequenceTheorems, TLAPS

Directions == {"BUY", "SELL"}

LEMMA PlanFact ==
    ASSUME NEW d \in Directions
    PROVE  Plan[d].stop \in Nat \ {0} /\ Plan[d].target \in Nat \ {0}
  BY PriceAssumption DEF Directions

----------------------------------------------------------------------------
(* Plans: what plan_actions may put into the queue, and in which order.    *)

Acts == {a \in [kind : {"MOVE_STOP", "PARTIAL_CLOSE", "CLOSE"},
                stop : Int \cup {NULL}, qty : Nat] :
            a.kind = "MOVE_STOP" => a.stop \in Int}

Seen == [dir : Directions, qty : Nat, entry : Int, stop : Int \cup {NULL}, price : Int]

Trades == [linked : BOOLEAN, stop : Int \cup {NULL}, partial : BOOLEAN]

Items(q) == {q[i] : i \in 1 .. Len(q)}

\* Of two actions of one plan not both are partials.
Before(a, b) == ~(a.kind = "PARTIAL_CLOSE" /\ b.kind = "PARTIAL_CLOSE")

InOrder(q) == \A i, j \in 1 .. Len(q) : i < j => Before(q[i], q[j])

\* A stop to move to that is better than s.
Betters(d, s, a) == a.kind = "MOVE_STOP" => Gain(d, s, a.stop) > 0

\* What a plan is made from, when only stops better than floor come out of it: the
\* entry lies beyond the floor, the stop that was read is no worse, and without one
\* the risk is measured from the floor itself.
SoundFor(p, tr, floor) ==
    /\ Gain(p.dir, floor, p.entry) > 0
    /\ p.stop # NULL => Gain(p.dir, floor, p.stop) >= 0
    /\ p.stop = NULL /\ tr.linked /\ tr.stop # NULL => tr.stop = floor

LEMMA NoItems == <<>> \in Seq(Acts) /\ Items(<<>>) = {} /\ InOrder(<<>>)
  <1>1. <<>> \in Seq(Acts) /\ Len(<<>>) = 0
    BY EmptySeq
  <1> QED
    BY <1>1 DEF Items, InOrder

\* One more action at the end of a plan.
LEMMA OneMoreAction ==
    ASSUME NEW q \in Seq(Acts), InOrder(q), NEW a \in Acts,
           \A b \in Items(q) : Before(b, a)
    PROVE  /\ q \o <<a>> \in Seq(Acts) /\ InOrder(q \o <<a>>)
           /\ Items(q \o <<a>>) \subseteq Items(q) \cup {a}
  <1> DEFINE r == q \o <<a>>
  <1>1. <<a>> \in Seq(Acts) /\ Len(<<a>>) = 1 /\ <<a>>[1] = a
    OBVIOUS
  <1>2. /\ r \in Seq(Acts) /\ Len(r) = Len(q) + 1 /\ Len(q) \in Nat
        /\ \A i \in 1 .. Len(q) + 1 : r[i] = IF i <= Len(q) THEN q[i] ELSE <<a>>[i - Len(q)]
    BY <1>1, ConcatProperties, LenProperties
  <1> HIDE DEF r
  <1>3. ASSUME NEW i \in 1 .. Len(r)
        PROVE  \/ i \in 1 .. Len(q) /\ r[i] = q[i]
               \/ i = Len(q) + 1 /\ r[i] = a
    <2>1. CASE i <= Len(q)
      BY <1>2, <2>1
    <2>2. CASE i = Len(q) + 1
      <3>1. ~(i <= Len(q)) /\ i - Len(q) = 1
        BY <1>2, <2>2
      <3> QED
        BY <1>1, <1>2, <2>2, <3>1
    <2> QED
      BY <1>2, <2>1, <2>2
  <1>4. Items(r) \subseteq Items(q) \cup {a}
    BY <1>3 DEF Items
  <1>5. ASSUME NEW i \in 1 .. Len(r), NEW j \in 1 .. Len(r), i < j
        PROVE  Before(r[i], r[j])
    <2>1. i \in 1 .. Len(q) /\ r[i] = q[i]
      BY <1>2, <1>3, <1>5
    <2>2. CASE j \in 1 .. Len(q) /\ r[j] = q[j]
      BY <1>5, <2>1, <2>2 DEF InOrder
    <2>3. CASE r[j] = a
      BY <2>1, <2>3 DEF Items
    <2> QED
      BY <1>3, <2>2, <2>3
  <1> QED
    BY <1>2, <1>4, <1>5 DEF InOrder, r

LEMMA TailFacts ==
    ASSUME NEW q \in Seq(Acts), q # <<>>
    PROVE  Head(q) \in Acts /\ Tail(q) \in Seq(Acts) /\ (Len(q) # 1 => Tail(q) # <<>>)
  <1>1. Len(Tail(q)) = Len(q) - 1 /\ Tail(q) \in Seq(Acts) /\ Len(q) \in Nat \ {0}
        /\ Head(q) \in Acts
    BY HeadTailProperties, EmptySeq
  <1>2. Len(q) # 1 => Tail(q) # <<>>
    <2>1. Len(<<>>) = 0
      OBVIOUS
    <2> QED
      BY <1>1, <2>1
  <1> QED
    BY <1>1, <1>2

\* The rest of a plan after its first action.
LEMMA RestOfPlan ==
    ASSUME NEW q \in Seq(Acts), q # <<>>, InOrder(q)
    PROVE  /\ Head(q) \in Acts /\ Head(q) \in Items(q)
           /\ Tail(q) \in Seq(Acts) /\ InOrder(Tail(q))
           /\ Items(Tail(q)) \subseteq Items(q)
           /\ \A b \in Items(Tail(q)) : Before(Head(q), b)
           /\ Len(q) # 1 => Tail(q) # <<>>
           /\ Len(q) = 1 => Items(Tail(q)) = {}
  <1>0. Head(q) = q[1]
    OBVIOUS
  <1>1. /\ Head(q) \in Acts
        /\ Tail(q) \in Seq(Acts) /\ Len(Tail(q)) = Len(q) - 1
        /\ \A i \in 1 .. Len(Tail(q)) : Tail(q)[i] = q[i + 1]
        /\ Len(q) \in Nat \ {0}
    BY HeadTailProperties, EmptySeq
  <1>2. \A i \in 1 .. Len(Tail(q)) : i + 1 \in 1 .. Len(q) /\ 1 < i + 1
    BY <1>1
  <1>3. 1 \in 1 .. Len(q)
    BY <1>1
  <1>4. Items(Tail(q)) \subseteq Items(q)
    BY <1>1, <1>2 DEF Items
  <1>5. InOrder(Tail(q))
    <2> SUFFICES ASSUME NEW i \in 1 .. Len(Tail(q)), NEW j \in 1 .. Len(Tail(q)), i < j
                 PROVE  Before(Tail(q)[i], Tail(q)[j])
      BY DEF InOrder
    <2>1. i + 1 < j + 1
      BY <1>1
    <2> QED
      BY <1>1, <1>2, <2>1 DEF InOrder
  <1>6. ASSUME NEW b \in Items(Tail(q)) PROVE Before(Head(q), b)
    <2>1. PICK i \in 1 .. Len(Tail(q)) : b = Tail(q)[i]
      BY DEF Items
    <2>2. b = q[i + 1] /\ i + 1 \in 1 .. Len(q) /\ 1 < i + 1
      BY <1>1, <1>2, <2>1
    <2> QED
      BY <1>0, <1>3, <2>2 DEF InOrder
  <1>7. Len(q) # 1 => Tail(q) # <<>>
    <2>1. Len(<<>>) = 0
      OBVIOUS
    <2> QED
      BY <1>1, <2>1
  <1>8. Len(q) = 1 => Items(Tail(q)) = {}
    BY <1>1 DEF Items
  <1> QED
    BY <1>0, <1>1, <1>3, <1>4, <1>5, <1>6, <1>7, <1>8 DEF Items

\* Arithmetic of one side: Gain adds up, and Away goes that far.
LEMMA GainFacts ==
    ASSUME NEW d \in Directions, NEW a \in Int, NEW b \in Int, NEW c \in Int
    PROVE  /\ Gain(d, a, b) \in Int /\ Gain(d, b, c) \in Int
           /\ Gain(d, a, c) = Gain(d, a, b) + Gain(d, b, c)
  BY DEF Gain, Directions

LEMMA AwayFacts ==
    ASSUME NEW d \in Directions, NEW a \in Int, NEW b \in Int
    PROVE  Away(d, a, b) \in Int /\ Gain(d, a, Away(d, a, b)) = b
  BY DEF Gain, Away, Directions

\* A level in R is reached only by a price beyond the entry.
LEMMA ReachedForward ==
    ASSUME NEW move \in Int, NEW risk \in Nat, ReachedR(move, risk, TrailR)
    PROVE  move > 0
  <1>1. TrailR \in Nat \ {0}
    BY LevelAssumption
  <1>2. risk # 0 /\ 4 * move >= TrailR * risk
    BY <1>1 DEF ReachedR
  <1>3. TrailR * risk > 0
    BY <1>1, <1>2
  <1> DEFINE most == TrailR * risk
  <1>4. most \in Int
    BY <1>1
  <1> HIDE DEF most
  <1>5. 4 * move >= most /\ most > 0
    BY <1>2, <1>3 DEF most
  <1> QED
    BY <1>4, <1>5

\* A plan is in order, every stop in it is better than a floor it is made
\* for, and it holds no partial when the row says that one was taken.
LEMMA PlanInOrder ==
    ASSUME NEW p \in Seen, NEW tr \in Trades, NEW invalidated \in BOOLEAN, NEW aged \in BOOLEAN
    PROVE  LET q == PlanActions(p, tr, invalidated, aged)
           IN  /\ q \in Seq(Acts) /\ InOrder(q)
               /\ \A a \in Items(q) :
                      /\ \A floor \in Int : SoundFor(p, tr, floor) => Betters(p.dir, floor, a)
                      /\ a.kind = "PARTIAL_CLOSE" => ~(tr.linked /\ tr.partial)
  <1> DEFINE stop == IF tr.linked /\ tr.stop # NULL THEN tr.stop ELSE p.stop
             risk == IF stop > p.entry THEN stop - p.entry ELSE p.entry - stop
             move == Gain(p.dir, p.entry, p.price)
             safe == HasStop(p) /\ Gain(p.dir, p.entry, p.stop) >= 0
             even == Away(p.dir, p.entry, risk \div 20)
             trail == Away(p.dir, p.entry, move - risk)
             MoveStop(s) == [kind |-> "MOVE_STOP", stop |-> s, qty |-> 0]
             half == [kind |-> "PARTIAL_CLOSE", stop |-> NULL, qty |-> HalfOf(p.qty)]
             close == [kind |-> "CLOSE", stop |-> NULL, qty |-> 0]
             c1 == /\ ReachedR(move, risk, BreakevenR) /\ ~safe
                   /\ StopIsBehindMarket(p.dir, even, p.price, risk)
             c2 == ReachedR(move, risk, PartialR) /\ ~(tr.linked /\ tr.partial)
             c3 == /\ ReachedR(move, risk, TrailR) /\ Improves(p, trail)
                   /\ StopIsBehindMarket(p.dir, trail, p.price, risk)
             c4 == invalidated /\ ~ReachedR(move, risk, 4)
             c5 == aged /\ ~ReachedR(move, risk, 2)
             If(c, a) == IF c THEN <<a>> ELSE <<>>
             q1 == If(c1, MoveStop(even))
             q2 == q1 \o If(c2, half)
             q3 == q2 \o If(c3, MoveStop(trail))
             q4 == q3 \o If(c4, close)
             q5 == q4 \o If(c5, close)
  <1>0. CASE stop = NULL
    <2>1. PlanActions(p, tr, invalidated, aged) = <<>>
      BY <1>0 DEF PlanActions
    <2> QED
      BY <2>1, NoItems
  <1> SUFFICES ASSUME stop # NULL
               PROVE  /\ q5 \in Seq(Acts) /\ InOrder(q5)
                      /\ \A a \in Items(q5) :
                          /\ \A floor \in Int : SoundFor(p, tr, floor) => Betters(p.dir, floor, a)
                          /\ a.kind = "PARTIAL_CLOSE" => ~(tr.linked /\ tr.partial)
    <2>1. ASSUME stop # NULL PROVE PlanActions(p, tr, invalidated, aged) = q5
      BY <2>1 DEF PlanActions
    <2> HIDE DEF stop, q5
    <2> QED
      BY <1>0, <2>1
  <1>2. /\ p.dir \in Directions /\ p.qty \in Nat /\ p.entry \in Int /\ p.stop \in Int \cup {NULL}
        /\ p.price \in Int /\ tr.stop \in Int \cup {NULL}
    BY DEF Seen, Trades
  <1>3. stop \in Int
    BY <1>2
  <1>s. ASSUME NEW floor \in Int, SoundFor(p, tr, floor), p.stop = NULL
        PROVE  stop = floor
    BY <1>2, <1>s DEF SoundFor
  <1>4. risk \in Nat /\ risk \div 20 \in Nat
    <2> HIDE DEF stop
    <2> QED
      BY <1>2, <1>3
  <1>r. ASSUME NEW floor \in Int, SoundFor(p, tr, floor), p.stop = NULL
        PROVE  risk = Gain(p.dir, floor, p.entry)
    <2>1. stop = floor /\ Gain(p.dir, floor, p.entry) > 0
      BY <1>s, <1>r DEF SoundFor
    <2> HIDE DEF stop
    <2> QED
      BY <1>2, <2>1 DEF Gain, Directions
  <1> HIDE DEF stop, risk
  <1>5. move \in Int /\ even \in Int /\ Gain(p.dir, p.entry, even) = risk \div 20
    <2>1. move \in Int
      BY <1>2, GainFacts
    <2> DEFINE part == risk \div 20
    <2>2. part \in Int
      BY <1>4
    <2> HIDE DEF part
    <2>3. Away(p.dir, p.entry, part) \in Int /\ Gain(p.dir, p.entry, Away(p.dir, p.entry, part)) = part
      BY <1>2, <2>2, AwayFacts
    <2> QED
      BY <2>1, <2>3 DEF part
  <1>6. trail \in Int /\ Gain(p.dir, p.entry, trail) = move - risk
    <2> DEFINE far == move - risk
    <2>1. far \in Int
      <3> HIDE DEF move
      <3> QED
        BY <1>4, <1>5
    <2> HIDE DEF far
    <2>2. Away(p.dir, p.entry, far) \in Int /\ Gain(p.dir, p.entry, Away(p.dir, p.entry, far)) = far
      BY <1>2, <2>1, AwayFacts
    <2> QED
      BY <2>2 DEF far
  <1>7. ASSUME NEW floor \in Int, SoundFor(p, tr, floor) PROVE Gain(p.dir, floor, even) > 0
    <2>1. Gain(p.dir, floor, p.entry) > 0
      BY <1>7 DEF SoundFor
    <2> HIDE DEF even
    <2>2. Gain(p.dir, p.entry, even) >= 0
      BY <1>4, <1>5
    <2> QED
      BY <1>2, <1>5, <2>1, <2>2 DEF Gain, Directions
  <1>8. ASSUME NEW floor \in Int, SoundFor(p, tr, floor), c3 PROVE Gain(p.dir, floor, trail) > 0
    <2>1. CASE p.stop # NULL
      <3>1. Gain(p.dir, floor, p.stop) >= 0 /\ Gain(p.dir, p.stop, trail) > 0 /\ p.stop \in Int
        BY <1>2, <1>8, <2>1 DEF SoundFor, Improves, HasStop
      <3> HIDE DEF trail
      <3> QED
        BY <1>2, <1>6, <3>1 DEF Gain, Directions
    <2>2. CASE p.stop = NULL
      <3>1. risk = Gain(p.dir, floor, p.entry) /\ ReachedR(move, risk, TrailR)
        BY <1>r, <1>8, <2>2
      <3>2. move > 0
        BY <1>4, <1>5, <3>1, ReachedForward
      <3> HIDE DEF trail, move
      <3> QED
        BY <1>2, <1>4, <1>5, <1>6, <3>1, <3>2 DEF Gain, Directions
    <2> QED
      BY <2>1, <2>2
  <1>10. MoveStop(even) \in Acts /\ MoveStop(trail) \in Acts /\ half \in Acts /\ close \in Acts
    <2>1. HalfOf(p.qty) \in Nat
      BY <1>2 DEF HalfOf
    <2> HIDE DEF even, trail
    <2> QED
      BY <1>5, <1>6, <2>1 DEF Acts
  <1>11. /\ Before(MoveStop(even), half) /\ Before(half, MoveStop(trail))
         /\ Before(MoveStop(even), MoveStop(trail))
         /\ \A a : Before(a, close)
    <2> HIDE DEF even, trail
    <2> QED
      BY DEF Before
  <1>13. /\ \A floor \in Int : SoundFor(p, tr, floor) =>
              /\ Betters(p.dir, floor, MoveStop(even))
              /\ c3 => Betters(p.dir, floor, MoveStop(trail))
              /\ Betters(p.dir, floor, half) /\ Betters(p.dir, floor, close)
         /\ c2 => ~(tr.linked /\ tr.partial)
         /\ MoveStop(even).kind # "PARTIAL_CLOSE" /\ MoveStop(trail).kind # "PARTIAL_CLOSE"
         /\ close.kind # "PARTIAL_CLOSE"
    <2> HIDE DEF even, trail, c3
    <2> QED
      BY <1>7, <1>8 DEF Betters
  <1> DEFINE m1 == MoveStop(even)
             m3 == MoveStop(trail)
  <1> HIDE DEF even, trail, move, c1, c2, c3, c4, c5, half, close, m1, m3
  <1>14. /\ q1 \in Seq(Acts) /\ InOrder(q1)
         /\ Items(q1) \subseteq IF c1 THEN {m1} ELSE {}
    <2>1. CASE c1
      <3>1. q1 = <<>> \o <<m1>> /\ m1 \in Acts
        BY <1>10, <2>1 DEF m1
      <3>2. <<>> \in Seq(Acts) /\ Items(<<>>) = {} /\ InOrder(<<>>)
        BY NoItems
      <3>3. InOrder(<<>> \o <<m1>>) /\ <<>> \o <<m1>> \in Seq(Acts)
            /\ Items(<<>> \o <<m1>>) \subseteq {m1}
        BY <3>1, <3>2, OneMoreAction
      <3> QED
        BY <2>1, <3>1, <3>3
    <2>2. CASE ~c1
      BY <2>2, NoItems
    <2> QED
      BY <2>1, <2>2
  <1> HIDE DEF q1
  <1>15. /\ q2 \in Seq(Acts) /\ InOrder(q2)
         /\ Items(q2) \subseteq (IF c1 THEN {m1} ELSE {}) \cup (IF c2 THEN {half} ELSE {})
    <2>1. CASE c2
      <3>1. q2 = q1 \o <<half>> /\ \A b \in Items(q1) : Before(b, half)
        BY <1>11, <1>14, <2>1 DEF m1
      <3> QED
        BY <1>10, <1>14, <2>1, <3>1, OneMoreAction
    <2>2. CASE ~c2
      BY <1>14, <2>2, ConcatEmptySeq
    <2> QED
      BY <2>1, <2>2
  <1> HIDE DEF q2
  <1>16. /\ q3 \in Seq(Acts) /\ InOrder(q3)
         /\ Items(q3) \subseteq (IF c1 THEN {m1} ELSE {}) \cup (IF c2 THEN {half} ELSE {})
                                  \cup (IF c3 THEN {m3} ELSE {})
    <2>1. CASE c3
      <3>1. q3 = q2 \o <<m3>> /\ m3 \in Acts /\ \A b \in Items(q2) : Before(b, m3)
        BY <1>10, <1>11, <1>15, <2>1 DEF m1, m3
      <3> QED
        BY <1>15, <2>1, <3>1, OneMoreAction
    <2>2. CASE ~c3
      BY <1>15, <2>2, ConcatEmptySeq
    <2> QED
      BY <2>1, <2>2
  <1> HIDE DEF q3
  <1>17. /\ q4 \in Seq(Acts) /\ InOrder(q4)
         /\ Items(q4) \subseteq Items(q3) \cup {close}
    <2>1. CASE c4
      BY <1>10, <1>11, <1>16, <2>1, OneMoreAction
    <2>2. CASE ~c4
      BY <1>16, <2>2, ConcatEmptySeq
    <2> QED
      BY <2>1, <2>2
  <1> HIDE DEF q4
  <1>18. /\ q5 \in Seq(Acts) /\ InOrder(q5)
         /\ Items(q5) \subseteq Items(q4) \cup {close}
    <2>1. CASE c5
      BY <1>10, <1>11, <1>17, <2>1, OneMoreAction
    <2>2. CASE ~c5
      BY <1>17, <2>2, ConcatEmptySeq
    <2> QED
      BY <2>1, <2>2
  <1> HIDE DEF q5
  <1>19. ASSUME NEW a \in Items(q5)
         PROVE  /\ \A floor \in Int : SoundFor(p, tr, floor) => Betters(p.dir, floor, a)
                /\ a.kind = "PARTIAL_CLOSE" => ~(tr.linked /\ tr.partial)
    <2>1. \/ c1 /\ a = m1
          \/ c2 /\ a = half
          \/ c3 /\ a = m3
          \/ a = close
      BY <1>16, <1>17, <1>18
    <2> QED
      BY <1>13, <2>1 DEF m1, m3
  <1> QED
    BY <1>18, <1>19

----------------------------------------------------------------------------
(* The tables and the threads.                                             *)

Whys == {"STOP", "TARGET", "SAME_WINDOW", "MANUAL"}

ThreadRec == [pc : Labels, pass : {1, 2}, snap : Rows \cup {NULL},
              why : Whys \cup {NULL, "PARTIAL"}, size : Nat,
              seen : Seen \cup {NULL}, queue : Seq(Acts)]

Typed ==
    /\ mode \in {"paper", "live"} /\ bid \in Bids
    /\ row \in Rows
    /\ range \in [high : Int, low : Int] \cup {NULL}
    /\ account \in [lots : Nat, fees : Nat] /\ due \in [lots : Int, fees : Int]
    /\ trade \in Trades
    /\ th \in [Threads -> ThreadRec]
    /\ faults \in 0..MaxFaults /\ slices \in 0..3 /\ bare \in 0..2 /\ stale \in BOOLEAN
    /\ touched \in [stop : BOOLEAN, target : BOOLEAN]

\* The poller holds a position it tracked and has not acted on yet.
Tracked(r) ==
    \/ r.pc \in {"account", "plan"}
    \/ r.pc \in {"price", "close", "book"} /\ r.pass = 2 /\ r.queue = <<>>

\* Where the executor and the reconciler are with the stop of a live position.
StopWork == {"verify", "attached", "repair", "restore"}

\* Thread t at each of its labels.
Shape(t, r) ==
    /\ r.pc = "idle" => r = Idle
    /\ r.pc \in {"price", "close", "book", "track", "fee", "fill", "verify", "repair", "restore"}
           => r.snap \in Rows
    /\ r.pc = "restore" => r.snap.stop \in Int
    /\ r.pc \in {"close", "book"} =>
           /\ r.why \in Whys \cup {"PARTIAL"} /\ r.size <= r.snap.qty
           /\ r.why = "PARTIAL" <=> r.size < r.snap.qty
    /\ r.pc \in {"apply", "modify", "record", "closed"} => r.queue # <<>>
    /\ r.pc \in {"price", "track", "account", "plan"} => r.queue = <<>>
    /\ r.pc \in {"modify", "record"} => Head(r.queue).kind = "MOVE_STOP"
    /\ t # Poller =>
           /\ r.pc \in {"idle", "price", "close", "book", "fee", "fill"} \cup StopWork
           /\ r.queue = <<>>
    /\ t # Poller /\ r.pc \in {"close", "book"} => r.why # "PARTIAL"
    /\ t = Poller =>
           /\ r.pc \notin {"fee", "fill"} \cup StopWork
           /\ Tracked(r) => r.seen \in Seen

Shaped == \A t \in Threads : Shape(t, th[t])

\* Nothing happens to a position before it is there.
Fresh ==
    row.status = "none" =>
        /\ \A t \in Threads : th[t].pc = "idle"
        /\ due = NoMoney

DeskInv == Typed /\ Shaped /\ Fresh

----------------------------------------------------------------------------
(* The tables and the threads stay well-formed.                            *)

LEMMA IdleShape == Idle \in ThreadRec /\ \A t \in Threads : Shape(t, Idle)
  <1>1. <<>> \in Seq(Acts)
    BY EmptySeq
  <1>2. Idle \in ThreadRec
    BY <1>1 DEF Idle, ThreadRec, Labels
  <1>3. Idle.pc = "idle" /\ Idle.queue = <<>>
    BY DEF Idle
  <1>4. \A t \in Threads : Shape(t, Idle)
    BY <1>3 DEF Shape, Tracked, StopWork, Idle
  <1> QED
    BY <1>2, <1>4

\* It is enough to look at the thread that moves.
LEMMA ThreadStep ==
    ASSUME Typed, Shaped, NEW t \in Threads, NEW r \in ThreadRec, Shape(t, r),
           th' = [th EXCEPT ![t] = r]
    PROVE  th' \in [Threads -> ThreadRec] /\ Shaped'
  BY DEF Typed, Shaped

LEMMA ThreadFacts ==
    ASSUME Typed, Shaped, NEW t \in Threads
    PROVE  /\ th[t] \in ThreadRec /\ Shape(t, th[t])
           /\ th[t].pc \in Labels /\ th[t].size \in Nat /\ th[t].queue \in Seq(Acts)
  BY DEF Typed, Shaped, ThreadRec

\* A read that leaves the row open.
LEMMA KeptStep ==
    ASSUME Typed, Shaped, NEW t \in Threads, th[t].pc = "price", Kept(t)
    PROVE  th' \in [Threads -> ThreadRec] /\ Shaped'
  <1>1. th[t] \in ThreadRec /\ Shape(t, th[t]) /\ row \in Rows
    BY ThreadFacts DEF Typed
  <1>2. CASE t # Poller
    BY <1>2, IdleShape, ThreadStep DEF Kept
  <1>3. CASE t = Poller /\ th[t].pass = 1
    <2> DEFINE r == [th[t] EXCEPT !.pc = "track", !.pass = 2, !.snap = row]
    <2>1. th' = [th EXCEPT ![t] = r]
      BY <1>3 DEF Kept
    <2>2. r \in ThreadRec
      BY <1>1 DEF ThreadRec, Labels
    <2>3. r.pc = "track" /\ r.snap = row /\ r.queue = th[t].queue
      BY <1>1 DEF ThreadRec
    <2>4. r.queue = <<>>
      BY <1>1, <2>3 DEF Shape
    <2> HIDE DEF r
    <2>5. Shape(t, r)
      BY <1>1, <1>3, <2>3, <2>4 DEF Shape, Tracked, StopWork
    <2> QED
      BY <2>1, <2>2, <2>5, ThreadStep
  <1>4. CASE t = Poller /\ th[t].pass # 1
    <2> DEFINE r == [th[t] EXCEPT !.pc = "plan", !.snap = NULL]
    <2>1. th' = [th EXCEPT ![t] = r]
      BY <1>4 DEF Kept
    <2>2. r \in ThreadRec
      BY <1>1 DEF ThreadRec, Labels
    <2>3. r.pc = "plan" /\ r.seen = th[t].seen /\ r.queue = th[t].queue /\ th[t].pass = 2
      BY <1>1, <1>4 DEF ThreadRec
    <2>4. r.queue = <<>> /\ r.seen \in Seen
      BY <1>1, <1>4, <2>3 DEF Shape, Tracked, StopWork
    <2> HIDE DEF r
    <2>5. Shape(t, r)
      BY <1>4, <2>3, <2>4 DEF Shape, Tracked, StopWork
    <2> QED
      BY <2>1, <2>2, <2>5, ThreadStep
  <1> QED
    BY <1>2, <1>3, <1>4

\* A thread that only changes its label.
LEMMA ToStep ==
    ASSUME Typed, Shaped, NEW t \in Threads, NEW label \in Labels, To(t, label),
           Shape(t, [th[t] EXCEPT !.pc = label])
    PROVE  th' \in [Threads -> ThreadRec] /\ Shaped'
  <1>1. th[t] \in ThreadRec
    BY ThreadFacts
  <1>2. [th[t] EXCEPT !.pc = label] \in ThreadRec
    BY <1>1 DEF ThreadRec
  <1>3. th' = [th EXCEPT ![t] = [th[t] EXCEPT !.pc = label]]
    BY DEF To
  <1> QED
    BY <1>2, <1>3, ThreadStep

LEMMA DoneStep ==
    ASSUME Typed, Shaped, NEW t \in Threads, Done(t)
    PROVE  th' \in [Threads -> ThreadRec] /\ Shaped'
  BY IdleShape, ThreadStep DEF Done

\* An order goes on to the check of its stop.
LEMMA StopWorkTo ==
    ASSUME Typed, Shaped, NEW t \in Threads, th[t].pc \in {"fill", "verify"},
           NEW label \in {"verify", "attached"}, To(t, label)
    PROVE  th' \in [Threads -> ThreadRec] /\ Shaped'
  <1>1. th[t] \in ThreadRec /\ Shape(t, th[t]) /\ label \in Labels
    BY ThreadFacts DEF Labels
  <1> DEFINE r == [th[t] EXCEPT !.pc = label]
  <1>2. r.pc = label /\ r.queue = th[t].queue /\ r.snap = th[t].snap
    BY <1>1 DEF ThreadRec
  <1>3. t # Poller /\ th[t].queue = <<>> /\ th[t].snap \in Rows
    BY <1>1 DEF Shape, StopWork
  <1> HIDE DEF r
  <1>4. Shape(t, r)
    BY <1>2, <1>3 DEF Shape, Tracked, StopWork
  <1> QED
    BY <1>1, <1>4, ToStep DEF r

LEMMA PollerIsThread == Poller \in Threads
  BY DEF Threads

\* On to the next action, or to the end of the plan.
LEMMA NextActionStep ==
    ASSUME Typed, Shaped, th[Poller].pc \in {"apply", "record", "closed"}, NextAction
    PROVE  th' \in [Threads -> ThreadRec] /\ Shaped'
  <1> DEFINE q == th[Poller].queue
  <1>1. /\ Poller \in Threads /\ th[Poller] \in ThreadRec /\ Shape(Poller, th[Poller])
        /\ q \in Seq(Acts) /\ q # <<>>
    BY PollerIsThread, ThreadFacts DEF Shape
  <1>2. CASE Len(q) = 1
    BY <1>1, <1>2, IdleShape, ThreadStep DEF NextAction
  <1>3. CASE Len(q) # 1
    <2> DEFINE r == [th[Poller] EXCEPT !.pc = "apply", !.queue = Tail(q), !.snap = NULL]
    <2>1. Tail(q) \in Seq(Acts) /\ Tail(q) # <<>>
      <3> HIDE DEF q
      <3> QED
        BY <1>1, <1>3, TailFacts
    <2>2. th' = [th EXCEPT ![Poller] = r]
      BY <1>3 DEF NextAction
    <2>3. r \in ThreadRec
      BY <1>1, <2>1 DEF ThreadRec, Labels
    <2>4. r.pc = "apply" /\ r.queue = Tail(q)
      BY <1>1 DEF ThreadRec
    <2> HIDE DEF r, q
    <2>5. Shape(Poller, r)
      BY <2>1, <2>4 DEF Shape, Tracked, StopWork
    <2> QED
      BY <1>1, <2>2, <2>3, <2>5, ThreadStep
  <1> QED
    BY <1>2, <1>3

\* Only the threads move.
LEMMA ThreadsMove ==
    ASSUME DeskInv, th' \in [Threads -> ThreadRec], Shaped', row.status # "none",
           UNCHANGED <<mode, bid, range, tables, faults, history>>
    PROVE  DeskInv'
  BY DEF DeskInv, Typed, Fresh, tables, history

\* A thread is at work only on a position that is there.
LEMMA AtWork ==
    ASSUME DeskInv, NEW t \in Threads, th[t].pc # "idle"
    PROVE  row.status # "none"
  BY DEF DeskInv, Fresh

LEMMA SettlementFact ==
    ASSUME NEW s, NEW mark, NEW r
    PROVE  Settlement(s, mark, r) # NULL => Settlement(s, mark, r) \in Whys
  <1>1. CASE HitStop(s, mark, r) /\ HitTarget(s, mark, r)
    BY <1>1 DEF Settlement, Whys
  <1>2. CASE HitStop(s, mark, r) /\ ~HitTarget(s, mark, r)
    BY <1>2 DEF Settlement, Whys
  <1>3. CASE ~HitStop(s, mark, r) /\ HitTarget(s, mark, r)
    BY <1>3 DEF Settlement, Whys
  <1>4. CASE ~HitStop(s, mark, r) /\ ~HitTarget(s, mark, r)
    BY <1>4 DEF Settlement, Whys
  <1> QED
    BY <1>1, <1>2, <1>3, <1>4

LEMMA ReadSteps ==
    ASSUME DeskInv, NEW t \in Threads, ReadStep(t)
    PROVE  DeskInv'
  <1>0. /\ Typed /\ Shaped /\ row \in Rows
        /\ th[t] \in ThreadRec /\ Shape(t, th[t])
        /\ th[t].size \in Nat /\ th[t].queue \in Seq(Acts)
    BY ThreadFacts DEF DeskInv, Typed
  <1>1. CASE ReadRows(t)
    <2> DEFINE r == [th[t] EXCEPT !.pc = "price", !.snap = row]
    <2>1. /\ th' = [th EXCEPT ![t] = r] /\ row.status = "OPEN"
          /\ UNCHANGED <<mode, bid, range, tables, faults, history>>
          /\ th[t].pc = "idle" \/ (t = Poller /\ th[t].pc = "account")
      BY <1>1 DEF ReadRows
    <2>2. r \in ThreadRec
      BY <1>0 DEF ThreadRec, Labels
    <2>3. /\ r.pc = "price" /\ r.snap = row /\ r.queue = th[t].queue
          /\ r.pass = th[t].pass /\ r.seen = th[t].seen
      BY <1>0 DEF ThreadRec
    <2>4. r.queue = <<>> /\ (t = Poller /\ Tracked(r) => r.seen \in Seen)
      <3>1. CASE th[t].pc = "idle"
        <4>1. th[t] = Idle
          BY <1>0, <3>1 DEF Shape
        <4>2. th[t].queue = <<>> /\ th[t].pass = 1
          BY <4>1 DEF Idle
        <4> HIDE DEF r
        <4> QED
          BY <2>3, <4>2 DEF Tracked
      <3>2. CASE t = Poller /\ th[t].pc = "account"
        <4> HIDE DEF r
        <4> QED
          BY <1>0, <2>3, <3>2 DEF Shape, Tracked, StopWork
      <3> QED
        BY <2>1, <3>1, <3>2
    <2> HIDE DEF r
    <2>5. Shape(t, r)
      BY <1>0, <2>3, <2>4 DEF Shape, StopWork
    <2>6. th' \in [Threads -> ThreadRec] /\ Shaped'
      BY <1>0, <2>1, <2>2, <2>5, ThreadStep
    <2> QED
      BY <2>1, <2>6, ThreadsMove
  <1>2. CASE ReadNoRows(t)
    <2> DEFINE r == [th[t] EXCEPT !.pc = "plan"]
    <2>1. t = Poller /\ th[t].pc = "account" /\ To(t, "plan") /\ "plan" \in Labels
          /\ UNCHANGED <<mode, bid, range, tables, faults, history>>
      BY <1>2 DEF ReadNoRows, Labels
    <2>2. r.pc = "plan" /\ r.queue = th[t].queue /\ r.seen = th[t].seen
      BY <1>0 DEF ThreadRec
    <2>3. th[t].queue = <<>> /\ th[t].seen \in Seen
      BY <1>0, <2>1 DEF Shape, Tracked, StopWork
    <2> HIDE DEF r
    <2>4. Shape(t, r)
      BY <2>1, <2>2, <2>3 DEF Shape, StopWork
    <2>5. th' \in [Threads -> ThreadRec] /\ Shaped'
      BY <1>0, <2>1, <2>4, ToStep DEF r
    <2>6. row.status # "none"
      BY <2>1, AtWork
    <2> QED
      BY <2>1, <2>5, <2>6, ThreadsMove
  <1>3. CASE Unpriced(t)
    <2>1. th[t].pc = "price" /\ Kept(t) /\ UNCHANGED <<mode, bid, range, tables, faults, history>>
      BY <1>3 DEF Unpriced
    <2> QED
      BY <1>0, <2>1, KeptStep, AtWork, ThreadsMove
  <1>4. CASE Priced(t)
    <2>1. th[t].pc = "price" /\ UNCHANGED <<mode, bid, range, tables, faults, history>>
      BY <1>4 DEF Priced
    <2> DEFINE s == th[t].snap
    <2>2. PICK e \in Evidence :
            LET verdict == Settlement(s, Exit(s.dir, bid), e)
            IN  IF verdict = NULL THEN Kept(t)
                ELSE th' = [th EXCEPT ![t].pc = "close", ![t].why = verdict, ![t].size = s.qty]
      BY <1>4 DEF Priced
    <2> DEFINE verdict == Settlement(s, Exit(s.dir, bid), e)
    <2>3. CASE Kept(t)
      BY <1>0, <2>1, <2>3, KeptStep, AtWork, ThreadsMove
    <2>4. CASE verdict # NULL
      <3>1. verdict \in Whys
        BY <2>4, SettlementFact
      <3> HIDE DEF verdict
      <3> DEFINE r == [th[t] EXCEPT !.pc = "close", !.why = verdict, !.size = s.qty]
      <3>2. th' = [th EXCEPT ![t] = r]
        BY <2>2, <2>4 DEF verdict
      <3>3. s \in Rows /\ s.qty \in Nat /\ th[t].queue = <<>>
        BY <1>0, <2>1 DEF Shape, Rows
      <3>4. r \in ThreadRec
        BY <1>0, <3>1, <3>3 DEF ThreadRec, Labels
      <3>5. /\ r.pc = "close" /\ r.why = verdict /\ r.size = s.qty /\ r.snap = s
            /\ r.queue = th[t].queue /\ r.pass = th[t].pass /\ r.seen = th[t].seen
        BY <1>0 DEF ThreadRec
      <3>6. verdict # "PARTIAL"
        BY <3>1 DEF Whys
      <3> HIDE DEF r, s
      <3>7. t = Poller /\ Tracked(r) => r.seen \in Seen
        BY <1>0, <2>1, <3>5 DEF Shape, Tracked, StopWork
      <3>8. r.size <= r.snap.qty /\ ~(r.size < r.snap.qty)
        BY <3>3, <3>5
      <3>9. Shape(t, r)
        BY <1>0, <2>1, <3>1, <3>3, <3>5, <3>6, <3>7, <3>8 DEF Shape, StopWork
      <3>10. th' \in [Threads -> ThreadRec] /\ Shaped'
        BY <1>0, <3>2, <3>4, <3>9, ThreadStep
      <3> QED
        BY <2>1, <3>10, AtWork, ThreadsMove
    <2> QED
      BY <2>2, <2>3, <2>4
  <1>5. CASE CloseRow(t)
    <2> DEFINE s == th[t].snap
               left == s.qty - th[t].size
               gone == IF row.status # "OPEN" THEN 0 ELSE row.qty - left
    <2>1. /\ th[t].pc = "close" /\ To(t, "book") /\ "book" \in Labels
          /\ row' = IF left > 0 THEN [row EXCEPT !.qty = left]
                    ELSE [row EXCEPT !.status = "CLOSED", !.why = th[t].why]
          /\ due' = [due EXCEPT !.lots = due.lots + gone, !.fees = due.fees + gone]
          /\ stale' = (stale \/ row.status # "OPEN" \/ row.qty # s.qty)
          /\ UNCHANGED <<mode, bid, range, account, trade, faults, touched, slices, bare>>
      BY <1>5 DEF CloseRow, Labels
    <2>2. /\ s \in Rows /\ s.qty \in Nat /\ th[t].size <= s.qty
          /\ th[t].why \in Whys \cup {"PARTIAL"}
          /\ th[t].why = "PARTIAL" <=> th[t].size < s.qty
      BY <1>0, <2>1 DEF Shape, Rows
    <2>3. left \in Nat /\ (~(left > 0) => th[t].why \in Whys)
      <3> HIDE DEF s
      <3> QED
        BY <1>0, <2>2
    <2>4. gone \in Int
      <3> HIDE DEF left
      <3> QED
        BY <1>0, <2>3 DEF Rows
    <2>5. due.lots + gone \in Int /\ due.fees + gone \in Int /\ due \in [lots : Int, fees : Int]
      <3> HIDE DEF gone
      <3> QED
        BY <1>0, <2>4 DEF Typed
    <2> HIDE DEF gone
    <2>6. due' \in [lots : Int, fees : Int]
      BY <2>1, <2>5
    <2>7. row.status # "none"
      BY <2>1, AtWork
    <2>8. row' \in Rows /\ row'.status # "none"
      <3> HIDE DEF left
      <3>1. CASE left > 0
        <4>1. row' = [row EXCEPT !.qty = left]
          BY <2>1, <3>1
        <4> QED
          BY <1>0, <2>3, <2>7, <4>1 DEF Rows
      <3>2. CASE ~(left > 0)
        <4>1. row' = [row EXCEPT !.status = "CLOSED", !.why = th[t].why] /\ th[t].why \in Whys
          BY <2>1, <2>3, <3>2
        <4> QED
          BY <1>0, <4>1 DEF Rows, Whys
      <3> QED
        BY <3>1, <3>2
    <2>9. th' \in [Threads -> ThreadRec] /\ Shaped'
      <3> DEFINE r == [th[t] EXCEPT !.pc = "book"]
      <3>1. /\ r.pc = "book" /\ r.why = th[t].why /\ r.size = th[t].size /\ r.snap = s
            /\ r.queue = th[t].queue /\ r.pass = th[t].pass /\ r.seen = th[t].seen
        BY <1>0 DEF ThreadRec
      <3> HIDE DEF r
      <3>2. Shape(t, r)
        BY <1>0, <2>1, <2>2, <3>1 DEF Shape, Tracked, StopWork
      <3> QED
        BY <1>0, <2>1, <3>2, ToStep DEF r
    <2>10. stale' \in BOOLEAN
      BY <2>1
    <2> QED
      BY <1>0, <2>1, <2>6, <2>8, <2>9, <2>10 DEF DeskInv, Typed, Fresh
  <1>6. CASE Book(t)
    <2>1. /\ th[t].pc = "book"
          /\ account' = [lots |-> account.lots + th[t].size, fees |-> account.fees + th[t].size]
          /\ UNCHANGED <<mode, bid, row, range, trade, faults, history>>
      BY <1>6 DEF Book
    <2>2. account' \in [lots : Nat, fees : Nat]
      BY <1>0, <2>1 DEF Typed
    <2>3. th' \in [Threads -> ThreadRec] /\ Shaped'
      <3>1. CASE th[t].queue # <<>>
        <4> DEFINE r == [th[t] EXCEPT !.pc = "closed", !.snap = NULL]
        <4>1. th' = [th EXCEPT ![t] = r]
          BY <1>6, <3>1 DEF Book
        <4>2. r \in ThreadRec /\ r.pc = "closed" /\ r.queue = th[t].queue
          BY <1>0 DEF ThreadRec, Labels
        <4> HIDE DEF r
        <4>3. Shape(t, r)
          BY <1>0, <3>1, <4>2 DEF Shape, Tracked, StopWork
        <4> QED
          BY <1>0, <4>1, <4>2, <4>3, ThreadStep
      <3>2. CASE th[t].queue = <<>> /\ t = Poller /\ th[t].pass = 2
        <4> DEFINE r == [th[t] EXCEPT !.pc = "plan", !.snap = NULL]
        <4>1. th' = [th EXCEPT ![t] = r]
          BY <1>6, <3>2 DEF Book
        <4>2. /\ r \in ThreadRec /\ r.pc = "plan" /\ r.queue = th[t].queue
              /\ r.seen = th[t].seen
          BY <1>0 DEF ThreadRec, Labels
        <4> HIDE DEF r
        <4>3. Shape(t, r)
          BY <1>0, <2>1, <3>2, <4>2 DEF Shape, Tracked, StopWork
        <4> QED
          BY <1>0, <4>1, <4>2, <4>3, ThreadStep
      <3>3. CASE th[t].queue = <<>> /\ ~(t = Poller /\ th[t].pass = 2)
        BY <1>0, <1>6, <3>3, IdleShape, ThreadStep DEF Book
      <3> QED
        BY <3>1, <3>2, <3>3
    <2>4. row.status # "none"
      BY <2>1, AtWork
    <2> QED
      BY <1>0, <2>1, <2>2, <2>3, <2>4 DEF DeskInv, Typed, Fresh, history
  <1> QED
    BY <1>1, <1>2, <1>3, <1>4, <1>5, <1>6 DEF ReadStep

\* What the tables and the history hold, whatever the levels are.
LEMMA TouchFact ==
    ASSUME NEW s, NEW b, NEW old
    PROVE  Touch(s, b, old) \in [stop : BOOLEAN, target : BOOLEAN]
  BY DEF Touch

LEMMA EmptyTables == NoRow \in Rows /\ NoTrade \in Trades /\ NoMoney \in [lots : Nat, fees : Nat]
  BY DEF NoRow, NoTrade, NoMoney, Rows, Trades

LEMMA StopWrittenFact ==
    ASSUME row \in Rows, NEW s \in Int \cup {NULL}, StopWritten(s) \/ UNCHANGED row
    PROVE  /\ row' \in Rows /\ row'.status = row.status /\ row'.dir = row.dir
           /\ row'.qty = row.qty /\ row'.entry = row.entry
           /\ row'.stop = row.stop \/ row'.stop = s
  BY DEF Rows, StopWritten

LEMMA OrderSteps ==
    ASSUME DeskInv, NEW t \in Threads, OrderStep(t)
    PROVE  DeskInv'
  <1>0. /\ Typed /\ Shaped /\ row \in Rows /\ bid \in Nat
        /\ th[t] \in ThreadRec /\ Shape(t, th[t])
        /\ th[t].size \in Nat /\ th[t].queue \in Seq(Acts)
    BY ThreadFacts, PriceAssumption DEF DeskInv, Typed
  <1>1. CASE PlaceOrder(t)
    <2>1. /\ t # Poller /\ th[t].pc = "idle" /\ row.status = "none"
          /\ range' = NULL /\ trade' = NoTrade
          /\ touched' = Touch(row', bid, Untouched) /\ slices' = 0 /\ bare' = 0
          /\ UNCHANGED <<mode, bid, account, faults, stale>>
      BY <1>1 DEF PlaceOrder
    <2>2. PICK d \in Directions, q \in Lots, attached \in BOOLEAN :
            LET fill == IF d = "BUY" THEN bid + Spread + EntrySlip ELSE bid - EntrySlip
            IN /\ row' = [status |-> "OPEN", dir |-> d, qty |-> q,
                          entry |-> fill, stop |-> IF attached THEN Plan[d].stop ELSE NULL,
                          target |-> Plan[d].target, why |-> NULL]
               /\ th' = [th EXCEPT ![t].pc = IF mode = "paper" THEN "fee" ELSE "fill",
                                   ![t].snap = row', ![t].size = q]
               /\ due' = [due EXCEPT !.fees = IF mode = "paper" THEN @ + q ELSE @]
      BY <1>1 DEF PlaceOrder, Directions
    <2> DEFINE fill == IF d = "BUY" THEN bid + Spread + EntrySlip ELSE bid - EntrySlip
               stop == IF attached THEN Plan[d].stop ELSE NULL
               label == IF mode = "paper" THEN "fee" ELSE "fill"
               r == [th[t] EXCEPT !.pc = label, !.snap = row', !.size = q]
               cost == IF mode = "paper" THEN due.fees + q ELSE due.fees
    <2>3. /\ row' = [status |-> "OPEN", dir |-> d, qty |-> q,
                     entry |-> fill, stop |-> stop, target |-> Plan[d].target,
                     why |-> NULL]
          /\ th' = [th EXCEPT ![t] = r]
          /\ due' = [due EXCEPT !.fees = cost]
      BY <2>2
    <2>4. q \in Nat /\ fill \in Int /\ stop \in Int \cup {NULL} /\ Plan[d].target \in Int
      BY <1>0, PriceAssumption, PlanFact
    <2>5. label \in {"fee", "fill"} /\ label \in Labels
      BY DEF Labels
    <2>6. due \in [lots : Int, fees : Int] /\ cost \in Int
      BY <1>0, <2>4 DEF Typed
    <2> HIDE DEF fill, stop, label, cost
    <2>7. row' \in Rows /\ row'.status = "OPEN"
      BY <2>3, <2>4 DEF Rows, Directions
    <2>8. r \in ThreadRec
      BY <1>0, <2>4, <2>5, <2>7 DEF ThreadRec
    <2>9. r.pc = label /\ r.snap = row' /\ r.queue = <<>>
      <3>1. th[t].queue = <<>>
        BY <1>0, <2>1 DEF Shape
      <3> QED
        BY <1>0, <3>1 DEF ThreadRec
    <2> HIDE DEF r
    <2>10. Shape(t, r)
      BY <2>1, <2>5, <2>7, <2>9 DEF Shape, Tracked, StopWork
    <2>11. th' \in [Threads -> ThreadRec] /\ Shaped'
      BY <1>0, <2>3, <2>8, <2>10, ThreadStep
    <2>12. due' \in [lots : Int, fees : Int]
      BY <2>3, <2>6
    <2>13. trade' \in Trades /\ touched' \in [stop : BOOLEAN, target : BOOLEAN]
           /\ range' \in [high : Int, low : Int] \cup {NULL}
      BY <2>1, TouchFact, EmptyTables
    <2> QED
      BY <1>0, <2>1, <2>7, <2>11, <2>12, <2>13 DEF DeskInv, Typed, Fresh
  <1>2. CASE EntryFee(t)
    <2>1. /\ th[t].pc = "fee" /\ To(t, "fill") /\ "fill" \in Labels
          /\ account' = [account EXCEPT !.fees = account.fees + th[t].size]
          /\ UNCHANGED <<mode, bid, row, range, trade, faults, history>>
      BY <1>2 DEF EntryFee, Labels
    <2>2. account' \in [lots : Nat, fees : Nat]
      BY <1>0, <2>1 DEF Typed
    <2> DEFINE r == [th[t] EXCEPT !.pc = "fill"]
    <2>3. r.pc = "fill" /\ r.queue = th[t].queue /\ r.snap = th[t].snap /\ t # Poller
          /\ th[t].snap \in Rows
      BY <1>0, <2>1 DEF ThreadRec, Shape
    <2>4. r.queue = <<>>
      BY <1>0, <2>3 DEF Shape
    <2> HIDE DEF r
    <2>5. Shape(t, r)
      BY <2>3, <2>4 DEF Shape, Tracked, StopWork
    <2>6. th' \in [Threads -> ThreadRec] /\ Shaped'
      BY <1>0, <2>1, <2>5, ToStep DEF r
    <2>7. row.status # "none"
      BY <2>1, AtWork
    <2> QED
      BY <1>0, <2>1, <2>2, <2>6, <2>7 DEF DeskInv, Typed, Fresh, history
  <1>3. CASE MarkOpen(t)
    <2>1. /\ th[t].pc = "fill" /\ (Done(t) \/ To(t, "verify"))
          /\ trade' = trade \/ trade' = [trade EXCEPT !.linked = TRUE, !.stop = Plan[row.dir].stop]
          /\ UNCHANGED <<mode, bid, row, range, account, faults, history>>
      BY <1>3 DEF MarkOpen
    <2>2. trade' \in Trades
      <3>1. trade \in Trades /\ Plan[row.dir].stop \in Int
        BY <1>0, PlanFact DEF Typed, Rows, Directions
      <3> QED
        BY <2>1, <3>1 DEF Trades
    <2>3. th' \in [Threads -> ThreadRec] /\ Shaped'
      BY <1>0, <2>1, DoneStep, StopWorkTo DEF StopWork
    <2>4. row.status # "none"
      BY <2>1, AtWork
    <2> QED
      BY <1>0, <2>1, <2>2, <2>3, <2>4 DEF DeskInv, Typed, Fresh, history
  <1>4. CASE VerifyStop(t) \/ VerifyRecord(t)
    <2>1. PICK s \in {th[t].snap.stop, Plan[row.dir].stop} :
            /\ th[t].pc \in {"verify", "attached"} /\ Done(t)
            /\ s = th[t].snap.stop => th[t].pc = "verify" \/ s = Plan[row.dir].stop
            /\ trade' = [trade EXCEPT !.stop = s]
            /\ UNCHANGED <<mode, bid, row, range, account, faults, history>>
      BY <1>4 DEF VerifyStop, VerifyRecord
    <2>2. s \in Int \cup {NULL}
      BY <1>0, <2>1, PlanFact DEF Shape, Rows, Directions
    <2>3. trade' \in Trades
      BY <1>0, <2>1, <2>2 DEF Typed, Trades
    <2>4. th' \in [Threads -> ThreadRec] /\ Shaped'
      BY <1>0, <2>1, DoneStep
    <2>5. row.status # "none"
      BY <2>1, AtWork
    <2> QED
      BY <1>0, <2>1, <2>3, <2>4, <2>5 DEF DeskInv, Typed, Fresh, history
  <1>5. CASE VerifyAttach(t)
    <2>1. /\ th[t].pc = "verify" /\ (Done(t) \/ To(t, "attached")) /\ Retouched
          /\ StopWritten(Plan[row.dir].stop) \/ UNCHANGED row
          /\ UNCHANGED <<mode, bid, range, account, trade, faults, due, slices, bare, stale>>
      BY <1>5 DEF VerifyAttach
    <2>2. row' \in Rows /\ row'.status = row.status
      BY <1>0, <2>1, PlanFact, StopWrittenFact DEF Rows, Directions
    <2>3. th' \in [Threads -> ThreadRec] /\ Shaped'
      BY <1>0, <2>1, DoneStep, StopWorkTo DEF StopWork
    <2>4. row.status # "none"
      BY <2>1, AtWork
    <2>5. touched' \in [stop : BOOLEAN, target : BOOLEAN]
      BY <2>1, TouchFact DEF Retouched
    <2> QED
      BY <1>0, <2>1, <2>2, <2>3, <2>4, <2>5 DEF DeskInv, Typed, Fresh
  <1> QED
    BY <1>1, <1>2, <1>3, <1>4, <1>5 DEF OrderStep

LEMMA ReconcileSteps ==
    ASSUME DeskInv, NEW t \in Threads, ReconcileStep(t)
    PROVE  DeskInv'
  <1>0. /\ Typed /\ Shaped /\ row \in Rows /\ trade \in Trades
        /\ th[t] \in ThreadRec /\ Shape(t, th[t])
        /\ th[t].size \in Nat /\ th[t].queue \in Seq(Acts)
    BY ThreadFacts DEF DeskInv, Typed
  <1>1. CASE Adopt(t)
    <2>1. /\ row.status = "OPEN"
          /\ UNCHANGED <<mode, bid, row, range, account, th, faults, history>>
      BY <1>1 DEF Adopt
    <2>2. PICK s \in {Plan[row.dir].stop, row.stop} :
            trade' = [trade EXCEPT !.linked = TRUE, !.stop = s]
      BY <1>1 DEF Adopt
    <2>3. s \in Int \cup {NULL}
      BY <1>0, PlanFact DEF Rows, Directions
    <2>4. trade' \in Trades
      BY <1>0, <2>2, <2>3 DEF Trades
    <2>5. th' \in [Threads -> ThreadRec] /\ Shaped'
      BY <1>0, <2>1 DEF Typed, Shaped
    <2> QED
      BY <1>0, <2>1, <2>4, <2>5 DEF DeskInv, Typed, Fresh, history
  <1>2. CASE RepairRead(t)
    <2> DEFINE r == [th[t] EXCEPT !.pc = "repair", !.snap = row]
    <2>1. /\ t # Poller /\ th[t].pc = "idle" /\ row.status = "OPEN" /\ th' = [th EXCEPT ![t] = r]
          /\ UNCHANGED <<mode, bid, range, tables, faults, history>>
      BY <1>2 DEF RepairRead
    <2>2. r \in ThreadRec /\ r.pc = "repair" /\ r.snap = row /\ r.queue = th[t].queue
      BY <1>0 DEF ThreadRec, Labels
    <2>3. th[t].queue = <<>>
      BY <1>0, <2>1 DEF Shape
    <2> HIDE DEF r
    <2>4. Shape(t, r)
      BY <1>0, <2>1, <2>2, <2>3 DEF Shape, Tracked, StopWork
    <2> QED
      BY <1>0, <2>1, <2>2, <2>4, ThreadStep, ThreadsMove
  <1>3. CASE RepairPlan(t)
    <2>1. th[t].pc = "repair" /\ UNCHANGED <<mode, bid, range, tables, faults, history>>
      BY <1>3 DEF RepairPlan
    <2>2. row.status # "none"
      BY <2>1, AtWork
    <2>3. CASE Done(t)
      BY <1>0, <2>1, <2>2, <2>3, DoneStep, ThreadsMove
    <2>4. CASE ~Done(t)
      <3> DEFINE s == [th[t].snap EXCEPT !.stop = trade.stop]
                 r == [th[t] EXCEPT !.pc = "restore", !.snap = s]
      <3>1. th[t].snap \in Rows /\ t # Poller /\ th[t].queue = <<>>
        BY <1>0, <2>1 DEF Shape, StopWork
      <3>2. th' = [th EXCEPT ![t] = r] /\ trade.stop # NULL
        BY <1>3, <2>4 DEF RepairPlan
      <3>3. trade.stop \in Int
        BY <1>0, <3>2 DEF Trades
      <3>4. s \in Rows /\ s.stop \in Int
        BY <3>1, <3>3 DEF Rows
      <3> HIDE DEF s
      <3>5. r \in ThreadRec /\ r.pc = "restore" /\ r.snap = s /\ r.queue = th[t].queue
        BY <1>0, <3>4 DEF ThreadRec, Labels
      <3> HIDE DEF r
      <3>6. Shape(t, r)
        BY <3>1, <3>4, <3>5 DEF Shape, Tracked, StopWork
      <3> QED
        BY <1>0, <2>1, <2>2, <3>2, <3>5, <3>6, ThreadStep, ThreadsMove
    <2> QED
      BY <2>3, <2>4
  <1>4. CASE RepairWrite(t)
    <2>1. /\ th[t].pc = "restore" /\ Done(t) /\ Retouched
          /\ StopWritten(th[t].snap.stop) \/ UNCHANGED row
          /\ UNCHANGED <<mode, bid, range, account, trade, faults, due, slices, bare, stale>>
      BY <1>4 DEF RepairWrite
    <2>2. th[t].snap.stop \in Int
      BY <1>0, <2>1 DEF Shape
    <2>3. row' \in Rows /\ row'.status = row.status
      BY <1>0, <2>1, <2>2, StopWrittenFact
    <2>4. th' \in [Threads -> ThreadRec] /\ Shaped'
      BY <1>0, <2>1, DoneStep
    <2>5. row.status # "none"
      BY <2>1, AtWork
    <2>6. touched' \in [stop : BOOLEAN, target : BOOLEAN]
      BY <2>1, TouchFact DEF Retouched
    <2> QED
      BY <1>0, <2>1, <2>3, <2>4, <2>5, <2>6 DEF DeskInv, Typed, Fresh
  <1> QED
    BY <1>1, <1>2, <1>3, <1>4 DEF ReconcileStep

\* The action at the head of the plan.
LEMMA ActionFacts ==
    ASSUME Typed, Shaped, th[Poller].pc \in {"apply", "modify", "record", "closed"}
    PROVE  /\ Action \in Acts /\ Action.qty \in Nat
           /\ Action.kind \in {"MOVE_STOP", "PARTIAL_CLOSE", "CLOSE"}
           /\ Action.kind = "MOVE_STOP" => Action.stop \in Int
           /\ th[Poller].pc \in {"modify", "record"} => Action.kind = "MOVE_STOP"
  <1>1. /\ Poller \in Threads /\ th[Poller].queue \in Seq(Acts) /\ th[Poller].queue # <<>>
        /\ th[Poller].pc \in {"modify", "record"} => Head(th[Poller].queue).kind = "MOVE_STOP"
    BY PollerIsThread, ThreadFacts DEF Shape
  <1>2. Head(th[Poller].queue) \in Acts
    BY <1>1, TailFacts
  <1> QED
    BY <1>1, <1>2 DEF Action, Acts

LEMMA SlicedFact ==
    ASSUME slices \in 0..3, bare \in 0..2, Sliced
    PROVE  slices' \in 0..3 /\ bare' \in 0..2
  <1>1. slices' = slices \/ (slices < 3 /\ slices' = slices + 1)
    BY DEF Sliced
  <1>2. bare' = bare \/ (bare < 2 /\ bare' = bare + 1)
    BY DEF Sliced
  <1> QED
    BY <1>1, <1>2

\* The poller changes its label between two parts of one action.
LEMMA PollerTo ==
    ASSUME Typed, Shaped, NEW label \in {"modify", "record", "closed"}, To(Poller, label),
           th[Poller].pc \in {"apply", "modify"},
           label \in {"modify", "record"} => Action.kind = "MOVE_STOP"
    PROVE  th' \in [Threads -> ThreadRec] /\ Shaped'
  <1>1. /\ Poller \in Threads /\ th[Poller] \in ThreadRec /\ th[Poller].queue # <<>>
        /\ label \in Labels
    BY PollerIsThread, ThreadFacts DEF Shape, Labels
  <1> DEFINE r == [th[Poller] EXCEPT !.pc = label]
  <1>2. r.pc = label /\ r.queue = th[Poller].queue
    BY <1>1 DEF ThreadRec
  <1> HIDE DEF r
  <1>3. Shape(Poller, r)
    BY <1>1, <1>2 DEF Shape, Tracked, StopWork, Action
  <1> QED
    BY <1>1, <1>3, ToStep DEF r

LEMMA PlanSteps ==
    ASSUME DeskInv, LiveRead \/ Track \/ Decide \/ ActionFails \/ ModifyCheck
    PROVE  DeskInv'
  <1>0. /\ Typed /\ Shaped /\ row \in Rows /\ bid \in Nat /\ trade \in Trades
        /\ Poller \in Threads /\ th[Poller] \in ThreadRec /\ Shape(Poller, th[Poller])
        /\ th[Poller].queue \in Seq(Acts)
    BY PollerIsThread, ThreadFacts, PriceAssumption DEF DeskInv, Typed
  <1>1. CASE LiveRead
    <2> DEFINE r == [th[Poller] EXCEPT !.pc = "track", !.snap = row]
    <2>1. /\ th' = [th EXCEPT ![Poller] = r] /\ row.status = "OPEN" /\ th[Poller].pc = "idle"
          /\ UNCHANGED <<mode, bid, range, tables, faults, history>>
      BY <1>1 DEF LiveRead
    <2>2. r \in ThreadRec /\ r.pc = "track" /\ r.snap = row /\ r.queue = th[Poller].queue
      BY <1>0 DEF ThreadRec, Labels
    <2>3. th[Poller].queue = <<>>
      BY <1>0, <2>1 DEF Shape, Idle
    <2> HIDE DEF r
    <2>4. Shape(Poller, r)
      BY <1>0, <2>2, <2>3 DEF Shape, Tracked, StopWork
    <2> QED
      BY <1>0, <2>1, <2>2, <2>4, ThreadStep, ThreadsMove
  <1>2. CASE Track
    <2>1. th[Poller].pc = "track" /\ UNCHANGED <<mode, bid, range, tables, faults, history>>
      BY <1>2 DEF Track
    <2>2. row.status # "none"
      BY <1>0, <2>1, AtWork
    <2>3. CASE Done(Poller)
      BY <1>0, <2>1, <2>2, <2>3, DoneStep, ThreadsMove
    <2>4. CASE ~Done(Poller)
      <3> DEFINE s == th[Poller].snap
                 label == IF mode = "paper" THEN "account" ELSE "plan"
                 p == [dir |-> s.dir, qty |-> s.qty, entry |-> s.entry,
                       stop |-> s.stop, price |-> Exit(s.dir, bid)]
                 r == [th[Poller] EXCEPT !.pc = label, !.snap = NULL, !.seen = p]
      <3>1. th' = [th EXCEPT ![Poller] = r]
        BY <1>2, <2>4 DEF Track
      <3>2. s \in Rows /\ th[Poller].queue = <<>>
        BY <1>0, <2>1 DEF Shape
      <3>3. p \in Seen
        <4>1. Exit(s.dir, bid) \in Int
          BY <1>0, PriceAssumption DEF Exit
        <4> QED
          BY <3>2, <4>1 DEF Seen, Rows, Directions
      <3>4. label \in {"account", "plan"} /\ label \in Labels
        BY DEF Labels
      <3> HIDE DEF label, p
      <3>5. r \in ThreadRec /\ r.pc = label /\ r.queue = <<>> /\ r.seen = p
        BY <1>0, <3>2, <3>3, <3>4 DEF ThreadRec
      <3> HIDE DEF r
      <3>6. Shape(Poller, r)
        BY <3>3, <3>4, <3>5 DEF Shape, Tracked, StopWork
      <3> QED
        BY <1>0, <2>1, <2>2, <3>1, <3>5, <3>6, ThreadStep, ThreadsMove
    <2> QED
      BY <2>3, <2>4
  <1>3. CASE Decide
    <2>1. th[Poller].pc = "plan" /\ UNCHANGED <<mode, bid, range, tables, faults, history>>
      BY <1>3 DEF Decide
    <2>2. row.status # "none"
      BY <1>0, <2>1, AtWork
    <2>3. CASE Done(Poller)
      BY <1>0, <2>1, <2>2, <2>3, DoneStep, ThreadsMove
    <2>4. CASE ~Done(Poller)
      <3> DEFINE p == th[Poller].seen
                 invalidated == /\ trade.linked /\ trade.stop # NULL
                                /\ Gain(p.dir, trade.stop, p.price) < 0
      <3>1. PICK aged \in BOOLEAN :
              /\ PlanActions(p, trade, invalidated, aged) # <<>>
              /\ th' = [th EXCEPT ![Poller].pc = "apply",
                            ![Poller].queue = PlanActions(p, trade, invalidated, aged)]
        BY <1>3, <2>4 DEF Decide
      <3>2. p \in Seen
        BY <1>0, <2>1 DEF Shape, Tracked, StopWork
      <3>3. invalidated \in BOOLEAN
        BY <1>0 DEF Trades
      <3> DEFINE q == PlanActions(p, trade, invalidated, aged)
                 r == [th[Poller] EXCEPT !.pc = "apply", !.queue = q]
      <3> HIDE DEF invalidated, p
      <3>4. q \in Seq(Acts)
        BY <1>0, <3>2, <3>3, PlanInOrder
      <3> HIDE DEF q
      <3>5. th' = [th EXCEPT ![Poller] = r] /\ q # <<>>
        BY <3>1 DEF q, p
      <3>6. r \in ThreadRec /\ r.pc = "apply" /\ r.queue = q
        BY <1>0, <3>4 DEF ThreadRec, Labels
      <3> HIDE DEF r
      <3>7. Shape(Poller, r)
        BY <3>5, <3>6 DEF Shape, Tracked, StopWork
      <3> QED
        BY <1>0, <2>1, <2>2, <3>5, <3>6, <3>7, ThreadStep, ThreadsMove
    <2> QED
      BY <2>3, <2>4
  <1>4. CASE ActionFails
    <2>1. /\ th[Poller].pc = "apply" /\ NextAction
          /\ UNCHANGED <<mode, bid, range, tables, faults, history>>
      BY <1>4 DEF ActionFails
    <2> QED
      BY <1>0, <2>1, AtWork, NextActionStep, ThreadsMove
  <1>5. CASE ModifyCheck
    <2>1. /\ th[Poller].pc = "apply" /\ Action.kind = "MOVE_STOP" /\ To(Poller, "modify")
          /\ UNCHANGED <<mode, bid, range, tables, faults, history>>
      BY <1>5 DEF ModifyCheck
    <2> QED
      BY <1>0, <2>1, AtWork, PollerTo, ThreadsMove
  <1> QED
    BY <1>1, <1>2, <1>3, <1>4, <1>5

LEMMA StopSteps ==
    ASSUME DeskInv, ModifyWrite \/ RecordStop \/ LiveModify
    PROVE  DeskInv'
  <1>0. /\ Typed /\ Shaped /\ row \in Rows /\ bid \in Nat /\ trade \in Trades
        /\ touched \in [stop : BOOLEAN, target : BOOLEAN]
    BY PriceAssumption DEF DeskInv, Typed
  <1>1. CASE ModifyWrite
    <2>1. /\ th[Poller].pc = "modify" /\ row' = [row EXCEPT !.stop = Action.stop]
          /\ Retouched
          /\ To(Poller, "record")
          /\ UNCHANGED <<mode, bid, range, account, trade, faults, due, slices, bare, stale>>
      BY <1>1 DEF ModifyWrite
    <2>2. Action.kind = "MOVE_STOP" /\ Action.stop \in Int
      BY <1>0, <2>1, ActionFacts
    <2>3. row' \in Rows /\ row'.status = row.status
      BY <1>0, <2>1, <2>2 DEF Rows
    <2>4. th' \in [Threads -> ThreadRec] /\ Shaped'
      BY <1>0, <2>1, <2>2, PollerTo
    <2>5. row.status # "none"
      BY <2>1, AtWork, PollerIsThread
    <2>6. touched' \in [stop : BOOLEAN, target : BOOLEAN]
      BY <2>1, TouchFact DEF Retouched
    <2> QED
      BY <1>0, <2>1, <2>3, <2>4, <2>5, <2>6 DEF DeskInv, Typed, Fresh
  <1>2. CASE RecordStop
    <2>1. /\ th[Poller].pc = "record" /\ NextAction
          /\ trade' = IF trade.linked THEN [trade EXCEPT !.stop = Action.stop] ELSE trade
          /\ UNCHANGED <<mode, bid, row, range, account, faults, history>>
      BY <1>2 DEF RecordStop
    <2>2. Action.stop \in Int
      BY <1>0, <2>1, ActionFacts
    <2>3. trade' \in Trades
      BY <1>0, <2>1, <2>2 DEF Trades
    <2>4. th' \in [Threads -> ThreadRec] /\ Shaped'
      BY <1>0, <2>1, NextActionStep
    <2>5. row.status # "none"
      BY <2>1, AtWork, PollerIsThread
    <2> QED
      BY <1>0, <2>1, <2>3, <2>4, <2>5 DEF DeskInv, Typed, Fresh, history
  <1>3. CASE LiveModify
    <2>1. /\ th[Poller].pc = "apply" /\ Action.kind = "MOVE_STOP"
          /\ Retouched
          /\ StopWritten(Action.stop) \/ UNCHANGED row
          /\ To(Poller, "record") \/ NextAction
          /\ UNCHANGED <<mode, bid, range, account, trade, faults, due, slices, bare, stale>>
      BY <1>3 DEF LiveModify
    <2>2. Action.stop \in Int
      BY <1>0, <2>1, ActionFacts
    <2>3. row' \in Rows /\ row'.status = row.status
      BY <1>0, <2>1, <2>2, StopWrittenFact
    <2>4. th' \in [Threads -> ThreadRec] /\ Shaped'
      BY <1>0, <2>1, PollerTo, NextActionStep
    <2>5. row.status # "none"
      BY <2>1, AtWork, PollerIsThread
    <2>6. touched' \in [stop : BOOLEAN, target : BOOLEAN]
      BY <2>1, TouchFact DEF Retouched
    <2> QED
      BY <1>0, <2>1, <2>3, <2>4, <2>5, <2>6 DEF DeskInv, Typed, Fresh
  <1> QED
    BY <1>1, <1>2, <1>3

LEMMA CloseSteps ==
    ASSUME DeskInv, CloseCheck \/ Flag \/ LiveClose
    PROVE  DeskInv'
  <1>0. /\ Typed /\ Shaped /\ row \in Rows /\ row.qty \in Nat /\ trade \in Trades /\ slices \in 0..3 /\ bare \in 0..2
        /\ Poller \in Threads /\ th[Poller] \in ThreadRec /\ Shape(Poller, th[Poller])
    BY PollerIsThread, ThreadFacts DEF DeskInv, Typed, Rows
  <1>1. CASE CloseCheck
    <2> DEFINE part == Action.qty > 0 /\ Action.qty < row.qty
               reason == IF part THEN "PARTIAL" ELSE "MANUAL"
               lots == IF part THEN Action.qty ELSE row.qty
               r == [th[Poller] EXCEPT !.pc = "close", !.snap = row, !.why = reason, !.size = lots]
    <2>1. /\ th[Poller].pc = "apply" /\ row.status = "OPEN" /\ Sliced
          /\ th' = [th EXCEPT ![Poller] = r]
          /\ UNCHANGED <<mode, bid, range, tables, faults, due, touched, stale>>
      BY <1>1 DEF CloseCheck, IsOpenNow
    <2>2. Action.qty \in Nat
      BY <1>0, <2>1, ActionFacts
    <2>3. /\ lots \in Nat /\ lots <= row.qty /\ reason \in Whys \cup {"PARTIAL"}
          /\ reason = "PARTIAL" <=> lots < row.qty
      BY <1>0, <2>2 DEF Whys
    <2> HIDE DEF lots, reason
    <2>4. /\ r \in ThreadRec /\ r.pc = "close" /\ r.snap = row /\ r.why = reason
          /\ r.size = lots /\ r.queue = th[Poller].queue
      BY <1>0, <2>3 DEF ThreadRec, Labels
    <2>5. th[Poller].queue # <<>>
      BY <1>0, <2>1 DEF Shape
    <2> HIDE DEF r
    <2>6. Shape(Poller, r)
      BY <1>0, <2>3, <2>4, <2>5 DEF Shape, Tracked, StopWork
    <2>7. th' \in [Threads -> ThreadRec] /\ Shaped'
      BY <1>0, <2>1, <2>4, <2>6, ThreadStep
    <2>8. slices' \in 0..3 /\ bare' \in 0..2
      BY <1>0, <2>1, SlicedFact
    <2> QED
      BY <1>0, <2>1, <2>7, <2>8 DEF DeskInv, Typed, Fresh, tables
  <1>2. CASE Flag
    <2>1. /\ th[Poller].pc = "closed" /\ NextAction
          /\ trade' = IF Action.kind = "PARTIAL_CLOSE" /\ trade.linked
                      THEN [trade EXCEPT !.partial = TRUE] ELSE trade
          /\ UNCHANGED <<mode, bid, row, range, account, faults, history>>
      BY <1>2 DEF Flag
    <2>2. trade' \in Trades
      BY <1>0, <2>1 DEF Trades
    <2>3. th' \in [Threads -> ThreadRec] /\ Shaped'
      BY <1>0, <2>1, NextActionStep
    <2>4. row.status # "none"
      BY <1>0, <2>1, AtWork
    <2> QED
      BY <1>0, <2>1, <2>2, <2>3, <2>4 DEF DeskInv, Typed, Fresh, history
  <1>3. CASE LiveClose
    <2>1. /\ th[Poller].pc = "apply" /\ To(Poller, "closed") /\ Sliced
          /\ UNCHANGED <<mode, bid, range, account, trade, faults, due, touched, stale>>
      BY <1>3 DEF LiveClose
    <2>2. Action.qty \in Nat
      BY <1>0, <2>1, ActionFacts
    <2>3. row.status # "none"
      BY <1>0, <2>1, AtWork
    <2>4. row' \in Rows /\ row'.status # "none"
      <3>1. CASE row' = row
        BY <1>0, <2>3, <3>1
      <3>2. CASE Action.qty < row.qty /\ row' = [row EXCEPT !.qty = row.qty - Action.qty]
        <4>1. row.qty - Action.qty \in Nat
          BY <1>0, <2>2, <3>2
        <4> QED
          BY <1>0, <2>3, <3>2, <4>1 DEF Rows
      <3>3. CASE row' = [row EXCEPT !.status = "CLOSED", !.why = "MANUAL"]
        BY <1>0, <3>3 DEF Rows
      <3> QED
        BY <1>3, <3>1, <3>2, <3>3 DEF LiveClose
    <2>5. th' \in [Threads -> ThreadRec] /\ Shaped'
      BY <1>0, <2>1, PollerTo
    <2>6. slices' \in 0..3 /\ bare' \in 0..2
      BY <1>0, <2>1, SlicedFact
    <2> QED
      BY <1>0, <2>1, <2>3, <2>4, <2>5, <2>6 DEF DeskInv, Typed, Fresh
  <1> QED
    BY <1>1, <1>2, <1>3

LEMMA MarketSteps ==
    ASSUME DeskInv, MarketStep
    PROVE  DeskInv'
  <1>0. /\ Typed /\ Shaped /\ row \in Rows /\ bid \in Nat
        /\ range \in [high : Int, low : Int] \cup {NULL}
    BY PriceAssumption DEF DeskInv, Typed
  <1>1. CASE PriceMoves
    <2>1. /\ row.status = "OPEN" /\ bid' \in Bids
          /\ range' = Extend(range, bid') /\ touched' = Touch(row, bid', touched)
          /\ UNCHANGED <<mode, tables, th, faults, due, slices, bare, stale>>
      BY <1>1 DEF PriceMoves
    <2>2. range' \in [high : Int, low : Int] \cup {NULL}
      BY <1>0, <2>1, PriceAssumption DEF Extend
    <2>3. touched' \in [stop : BOOLEAN, target : BOOLEAN]
      BY <2>1 DEF Touch
    <2>4. th' \in [Threads -> ThreadRec] /\ Shaped'
      BY <1>0, <2>1 DEF Typed, Shaped
    <2> QED
      BY <1>0, <2>1, <2>2, <2>3, <2>4 DEF DeskInv, Typed, Fresh, tables
  <1>2. CASE CandleOpens
    <2>1. /\ row.status = "OPEN" /\ range' = At(bid)
          /\ UNCHANGED <<mode, bid, tables, th, faults, history>>
      BY <1>2 DEF CandleOpens
    <2>2. range' \in [high : Int, low : Int] \cup {NULL}
      BY <1>0, <2>1 DEF At
    <2>3. th' \in [Threads -> ThreadRec] /\ Shaped'
      BY <1>0, <2>1 DEF Typed, Shaped
    <2> QED
      BY <1>0, <2>1, <2>2, <2>3 DEF DeskInv, Typed, Fresh, tables, history
  <1>3. CASE BrokerSettles
    <2> DEFINE verdict == Settlement(row, Exit(row.dir, bid), NULL)
    <2>1. /\ verdict # NULL
          /\ row' = [row EXCEPT !.status = "CLOSED", !.why = verdict]
          /\ UNCHANGED <<mode, bid, range, account, trade, th, faults, history>>
      BY <1>3 DEF BrokerSettles
    <2>2. verdict \in Whys
      BY <2>1, SettlementFact
    <2> HIDE DEF verdict
    <2>3. row' \in Rows /\ row'.status = "CLOSED"
      BY <1>0, <2>1, <2>2 DEF Rows, Whys
    <2>4. th' \in [Threads -> ThreadRec] /\ Shaped'
      BY <1>0, <2>1 DEF Typed, Shaped
    <2> QED
      BY <1>0, <2>1, <2>3, <2>4 DEF DeskInv, Typed, Fresh, history
  <1> QED
    BY <1>1, <1>2, <1>3 DEF MarketStep

LEMMA CrashStep ==
    ASSUME DeskInv, Crash
    PROVE  DeskInv'
  <1>1. /\ faults < MaxFaults /\ faults' = faults + 1 /\ th' = [t \in Threads |-> Idle]
        /\ UNCHANGED <<mode, bid, range, tables, history>>
    BY DEF Crash
  <1>2. faults' \in 0..MaxFaults
    BY <1>1, LevelAssumption DEF DeskInv, Typed
  <1>3. th' \in [Threads -> ThreadRec] /\ Shaped'
    BY <1>1, IdleShape DEF Shaped
  <1>4. \A t \in Threads : th'[t].pc = "idle"
    BY <1>1 DEF Idle
  <1> QED
    BY <1>1, <1>2, <1>3, <1>4 DEF DeskInv, Typed, Fresh, tables, history

LEMMA RaiseStep ==
    ASSUME DeskInv, NEW t \in Threads, Raises(t)
    PROVE  DeskInv'
  <1>1. /\ faults < MaxFaults /\ faults' = faults + 1 /\ Done(t) /\ th[t].pc # "idle"
        /\ UNCHANGED <<mode, bid, range, tables, history>>
    BY DEF Raises
  <1>2. faults' \in 0..MaxFaults
    BY <1>1, LevelAssumption DEF DeskInv, Typed
  <1>3. th' \in [Threads -> ThreadRec] /\ Shaped' /\ row.status # "none"
    BY <1>1, AtWork, DoneStep DEF DeskInv
  <1> QED
    BY <1>1, <1>2, <1>3 DEF DeskInv, Typed, Fresh, tables, history

LEMMA DeskStart == Init => DeskInv
  <1> SUFFICES ASSUME Init PROVE DeskInv
    OBVIOUS
  <1>1. NoRow \in Rows /\ NoTrade \in Trades /\ NoMoney \in [lots : Nat, fees : Nat]
    BY EmptyTables
  <1>2. th \in [Threads -> ThreadRec] /\ Shaped /\ \A t \in Threads : th[t].pc = "idle"
    BY IdleShape DEF Init, Shaped, Idle
  <1>3. 0 \in 0..MaxFaults
    BY LevelAssumption
  <1>4. NoMoney \in [lots : Int, fees : Int]
    BY DEF NoMoney
  <1>5. Untouched \in [stop : BOOLEAN, target : BOOLEAN]
    BY DEF Untouched
  <1>6. Typed
    <2>1. faults \in 0..MaxFaults /\ slices \in 0..3 /\ bare \in 0..2
          /\ mode \in {"paper", "live"}
      BY <1>3, ModeAssumption DEF Init
    <2> QED
      BY <1>1, <1>2, <1>4, <1>5, <2>1 DEF Init, Typed
  <1> QED
    BY <1>2, <1>6 DEF Init, DeskInv, Fresh

LEMMA DeskStep == DeskInv /\ [Next]_vars => DeskInv'
  <1> SUFFICES ASSUME DeskInv, [Next]_vars PROVE DeskInv'
    OBVIOUS
  <1>1. ASSUME NEW t \in Threads, ReadStep(t) \/ OrderStep(t) \/ ReconcileStep(t) \/ Raises(t)
        PROVE  DeskInv'
    BY <1>1, ReadSteps, OrderSteps, ReconcileSteps, RaiseStep
  <1>2. CASE ManageStep
    BY <1>2, PlanSteps, StopSteps, CloseSteps DEF ManageStep
  <1>3. CASE MarketStep
    BY <1>3, MarketSteps
  <1>4. CASE Crash
    BY <1>4, CrashStep
  <1>5. CASE UNCHANGED vars
    BY <1>5 DEF DeskInv, Typed, Shaped, Fresh, vars, history
  <1> QED
    BY <1>1, <1>2, <1>3, <1>4, <1>5 DEF Next

\* The tables and the threads keep their types: the row that paper.py writes from
\* what a thread read of it, the account, the plan of the manager.
THEOREM DeskTypes == Spec => []TypeOK
  <1>1. DeskInv => TypeOK
    <2> SUFFICES ASSUME DeskInv PROVE TypeOK
      OBVIOUS
    <2>1. \A t \in Threads : th[t].pc \in Labels /\ (th[t].pc = "apply" => th[t].queue # <<>>)
      BY ThreadFacts DEF DeskInv, Shape
    <2> QED
      BY <2>1 DEF DeskInv, Typed, Trades, TypeOK
  <1> QED
    BY <1>1, DeskStart, DeskStep, PTL DEF Spec

=============================================================================
