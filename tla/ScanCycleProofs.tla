-------------------------- MODULE ScanCycleProofs --------------------------
(***************************************************************************)
(* Proofs about ScanCycle, for any number of scan threads, control         *)
(* threads, symbols, trades per session, faults and unseen fills.           *)
(***************************************************************************)
EXTENDS ScanCycle, FiniteSetTheorems, TLAPS

Thread == [pc : ScanPCs, reason : CLEARABLE \cup SAFETY \cup {NULL},
           seen : Account \cup {NULL}, todo : SUBSET Symbols,
           weighed : SUBSET Symbols, approved : SUBSET Symbols, sent : SUBSET Symbols]

TypeFlags ==
    /\ enabled \in BOOLEAN /\ cooling \in BOOLEAN /\ breach \in BOOLEAN
    /\ ready \in BOOLEAN

TypeRows ==
    /\ switch \in CLEARABLE \cup SAFETY \cup {"clear"}
    /\ lock \in Scanners \cup {NULL}
    /\ boot \in {"fresh", "idle", "session", "trip"}
    /\ exposed \in SUBSET Symbols
    /\ failed \in SUBSET (EXECUTION_FAILURE_STATUSES \cup {"UNVERIFIED"})

TypeCounts ==
    counted \in Nat /\ taken \in Nat /\ blind \in 0..MaxBlind /\ faults \in 0..MaxFaults

TypeScan == scan \in [Scanners -> Thread]

TypeClerk == clerk \in [Clerks -> [pc : {"idle", "trip", "clear"}, force : BOOLEAN]]

Typed == TypeFlags /\ TypeRows /\ TypeCounts /\ TypeScan /\ TypeClerk

\* Where a thread stands once its order has left the process.
Sent == {"bump", "failure", "end"}

\* The symbols of a thread that have passed the hard blocks.
Past(th) == th.approved \cup th.weighed

\* A failure that starts the cooldown has happened since one elapsed.
Owed == failed \cap EXECUTION_FAILURE_STATUSES # {}

\* The positions that are counted, or that nobody could count.
Accounted == counted + faults + blind

\* The thread has read the account and is judged on what it read.
Judging(th) ==
    \/ th.pc \in {"switch", "evaluate", "execute"} \cup Sent
    \/ th.pc \in {"trip", "latch"} /\ th.reason \notin SAFETY

\* The scan lock: a thread that is not idle holds it, and an idle one carries
\* nothing over from an earlier scan.
Exclusive ==
    \A t \in Scanners : /\ scan[t].pc = "idle" => scan[t] = ScanIdle
                        /\ scan[t].pc # "idle" => lock = t

\* A thread that trips has a reason.
Reasoned ==
    \A t \in Scanners : scan[t].pc \in {"trip", "latch"} => scan[t].reason \in CLEARABLE \cup SAFETY

\* What the running scan read of the account still stands.
SeenStands ==
    \A t \in Scanners : Judging(scan[t]) =>
        /\ scan[t].seen \in Account
        /\ scan[t].seen.cooling = cooling /\ scan[t].seen.counted = counted

\* What is past the hard blocks, and what has just been opened, was below the limits.
WithinLimits ==
    \A t \in Scanners : Past(scan[t]) # {} \/ scan[t].pc = "bump" =>
        Judging(scan[t]) /\ ~cooling /\ counted < MaxPerSession

\* An order leaves at the end of a scan.
SentLast ==
    \A t \in Scanners :
        /\ scan[t].pc \notin Sent => scan[t].sent = {}
        /\ scan[t].pc \in Sent => \E s \in Symbols : scan[t].sent = {s}

\* What was past the blocks when the trip was written is all that is past them now.
Exposed == Active => \A t \in Scanners : Past(scan[t]) \subseteq exposed

\* Every opened position is counted, is about to be, or fell to a fault.
Counting ==
    /\ counted <= MaxPerSession
    /\ taken <= Accounted + 1
    /\ (\A t \in Scanners : scan[t].pc # "bump") => taken <= Accounted

\* A failure is recorded or about to be.
FailureKnown == Owed => cooling \/ \E t \in Scanners : scan[t].pc = "failure"

IInv ==
    /\ Typed /\ Exclusive /\ Reasoned /\ SeenStands /\ WithinLimits
    /\ SentLast /\ Exposed /\ Counting /\ FailureKnown

USE DEF Sent

LEMMA InitIInv == Init => IInv
  <1> SUFFICES ASSUME Init PROVE IInv
    OBVIOUS
  <1> USE DEF Init, ScanIdle
  <1>1. ScanIdle \in Thread
    BY DEF Thread, Past, ScanPCs
  <1>2. TypeFlags /\ TypeRows
    BY DEF TypeFlags, TypeRows
  <1>3. TypeCounts
    BY LimitAssumption DEF TypeCounts
  <1>4. TypeScan /\ TypeClerk
    BY <1>1 DEF TypeScan, TypeClerk, ClerkIdle
  <1>5. Exclusive /\ Reasoned /\ SeenStands /\ WithinLimits /\ SentLast /\ Exposed
    BY DEF Exclusive, Reasoned, SeenStands, WithinLimits, SentLast, Exposed, Judging, Active, Past
  <1>6. Counting /\ FailureKnown
    BY LimitAssumption DEF Counting, FailureKnown, Accounted, Owed
  <1> QED
    BY <1>2, <1>3, <1>4, <1>5, <1>6 DEF IInv, Typed

\* The lock admits one scan: next to a thread that runs, or that could take the
\* lock, every other one is idle.
LEMMA Alone ==
    ASSUME IInv, NEW t \in Scanners, scan[t].pc # "idle" \/ lock = NULL
    PROVE  \A u \in Scanners \ {t} : scan[u] = ScanIdle
  BY NullAssumption DEF IInv, Exclusive

\* The thread of a scan, and the thread a return leaves behind.
LEMMA Threads ==
    /\ ScanIdle \in Thread /\ ~Judging(ScanIdle)
    /\ TypeScan => \A t \in Scanners : scan[t] \in Thread
  BY DEF Thread, Past, ScanPCs, ScanIdle, TypeScan, Judging

\* A step of thread t alone keeps the invariant when the thread it leaves behind
\* agrees with the rows it leaves behind.
LEMMA ThreadStep ==
    ASSUME IInv, NEW t \in Scanners, scan[t].pc # "idle" \/ lock = NULL,
           NEW x \in Thread, ScanTo(t, x), TypeFlags', TypeRows', TypeCounts', TypeClerk',
           x.pc = "idle" => x = ScanIdle, x.pc # "idle" => lock' = t,
           x.pc \in {"trip", "latch"} => x.reason \in CLEARABLE \cup SAFETY,
           Judging(x) => /\ x.seen \in Account
                         /\ x.seen.cooling = cooling' /\ x.seen.counted = counted',
           Past(x) # {} \/ x.pc = "bump" =>
                Judging(x) /\ ~cooling' /\ counted' < MaxPerSession,
           x.pc \notin Sent => x.sent = {},
           x.pc \in Sent => \E s \in Symbols : x.sent = {s},
           Active' => Past(x) \subseteq exposed',
           counted' <= MaxPerSession, taken' <= Accounted' + 1,
           x.pc # "bump" => taken' <= Accounted',
           Owed' => cooling' \/ x.pc = "failure"
    PROVE  IInv'
  <1>1. /\ scan' \in [Scanners -> Thread] /\ scan'[t] = x
        /\ \A u \in Scanners : u = t \/ scan'[u] = ScanIdle
    BY Alone DEF IInv, Typed, TypeScan, ScanTo
  <1>2. Typed'
    BY <1>1 DEF Typed, TypeScan
  <1>3. Exclusive' /\ Reasoned'
    BY <1>1 DEF Exclusive, Reasoned, ScanIdle
  <1>4. SeenStands'
    BY <1>1, Threads DEF SeenStands
  <1>5. WithinLimits'
    BY <1>1 DEF WithinLimits, ScanIdle, Past
  <1>6. SentLast'
    BY <1>1 DEF SentLast, ScanIdle
  <1>7. Exposed'
    BY <1>1 DEF Exposed, ScanIdle, Past
  <1>8. Counting'
    BY <1>1 DEF Counting
  <1>9. FailureKnown'
    BY <1>1 DEF FailureKnown
  <1> QED
    BY <1>2, <1>3, <1>4, <1>5, <1>6, <1>7, <1>8, <1>9 DEF IInv

LEMMA OneMore ==
    ASSUME TypeCounts', taken' <= Accounted'
    PROVE  taken' <= Accounted' + 1
  <1>1. \A i, j \in Nat : i <= j => i <= j + 1
    OBVIOUS
  <1>2. \A i, j \in Nat, k \in 0..MaxFaults, l \in 0..MaxBlind : j + k + l \in Nat
    BY LimitAssumption
  <1>3. taken' \in Nat /\ Accounted' \in Nat
    BY <1>2, Zenon DEF TypeCounts, Accounted
  <1> QED
    BY <1>1, <1>3, Zenon

\* A return keeps it: only the counts and the record of a failure are owed.
LEMMA ReturnStep ==
    ASSUME IInv, NEW t \in Scanners, scan[t].pc # "idle", Return(t),
           TypeFlags', TypeRows', TypeCounts', TypeClerk',
           counted' <= MaxPerSession, taken' <= Accounted', Owed' => cooling'
    PROVE  IInv'
  <1>1. taken' <= Accounted' + 1
    BY OneMore
  <1>2. ScanIdle.pc = "idle" /\ Past(ScanIdle) = {} /\ ScanIdle.sent = {}
    BY DEF ScanIdle, Past
  <1>3. ScanTo(t, ScanIdle)
    BY DEF Return
  <1> HIDE DEF ScanIdle
  <1> QED
    BY <1>1, <1>2, <1>3, Threads, ThreadStep

\* The rows, the history and the other threads.
Still == UNCHANGED <<rows, breach, ready, clerk, boot, history, faults>>

\* What is known of the rows while thread t runs and no order of its is unsettled.
LEMMA Settled ==
    ASSUME IInv, NEW t \in Scanners, scan[t].pc \notin ({"idle"} \cup Sent)
    PROVE  /\ scan[t] \in Thread /\ scan[t].sent = {} /\ lock = t
           /\ counted <= MaxPerSession /\ taken <= Accounted
           /\ Owed => cooling
  <1>1. \A u \in Scanners : scan[u].pc # "bump" /\ scan[u].pc # "failure"
    BY Alone DEF ScanIdle
  <1>2. FailureKnown /\ Counting /\ Exclusive /\ SentLast /\ TypeScan
    BY DEF IInv, Typed
  <1>3. scan[t] \in Thread /\ scan[t].sent = {} /\ lock = t
    BY <1>2 DEF Exclusive, SentLast, TypeScan
  <1>4. counted <= MaxPerSession /\ taken <= Accounted
    BY <1>1, <1>2 DEF Counting
  <1>5. Owed => cooling
    BY <1>1, <1>2, Zenon DEF FailureKnown
  <1> QED
    BY <1>3, <1>4, <1>5

\* Rows nobody touches keep their types.
LEMMA StillTyped ==
    ASSUME IInv, Still
    PROVE  TypeFlags' /\ TypeCounts' /\ TypeClerk' /\ (lock' \in Scanners \cup {NULL} => TypeRows')
  BY DEF IInv, Typed, Still, rows, history, TypeFlags, TypeCounts, TypeClerk, TypeRows

\* A scan that goes on before any order left it.
LEMMA QuietMove ==
    ASSUME IInv, NEW t \in Scanners, scan[t].pc \notin ({"idle"} \cup Sent),
           NEW x \in Thread, ScanTo(t, x), Still, lock' = lock,
           x.pc \notin ({"idle"} \cup Sent), x.sent = {},
           x.pc \in {"trip", "latch"} => x.reason \in CLEARABLE \cup SAFETY,
           Judging(x) => /\ x.seen \in Account
                         /\ x.seen.cooling = cooling /\ x.seen.counted = counted,
           Past(x) # {} => Judging(x) /\ ~cooling /\ counted < MaxPerSession,
           Active => Past(x) \subseteq exposed
    PROVE  IInv'
  <1>1. TypeFlags' /\ TypeRows' /\ TypeCounts' /\ TypeClerk'
    BY StillTyped, Settled
  <1>2. /\ cooling' = cooling /\ counted' = counted /\ exposed' = exposed
        /\ failed' = failed /\ taken' = taken /\ blind' = blind /\ faults' = faults
        /\ Active' = Active
    BY DEF Still, rows, history, Active
  <1>3. counted' <= MaxPerSession /\ taken' <= Accounted' /\ lock' = t
    BY <1>2, Settled DEF Accounted
  <1>4. Owed' => cooling'
    BY <1>2, Settled, Zenon DEF Owed
  <1>5. taken' <= Accounted' + 1
    BY <1>1, <1>3, OneMore
  <1>6. Active' => Past(x) \subseteq exposed'
    BY <1>2, Zenon
  <1>7. Past(x) # {} => Judging(x) /\ ~cooling' /\ counted' < MaxPerSession
    BY <1>2
  <1>8. Judging(x) => x.seen \in Account /\ x.seen.cooling = cooling' /\ x.seen.counted = counted'
    BY <1>2
  <1> QED
    BY <1>1, <1>3, <1>4, <1>5, <1>6, <1>7, <1>8, ThreadStep

\* A scan that ends before any order left it.
LEMMA QuietReturn ==
    ASSUME IInv, NEW t \in Scanners, scan[t].pc \notin ({"idle"} \cup Sent),
           Return(t), Still
    PROVE  IInv'
  <1>1. TypeFlags' /\ TypeRows' /\ TypeCounts' /\ TypeClerk'
    BY StillTyped DEF Return
  <1>2. counted' <= MaxPerSession /\ taken' <= Accounted'
    BY Settled DEF Still, rows, history, Accounted
  <1>3. Owed' => cooling'
    BY Settled DEF Still, rows, history, Owed
  <1> QED
    BY <1>1, <1>2, <1>3, ReturnStep

----------------------------------------------------------------------------
(* The steps of a scan.                                                    *)

LEMMA ScanStartKeeps ==
    ASSUME IInv, NEW t \in Scanners, ScanStart(t)
    PROVE  IInv'
  <1> DEFINE x == [scan[t] EXCEPT !.pc = "enabled"]
  <1> USE DEF ScanStart, Goto
  <1>1. scan[t] = ScanIdle /\ \A u \in Scanners : scan[u] = ScanIdle
    BY Alone DEF IInv, Exclusive
  <1>2. /\ x \in Thread /\ x.pc = "enabled" /\ Past(x) = {} /\ x.sent = {}
        /\ ~Judging(x)
    BY <1>1, Threads DEF Thread, Past, ScanPCs, ScanIdle, Judging
  <1>3. TypeFlags' /\ TypeRows' /\ TypeCounts' /\ TypeClerk'
    BY StillTyped DEF Still
  <1>4. counted' <= MaxPerSession /\ taken' <= Accounted'
    BY <1>1 DEF IInv, Counting, ScanIdle, rows, history, Accounted
  <1>5. Owed' => cooling'
    BY <1>1 DEF IInv, FailureKnown, ScanIdle, rows, history, Owed
  <1>6. taken' <= Accounted' + 1
    BY <1>3, <1>4, OneMore
  <1>7. ScanTo(t, x) /\ lock = NULL /\ lock' = t
    OBVIOUS
  <1> HIDE DEF x, ScanStart
  <1> QED
    BY <1>2, <1>3, <1>4, <1>5, <1>6, <1>7, ThreadStep

LEMMA ScanEnabledKeeps ==
    ASSUME IInv, NEW t \in Scanners, ScanEnabled(t)
    PROVE  IInv'
  <1> DEFINE x == [scan[t] EXCEPT !.pc = "demo"]
  <1>1. scan[t].pc \notin ({"idle"} \cup Sent) /\ Still
    BY DEF ScanEnabled, Still
  <1>2. /\ x \in Thread /\ x.pc = "demo" /\ Past(x) = {} /\ x.sent = {}
        /\ ~Judging(x)
    BY <1>1, Settled DEF Thread, Past, ScanPCs, Judging, IInv, WithinLimits, ScanEnabled
  <1>3. CASE Return(t)
    BY <1>1, <1>3, QuietReturn
  <1>4. CASE ScanTo(t, x) /\ lock' = lock
    <2> HIDE DEF x
    <2> QED
      BY <1>1, <1>2, <1>4, QuietMove
  <1> QED
    BY <1>3, <1>4 DEF ScanEnabled, Goto

LEMMA ScanVerifyKeeps ==
    ASSUME IInv, NEW t \in Scanners, ScanVerify(t)
    PROVE  IInv'
  <1> DEFINE x == [scan[t] EXCEPT !.pc = "account"]
             y == [scan[t] EXCEPT !.pc = "trip", !.reason = "ENVIRONMENT_MISMATCH"]
  <1>1. scan[t].pc \notin ({"idle"} \cup Sent) /\ Still
    BY DEF ScanVerify, Still
  <1>2. Past(scan[t]) = {}
    BY DEF ScanVerify, Judging, IInv, WithinLimits
  <1>3. /\ x \in Thread /\ x.pc = "account" /\ Past(x) = {} /\ x.sent = {}
        /\ ~Judging(x)
    BY <1>1, <1>2, Settled DEF Thread, Past, ScanPCs, Judging
  <1>4. /\ y \in Thread /\ y.pc = "trip" /\ y.reason \in SAFETY
        /\ Past(y) = {} /\ y.sent = {} /\ ~Judging(y)
    BY <1>1, <1>2, Settled DEF Thread, Past, ScanPCs, Judging, SAFETY
  <1>5. CASE Return(t)
    BY <1>1, <1>5, QuietReturn
  <1>6. CASE ScanTo(t, x) /\ lock' = lock
    <2> HIDE DEF x
    <2> QED
      BY <1>1, <1>3, <1>6, QuietMove
  <1>7. CASE ScanTo(t, y) /\ lock' = lock
    <2> HIDE DEF y
    <2> QED
      BY <1>1, <1>4, <1>7, QuietMove
  <1> QED
    BY <1>5, <1>6, <1>7 DEF ScanVerify, Goto

LEMMA ScanAccountKeeps ==
    ASSUME IInv, NEW t \in Scanners, ScanAccount(t)
    PROVE  IInv'
  <1> DEFINE x == [scan[t] EXCEPT !.pc = IF breach THEN "trip" ELSE "switch",
                                  !.reason = TripReason, !.seen = Seen]
  <1>1. scan[t].pc \notin ({"idle"} \cup Sent) /\ Still
    BY DEF ScanAccount, Still
  <1>2. Past(scan[t]) = {}
    BY DEF ScanAccount, Judging, IInv, WithinLimits
  <1>3. Seen \in Account /\ Seen.cooling = cooling /\ Seen.counted = counted
    BY DEF Seen, Account, IInv, Typed, TypeFlags, TypeCounts
  <1>4. /\ x \in Thread /\ x.pc \in {"trip", "switch"} /\ x.seen = Seen
        /\ x.pc = "trip" => x.reason \in CLEARABLE
        /\ Past(x) = {} /\ x.sent = {}
    BY <1>1, <1>2, <1>3, Settled DEF Thread, Past, ScanPCs, TripReason, CLEARABLE
  <1>5. CASE Return(t)
    BY <1>1, <1>5, QuietReturn
  <1>6. CASE ScanTo(t, x) /\ lock' = lock
    <2> HIDE DEF x
    <2> QED
      BY <1>1, <1>3, <1>4, <1>6, QuietMove
  <1> QED
    BY <1>5, <1>6 DEF ScanAccount

\* What the invariant says of a running thread carries over to the same thread at
\* another place that judges on the same account state.
LEMMA Carried ==
    ASSUME IInv, NEW t \in Scanners, scan[t].pc \notin ({"idle"} \cup Sent),
           NEW p \in ScanPCs \ ({"idle"} \cup Sent), NEW x,
           x = [scan[t] EXCEPT !.pc = p], Judging(x) <=> Judging(scan[t])
    PROVE  /\ x \in Thread /\ x.pc = p /\ x.sent = {} /\ x.reason = scan[t].reason
           /\ Judging(x) => /\ x.seen \in Account
                            /\ x.seen.cooling = cooling /\ x.seen.counted = counted
           /\ Past(x) # {} => Judging(x) /\ ~cooling /\ counted < MaxPerSession
           /\ Past(x) = Past(scan[t])
           /\ Active => Past(x) \subseteq exposed
  <1>1. /\ x \in Thread /\ x.pc = p /\ x.sent = {} /\ x.reason = scan[t].reason
        /\ x.seen = scan[t].seen /\ Past(x) = Past(scan[t])
    BY Settled DEF Thread, Past
  <1>2. Judging(x) => /\ x.seen \in Account
                      /\ x.seen.cooling = cooling /\ x.seen.counted = counted
    BY <1>1 DEF IInv, SeenStands
  <1>3. Past(x) # {} => Judging(x) /\ ~cooling /\ counted < MaxPerSession
    BY <1>1 DEF IInv, WithinLimits
  <1>4. Active => Past(x) \subseteq exposed
    BY <1>1 DEF IInv, Exposed
  <1> QED
    BY <1>1, <1>2, <1>3, <1>4

LEMMA GotoStep ==
    ASSUME IInv, NEW t \in Scanners, scan[t].pc \notin ({"idle"} \cup Sent),
           NEW p \in ScanPCs \ ({"idle"} \cup Sent),
           Goto(t, p), Still, lock' = lock,
           p \in {"trip", "latch"} => scan[t].reason \in CLEARABLE \cup SAFETY,
           Judging([scan[t] EXCEPT !.pc = p]) <=> Judging(scan[t])
    PROVE  IInv'
  <1> DEFINE x == [scan[t] EXCEPT !.pc = p]
  <1>1. ScanTo(t, x) /\ x = [scan[t] EXCEPT !.pc = p] /\ (Judging(x) <=> Judging(scan[t]))
    BY DEF Goto
  <1> HIDE DEF x
  <1> QED
    BY <1>1, Carried, QuietMove

LEMMA AfterTripKeeps ==
    ASSUME IInv, NEW t \in Scanners, scan[t].pc \in {"trip", "latch"}, Still, AfterTrip(t)
    PROVE  IInv'
  <1>1. CASE scan[t].reason \in SAFETY
    BY <1>1, QuietReturn DEF AfterTrip
  <1>2. CASE scan[t].reason \notin SAFETY
    <2>1. Judging([scan[t] EXCEPT !.pc = "switch"]) <=> Judging(scan[t])
      BY <1>2, Settled DEF Judging, Thread, Past
    <2> QED
      BY <1>2, <2>1, GotoStep DEF AfterTrip, ScanPCs
  <1> QED
    BY <1>1, <1>2

LEMMA ScanTripReadKeeps ==
    ASSUME IInv, NEW t \in Scanners, ScanTripRead(t)
    PROVE  IInv'
  <1>1. scan[t].pc = "trip" /\ Still /\ scan[t].reason \in CLEARABLE \cup SAFETY
    BY DEF ScanTripRead, Still, IInv, Reasoned
  <1>2. CASE AfterTrip(t)
    BY <1>1, <1>2, AfterTripKeeps
  <1>3. CASE Goto(t, "latch") /\ lock' = lock
    <2>1. Judging([scan[t] EXCEPT !.pc = "latch"]) <=> Judging(scan[t])
      BY <1>1, Settled DEF Judging, Thread, Past
    <2> QED
      BY <1>1, <1>3, <2>1, GotoStep DEF ScanPCs
  <1> QED
    BY <1>2, <1>3 DEF ScanTripRead

LEMMA ScanTripWriteKeeps ==
    ASSUME IInv, NEW t \in Scanners, ScanTripWrite(t)
    PROVE  IInv'
  <1> USE DEF ScanTripWrite
  <1>1. /\ scan[t].pc = "latch" /\ scan[t] \in Thread /\ lock = t
        /\ scan[t].reason \in CLEARABLE \cup SAFETY
    BY Settled DEF IInv, Reasoned
  <1>2. \A u \in Scanners : Past(scan[u]) \subseteq Symbols
    BY DEF IInv, Typed, TypeScan, Thread, Past
  <1>3. exposed' \in SUBSET Symbols /\ Past(scan[t]) \subseteq exposed'
    BY <1>2 DEF TripWrite, IInv, Typed, TypeRows, Exposed, Past
  <1>4. lock' \in {t, NULL}
    BY <1>1 DEF AfterTrip, Return
  <1>5. TypeFlags' /\ TypeCounts' /\ TypeClerk'
    BY DEF IInv, Typed, TypeFlags, TypeCounts, TypeClerk
  <1>6. TypeRows'
    BY <1>1, <1>3, <1>4 DEF IInv, Typed, TypeRows, TripWrite
  <1>7. counted' <= MaxPerSession /\ taken' <= Accounted'
    BY Settled DEF Accounted
  <1>8. Owed' => cooling'
    BY Settled, Zenon DEF Owed
  <1>9. taken' <= Accounted' + 1
    BY <1>5, <1>7, OneMore
  <1>10. CASE Return(t)
    BY <1>1, <1>5, <1>6, <1>7, <1>8, <1>10, ReturnStep
  <1>11. CASE scan[t].reason \notin SAFETY /\ Goto(t, "switch") /\ lock' = lock
    <2> DEFINE x == [scan[t] EXCEPT !.pc = "switch"]
    <2>1. ScanTo(t, x)
      BY <1>11 DEF Goto
    <2>2. /\ x \in Thread /\ x.pc = "switch" /\ x.sent = {}
          /\ Past(x) = Past(scan[t]) /\ x.seen = scan[t].seen
      BY <1>1, Settled DEF Thread, Past, ScanPCs
    <2>3. Judging(scan[t])
      BY <1>1, <1>11 DEF Judging
    <2>4. x.seen \in Account /\ x.seen.cooling = cooling' /\ x.seen.counted = counted'
      BY <2>2, <2>3 DEF IInv, SeenStands
    <2>5. Past(x) # {} => ~cooling' /\ counted' < MaxPerSession
      BY <2>2 DEF IInv, WithinLimits
    <2>6. Judging(x)
      BY <2>2 DEF Judging
    <2>7. lock' = t
      BY <1>1, <1>11
    <2> HIDE DEF x, ScanTripWrite
    <2> QED
      BY <1>1, <1>3, <1>5, <1>6, <1>7, <1>8, <1>9, <2>1, <2>2, <2>4, <2>5, <2>6, <2>7, ThreadStep
  <1> QED
    BY <1>10, <1>11 DEF AfterTrip

\* What a thread that is judging knows.
LEMMA Judged ==
    ASSUME IInv, NEW t \in Scanners, scan[t].pc \in {"switch", "evaluate", "execute"}
    PROVE  /\ scan[t] \in Thread /\ Judging(scan[t]) /\ scan[t].sent = {} /\ lock = t
           /\ scan[t].seen \in Account
           /\ scan[t].seen.cooling = cooling /\ scan[t].seen.counted = counted
           /\ Past(scan[t]) # {} => ~cooling /\ counted < MaxPerSession
           /\ Active => Past(scan[t]) \subseteq exposed
  <1>1. Judging(scan[t]) /\ scan[t].pc \notin ({"idle"} \cup Sent)
    BY DEF Judging
  <1>2. scan[t] \in Thread /\ scan[t].sent = {} /\ lock = t
    BY <1>1, Settled
  <1>3. /\ scan[t].seen \in Account
        /\ scan[t].seen.cooling = cooling /\ scan[t].seen.counted = counted
    BY <1>1 DEF IInv, SeenStands
  <1>4. Past(scan[t]) # {} => ~cooling /\ counted < MaxPerSession
    BY DEF IInv, WithinLimits
  <1>5. Active => Past(scan[t]) \subseteq exposed
    BY DEF IInv, Exposed
  <1> QED
    BY <1>1, <1>2, <1>3, <1>4, <1>5

\* A judging thread that changes only its lists of symbols, and approves nothing
\* above a limit or under an active switch.
LEMMA JudgedMove ==
    ASSUME IInv, NEW t \in Scanners, scan[t].pc \in {"switch", "evaluate", "execute"},
           NEW x \in Thread, ScanTo(t, x), Still, lock' = lock,
           x.pc \in {"switch", "evaluate", "execute"}, x.sent = {}, x.seen = scan[t].seen,
           Past(x) # {} => ~cooling /\ counted < MaxPerSession,
           Active => Past(x) \subseteq exposed
    PROVE  IInv'
  <1>1. Judging(x)
    BY DEF Judging
  <1> QED
    BY <1>1, Judged, QuietMove

LEMMA ScanSwitchKeeps ==
    ASSUME IInv, NEW t \in Scanners, ScanSwitch(t)
    PROVE  IInv'
  <1> DEFINE x == [scan[t] EXCEPT !.pc = "evaluate", !.todo = Symbols]
  <1>1. scan[t].pc = "switch" /\ Still
    BY DEF ScanSwitch, Still
  <1>2. CASE Return(t)
    BY <1>1, <1>2, QuietReturn
  <1>3. CASE ScanTo(t, x) /\ lock' = lock
    <2>1. /\ x \in Thread /\ x.pc = "evaluate" /\ x.sent = {} /\ x.seen = scan[t].seen
          /\ Past(x) = Past(scan[t])
      BY <1>1, Judged DEF Thread, Past, ScanPCs
    <2> HIDE DEF x
    <2> QED
      BY <1>1, <1>3, <2>1, Judged, JudgedMove
  <1> QED
    BY <1>2, <1>3 DEF ScanSwitch

\* A candidate past the hard blocks: they were all read off.
LEMMA ScanGateKeeps ==
    ASSUME IInv, NEW t \in Scanners, ScanGate(t)
    PROVE  IInv'
  <1>1. scan[t].pc = "evaluate" /\ Still /\ lock' = lock
    BY DEF ScanGate, Still
  <1>2. PICK s \in scan[t].todo :
            ScanTo(t, [scan[t] EXCEPT !.todo = @ \ {s}, !.weighed = {s}])
    BY DEF ScanGate
  <1> DEFINE x == [scan[t] EXCEPT !.todo = @ \ {s}, !.weighed = {s}]
  <1>3. x \in Thread /\ x.pc = "evaluate" /\ x.sent = {} /\ x.seen = scan[t].seen
    BY <1>1, Judged DEF Thread
  <1>4. ~Active /\ ~scan[t].seen.cooling /\ ~(scan[t].seen.counted >= MaxPerSession)
    BY DEF ScanGate, HardBlocks
  <1>5. counted \in Nat /\ scan[t].seen.counted = counted /\ scan[t].seen.cooling = cooling
    BY <1>1, Judged DEF IInv, Typed, TypeCounts
  <1>6. counted < MaxPerSession
    BY <1>4, <1>5, LimitAssumption
  <1>7. ~cooling
    BY <1>4, <1>5
  <1>8. ScanTo(t, x)
    BY <1>2
  <1> HIDE DEF x
  <1> QED
    BY <1>1, <1>3, <1>4, <1>6, <1>7, <1>8, JudgedMove

\* What the review keeps was past the hard blocks before it.
LEMMA ScanApproveKeeps ==
    ASSUME IInv, NEW t \in Scanners, ScanApprove(t)
    PROVE  IInv'
  <1> DEFINE x == [scan[t] EXCEPT !.weighed = {}, !.approved = @ \cup scan[t].weighed]
  <1>1. scan[t].pc = "evaluate" /\ Still /\ lock' = lock /\ ScanTo(t, x)
    BY DEF ScanApprove, Still
  <1>2. /\ x \in Thread /\ x.pc = "evaluate" /\ x.sent = {} /\ x.seen = scan[t].seen
        /\ Past(x) = Past(scan[t])
    BY <1>1, Judged DEF Thread, Past
  <1> HIDE DEF x
  <1> QED
    BY <1>1, <1>2, Judged, JudgedMove

LEMMA ScanSymbolRefusedKeeps ==
    ASSUME IInv, NEW t \in Scanners, ScanSymbolRefused(t)
    PROVE  IInv'
  <1>1. scan[t].pc = "evaluate" /\ Still /\ lock' = lock
    BY DEF ScanSymbolRefused, Still
  <1>2. ASSUME NEW x \in Thread, ScanTo(t, x), x.pc = "evaluate", x.sent = {},
               x.seen = scan[t].seen, Past(x) \subseteq Past(scan[t])
        PROVE  IInv'
    <2>1. Past(x) # {} => Past(scan[t]) # {}
      BY <1>2
    <2> QED
      BY <1>1, <1>2, <2>1, Judged, JudgedMove
  <1>3. ASSUME NEW s \in scan[t].todo, ScanTo(t, [scan[t] EXCEPT !.todo = @ \ {s}])
        PROVE  IInv'
    <2> DEFINE x == [scan[t] EXCEPT !.todo = @ \ {s}]
    <2>1. /\ x \in Thread /\ x.pc = "evaluate" /\ x.sent = {} /\ x.seen = scan[t].seen
          /\ Past(x) \subseteq Past(scan[t]) /\ ScanTo(t, x)
      BY <1>1, <1>3, Judged DEF Thread, Past
    <2> HIDE DEF x
    <2> QED
      BY <1>2, <2>1
  <1>4. ASSUME ScanTo(t, [scan[t] EXCEPT !.weighed = {}])
        PROVE  IInv'
    <2> DEFINE x == [scan[t] EXCEPT !.weighed = {}]
    <2>1. /\ x \in Thread /\ x.pc = "evaluate" /\ x.sent = {} /\ x.seen = scan[t].seen
          /\ Past(x) \subseteq Past(scan[t]) /\ ScanTo(t, x)
      BY <1>1, <1>4, Judged DEF Thread, Past
    <2> HIDE DEF x
    <2> QED
      BY <1>2, <2>1
  <1> QED
    BY <1>3, <1>4 DEF ScanSymbolRefused

LEMMA ScanRankKeeps ==
    ASSUME IInv, NEW t \in Scanners, ScanRank(t)
    PROVE  IInv'
  <1> DEFINE x == [scan[t] EXCEPT !.pc = "execute"]
  <1>1. scan[t].pc = "evaluate" /\ Still
    BY DEF ScanRank, Still
  <1>2. CASE Return(t)
    BY <1>1, <1>2, QuietReturn
  <1>3. CASE ScanTo(t, x) /\ lock' = lock
    <2>1. /\ x \in Thread /\ x.pc = "execute" /\ x.sent = {} /\ x.seen = scan[t].seen
          /\ Past(x) = Past(scan[t])
      BY <1>1, Judged DEF Thread, Past, ScanPCs
    <2> HIDE DEF x
    <2> QED
      BY <1>1, <1>3, <2>1, Judged, JudgedMove
  <1> QED
    BY <1>2, <1>3 DEF ScanRank, Goto

LEMMA ScanRefusedHereKeeps ==
    ASSUME IInv, NEW t \in Scanners, ScanRefusedHere(t)
    PROVE  IInv'
  <1>1. scan[t].pc = "execute" /\ Still
    BY DEF ScanRefusedHere, Still
  <1>2. CASE Return(t)
    BY <1>1, <1>2, QuietReturn
  <1>3. ASSUME NEW s \in scan[t].approved, lock' = lock,
               ScanTo(t, [scan[t] EXCEPT !.approved = @ \ {s}])
        PROVE  IInv'
    <2> DEFINE x == [scan[t] EXCEPT !.approved = @ \ {s}]
    <2>1. /\ x \in Thread /\ x.pc = "execute" /\ x.sent = {} /\ x.seen = scan[t].seen
          /\ Past(x) \subseteq Past(scan[t]) /\ ScanTo(t, x)
      BY <1>1, <1>3, Judged DEF Thread, Past
    <2>2. Past(x) # {} => Past(scan[t]) # {}
      BY <2>1
    <2> HIDE DEF x
    <2> QED
      BY <1>1, <1>3, <2>1, <2>2, Judged, JudgedMove
  <1> QED
    BY <1>2, <1>3 DEF ScanRefusedHere

LEMMA ScanRefusedAllKeeps ==
    ASSUME IInv, NEW t \in Scanners, ScanRefusedAll(t)
    PROVE  IInv'
  BY QuietReturn DEF ScanRefusedAll, Still

\* The thread an order leaves behind.
LEMMA SendThread ==
    ASSUME IInv, NEW t \in Scanners, scan[t].pc = "execute", NEW s \in scan[t].approved,
           NEW p \in Sent, Send(t, s, p)
    PROVE  \E x \in Thread :
            /\ ScanTo(t, x) /\ x.pc = p /\ x.sent = {s} /\ s \in Symbols
            /\ Past(x) \subseteq Past(scan[t]) /\ x.seen = scan[t].seen
  <1> DEFINE x == [scan[t] EXCEPT !.pc = p, !.sent = @ \cup {s}, !.approved = @ \ {s}]
  <1>1. /\ x \in Thread /\ x.pc = p /\ x.sent = {s} /\ s \in Symbols
        /\ Past(x) \subseteq Past(scan[t]) /\ x.seen = scan[t].seen
    BY Judged DEF Thread, Past, ScanPCs
  <1>2. ScanTo(t, x)
    BY DEF Send
  <1> HIDE DEF x
  <1> QED
    BY <1>1, <1>2

LEMMA ScanOpensKeeps ==
    ASSUME IInv, NEW t \in Scanners, ScanOpens(t)
    PROVE  IInv'
  <1> USE DEF ScanOpens
  <1>1. PICK s \in scan[t].approved : Send(t, s, "bump")
    OBVIOUS
  <1>2. PICK x \in Thread :
            /\ ScanTo(t, x) /\ x.pc = "bump" /\ x.sent = {s} /\ s \in Symbols
            /\ Past(x) \subseteq Past(scan[t]) /\ x.seen = scan[t].seen
    BY <1>1, SendThread
  <1>3. TypeFlags' /\ TypeRows' /\ TypeClerk'
    BY DEF IInv, Typed, TypeFlags, TypeRows, TypeClerk, rows
  <1>4. /\ taken \in Nat /\ counted \in Nat /\ faults \in Nat /\ blind \in Nat
        /\ TypeCounts'
    BY LimitAssumption DEF IInv, Typed, TypeCounts, rows
  <1>5. /\ counted' = counted /\ cooling' = cooling /\ exposed' = exposed
        /\ faults' = faults /\ failed' = failed /\ taken' = taken + 1 /\ lock' = lock
        /\ blind' = blind
        /\ (Active' <=> Active)
    BY DEF rows, Active
  <1>6. taken' <= Accounted' + 1 /\ counted' <= MaxPerSession
    BY <1>4, <1>5, Settled DEF Accounted
  <1>7. Owed' => cooling'
    <2>1. Owed => cooling
      BY Settled
    <2>2. failed' = failed /\ cooling' = cooling
      BY DEF rows
    <2> QED
      BY <2>1, <2>2 DEF Owed
  <1>8. Judging(x)
    BY <1>2 DEF Judging
  <1>9. /\ x.seen \in Account /\ x.seen.cooling = cooling' /\ x.seen.counted = counted'
        /\ ~cooling' /\ counted' < MaxPerSession /\ lock' = t
        /\ Active' => Past(x) \subseteq exposed'
    BY <1>2, <1>5, Judged DEF Past
  <1>10. scan[t].pc # "idle"
    OBVIOUS
  <1> HIDE DEF ScanOpens
  <1> QED
    BY <1>2, <1>3, <1>4, <1>6, <1>7, <1>8, <1>9, <1>10, ThreadStep

\* An order of unknown outcome: the position it may have opened is not counted, and
\* is among the blind ones.
LEMMA LandingAccounted ==
    ASSUME IInv, taken <= Accounted, MayLand \/ UNCHANGED <<taken, blind>>,
           UNCHANGED <<counted, faults>>
    PROVE  TypeCounts' /\ taken' <= Accounted'
  <1>1. taken \in Nat /\ counted \in Nat /\ blind \in 0..MaxBlind /\ faults \in 0..MaxFaults
    BY DEF IInv, Typed, TypeCounts
  <1> QED
    BY <1>1, LimitAssumption DEF MayLand, TypeCounts, Accounted

\* A scan whose order failed, or was not seen to fill.
LEMMA Unsettled ==
    ASSUME IInv, NEW t \in Scanners, scan[t].pc = "execute", NEW s \in scan[t].approved,
           NEW p \in {"failure", "end"}, Send(t, s, p), MayLand \/ UNCHANGED <<taken, blind>>,
           UNCHANGED <<rows, breach, ready, lock, clerk, boot, exposed, faults>>,
           failed' \in SUBSET (EXECUTION_FAILURE_STATUSES \cup {"UNVERIFIED"}),
           p = "end" => (Owed' <=> Owed)
    PROVE  IInv'
  <1>1. PICK x \in Thread :
            /\ ScanTo(t, x) /\ x.pc = p /\ x.sent = {s} /\ s \in Symbols
            /\ Past(x) \subseteq Past(scan[t]) /\ x.seen = scan[t].seen
    BY SendThread
  <1>2. scan[t].pc \notin ({"idle"} \cup Sent) /\ s \in Past(scan[t])
    BY DEF Past
  <1>3. TypeFlags' /\ TypeRows' /\ TypeClerk'
    BY DEF IInv, Typed, TypeFlags, TypeRows, TypeClerk, rows
  <1>4. /\ counted' = counted /\ cooling' = cooling /\ exposed' = exposed
        /\ faults' = faults /\ lock' = lock /\ (Active' <=> Active)
    BY DEF rows, Active
  <1>5. TypeCounts' /\ taken' <= Accounted' /\ counted' <= MaxPerSession
    BY <1>2, <1>4, Settled, LandingAccounted
  <1>6. taken' <= Accounted' + 1
    BY <1>5, OneMore
  <1>7. Owed' => cooling' \/ x.pc = "failure"
    <2>1. CASE p = "end"
      BY <2>1, <1>2, <1>4, Settled, Zenon
    <2>2. CASE p = "failure"
      BY <2>2, <1>1
    <2> QED
      BY <2>1, <2>2
  <1>8. Judging(x)
    BY <1>1 DEF Judging
  <1>9. /\ x.seen \in Account /\ x.seen.cooling = cooling' /\ x.seen.counted = counted'
        /\ ~cooling' /\ counted' < MaxPerSession /\ lock' = t
        /\ Active' => Past(x) \subseteq exposed'
    BY <1>1, <1>2, <1>4, Judged
  <1> QED
    BY <1>1, <1>2, <1>3, <1>5, <1>6, <1>7, <1>8, <1>9, ThreadStep

LEMMA ScanFailsKeeps ==
    ASSUME IInv, NEW t \in Scanners, ScanFails(t)
    PROVE  IInv'
  <1> USE DEF ScanFails
  <1>1. PICK s \in scan[t].approved : Send(t, s, "failure")
    OBVIOUS
  <1>2. failed' \in SUBSET (EXECUTION_FAILURE_STATUSES \cup {"UNVERIFIED"})
    BY DEF IInv, Typed, TypeRows
  <1>3. MayLand \/ UNCHANGED <<taken, blind>>
    OBVIOUS
  <1> QED
    BY <1>1, <1>2, <1>3, Unsettled

LEMMA ScanUnverifiedKeeps ==
    ASSUME IInv, NEW t \in Scanners, ScanUnverified(t)
    PROVE  IInv'
  <1> USE DEF ScanUnverified
  <1>1. PICK s \in scan[t].approved : Send(t, s, "end")
    OBVIOUS
  <1>2. failed' \in SUBSET (EXECUTION_FAILURE_STATUSES \cup {"UNVERIFIED"})
    BY DEF IInv, Typed, TypeRows
  <1>3. Owed' <=> Owed
    BY DEF Owed, EXECUTION_FAILURE_STATUSES
  <1> QED
    BY <1>1, <1>2, <1>3, Unsettled

LEMMA ScanEndKeeps ==
    ASSUME IInv, NEW t \in Scanners, ScanEnd(t)
    PROVE  IInv'
  <1> USE DEF ScanEnd
  <1>1. Still
    BY DEF Still
  <1>2. TypeFlags' /\ TypeRows' /\ TypeCounts' /\ TypeClerk'
    BY <1>1, StillTyped DEF Return
  <1>3. \A u \in Scanners : scan[u].pc # "bump" /\ scan[u].pc # "failure"
    BY Alone DEF ScanIdle
  <1>4. counted <= MaxPerSession /\ taken <= Accounted
    BY <1>3 DEF IInv, Counting
  <1>5. Owed => cooling
    BY <1>3, Zenon DEF IInv, FailureKnown
  <1>6. counted' <= MaxPerSession /\ taken' <= Accounted'
    BY <1>1, <1>4 DEF Still, rows, history, Accounted
  <1>7. Owed' => cooling'
    BY <1>1, <1>5 DEF Still, rows, history, Owed
  <1> QED
    BY <1>2, <1>6, <1>7, ReturnStep

LEMMA ScanRaisesKeeps ==
    ASSUME IInv, NEW t \in Scanners, ScanRaises(t)
    PROVE  IInv'
  <1> USE DEF ScanRaises
  <1>1. TypeFlags' /\ TypeRows' /\ TypeClerk'
    BY DEF IInv, Typed, TypeFlags, TypeRows, TypeClerk, rows, Return, Recorded
  <1>2. TypeCounts'
    BY LimitAssumption DEF IInv, Typed, TypeCounts, rows
  <1>3. counted' <= MaxPerSession /\ taken' <= Accounted'
    BY LimitAssumption DEF IInv, Typed, TypeCounts, Counting, rows, Accounted
  <1>4. Owed' => cooling'
    BY DEF rows, Recorded, Owed
  <1> QED
    BY <1>1, <1>2, <1>3, <1>4, ReturnStep

LEMMA ScanBumpKeeps ==
    ASSUME IInv, NEW t \in Scanners, ScanBump(t)
    PROVE  IInv'
  <1> USE DEF ScanBump
  <1>1. TypeFlags' /\ TypeRows' /\ TypeClerk'
    BY DEF IInv, Typed, TypeFlags, TypeRows, TypeClerk, history, Return
  <1>2. counted < MaxPerSession
    BY DEF IInv, WithinLimits
  <1>3. TypeCounts' /\ counted' <= MaxPerSession /\ taken' <= Accounted'
    BY <1>2, LimitAssumption DEF IInv, Typed, TypeCounts, Counting, history, Accounted
  <1>4. \A u \in Scanners : scan[u].pc # "failure"
    BY Alone DEF ScanIdle
  <1>5. Owed' => cooling'
    BY <1>4 DEF IInv, FailureKnown, history, Owed
  <1> QED
    BY <1>1, <1>3, <1>5, ReturnStep

LEMMA ScanRecordFailureKeeps ==
    ASSUME IInv, NEW t \in Scanners, ScanRecordFailure(t)
    PROVE  IInv'
  <1> USE DEF ScanRecordFailure
  <1>1. TypeFlags' /\ TypeRows' /\ TypeClerk' /\ TypeCounts'
    BY DEF IInv, Typed, TypeFlags, TypeRows, TypeClerk, TypeCounts, history, Return
  <1>2. \A u \in Scanners : scan[u].pc # "bump"
    BY Alone DEF ScanIdle
  <1>3. counted' <= MaxPerSession /\ taken' <= Accounted'
    BY <1>2 DEF IInv, Counting, history, Accounted
  <1>4. Owed' => cooling'
    OBVIOUS
  <1> QED
    BY <1>1, <1>3, <1>4, ReturnStep

LEMMA ScanKeeps ==
    ASSUME IInv, NEW t \in Scanners, ScanStart(t) \/ ScanStep(t) \/ ScanRaises(t)
    PROVE  IInv'
  BY ScanStartKeeps, ScanRaisesKeeps, ScanEnabledKeeps, ScanVerifyKeeps, ScanAccountKeeps,
     ScanTripReadKeeps, ScanTripWriteKeeps, ScanSwitchKeeps, ScanGateKeeps,
     ScanApproveKeeps, ScanSymbolRefusedKeeps, ScanRankKeeps, ScanRefusedHereKeeps, ScanRefusedAllKeeps,
     ScanOpensKeeps, ScanFailsKeeps, ScanUnverifiedKeeps, ScanEndKeeps, ScanBumpKeeps,
     ScanRecordFailureKeeps DEF ScanStep

----------------------------------------------------------------------------
(* The other threads and the world.                                        *)

\* Nothing that the scan is judged on moves.
LEMMA Elsewhere ==
    ASSUME IInv, UNCHANGED <<lock, scan, cooling, counted, taken, blind, failed, faults>>,
           TypeFlags', TypeRows', TypeClerk', Exposed'
    PROVE  IInv'
  <1>1. Typed' /\ Exclusive' /\ Reasoned' /\ SentLast'
    BY DEF IInv, Typed, TypeCounts, TypeScan, Exclusive, Reasoned, SentLast
  <1>2. SeenStands'
    BY DEF IInv, SeenStands
  <1>3. WithinLimits'
    BY DEF IInv, WithinLimits
  <1>4. Counting'
    BY DEF IInv, Counting, Accounted
  <1>5. FailureKnown'
    BY DEF IInv, FailureKnown, Owed
  <1> QED
    BY <1>1, <1>2, <1>3, <1>4, <1>5 DEF IInv

\* Whoever writes the trip, it exposes what is approved at that moment.
LEMMA TripExposes ==
    ASSUME IInv, NEW r, TripWrite(r), scan' = scan
    PROVE  Exposed' /\ exposed' \in SUBSET Symbols
  <1>1. \A t \in Scanners : Past(scan[t]) \subseteq Symbols
    BY DEF IInv, Typed, TypeScan, Thread, Past
  <1>2. exposed' \in SUBSET Symbols
    BY <1>1 DEF TripWrite, IInv, Typed, TypeRows, Past
  <1>3. \A t \in Scanners : Past(scan[t]) \subseteq exposed'
    BY DEF TripWrite, IInv, Exposed, Past
  <1> QED
    BY <1>2, <1>3 DEF Exposed

LEMMA ClerkKeeps ==
    ASSUME IInv, NEW c \in Clerks, ClerkNext(c)
    PROVE  IInv'
  <1> USE DEF IInv, Typed
  <1>1. ASSUME TripRequest(c) \/ \E force \in BOOLEAN : ClearRequest(c, force)
        PROVE  IInv'
    <2>1. TypeFlags' /\ TypeRows' /\ TypeClerk'
      BY <1>1 DEF TripRequest, ClearRequest, ClerkTo, TypeFlags, TypeRows, TypeClerk, rows, history
    <2>2. Exposed'
      BY <1>1 DEF TripRequest, ClearRequest, Exposed, Active, rows, history
    <2> QED
      BY <1>1, <2>1, <2>2, Elsewhere DEF TripRequest, ClearRequest, rows, history
  <1>2. ASSUME TripServe(c)
        PROVE  IInv'
    <2>1. TripWrite("MANUAL") /\ scan' = scan
      BY <1>2 DEF TripServe
    <2>2. Exposed' /\ exposed' \in SUBSET Symbols
      BY <2>1, TripExposes
    <2>3. TypeFlags' /\ TypeClerk'
      BY <1>2 DEF TripServe, ClerkTo, ClerkIdle, TypeFlags, TypeClerk
    <2>4. TypeRows'
      BY <1>2, <2>2 DEF TripServe, TripWrite, TypeRows, CLEARABLE
    <2> QED
      BY <1>2, <2>2, <2>3, <2>4, Elsewhere DEF TripServe
  <1>3. ASSUME ClearServe(c)
        PROVE  IInv'
    <2>1. TypeFlags' /\ TypeClerk'
      BY <1>3 DEF ClearServe, ClerkTo, ClerkIdle, TypeFlags, TypeClerk
    <2>2. TypeRows' /\ Exposed'
      BY <1>3 DEF ClearServe, ClearWrite, TypeRows, Exposed, Active
    <2> QED
      BY <1>3, <2>1, <2>2, Elsewhere DEF ClearServe
  <1> QED
    BY <1>1, <1>2, <1>3 DEF ClerkNext

LEMMA BootKeeps ==
    ASSUME IInv, BootNext
    PROVE  IInv'
  <1> USE DEF IInv, Typed
  <1>1. ASSUME BootBegin \/ BootFails \/ BootMismatch \/ BootCompletes
        PROVE  IInv'
    <2> USE DEF BootBegin, BootFails, BootMismatch, BootCompletes, BootTo, rows, history
    <2>1. TypeFlags'
      BY <1>1 DEF TypeFlags
    <2>2. TypeRows' /\ TypeClerk'
      BY <1>1 DEF TypeRows, TypeClerk
    <2>3. Exposed'
      BY <1>1 DEF Exposed, Active
    <2> QED
      BY <1>1, <2>1, <2>2, <2>3, Elsewhere
  <1>2. ASSUME BootTrip
        PROVE  IInv'
    <2>1. TripWrite("ENVIRONMENT_MISMATCH") /\ scan' = scan
      BY <1>2 DEF BootTrip
    <2>2. Exposed' /\ exposed' \in SUBSET Symbols
      BY <2>1, TripExposes
    <2>3. TypeFlags' /\ TypeClerk'
      BY <1>2 DEF BootTrip, TypeFlags, TypeClerk
    <2>4. TypeRows'
      BY <1>2, <2>2 DEF BootTrip, BootTo, TripWrite, TypeRows, SAFETY
    <2> QED
      BY <1>2, <2>2, <2>3, <2>4, Elsewhere DEF BootTrip
  <1> QED
    BY <1>1, <1>2 DEF BootNext

\* With every thread idle only the types, the counts and the record of a failure
\* are owed.
LEMMA AllIdle ==
    ASSUME TypeFlags', TypeRows', TypeCounts', TypeClerk', scan' = [t \in Scanners |-> ScanIdle],
           counted' <= MaxPerSession, taken' <= Accounted', Owed' => cooling'
    PROVE  IInv'
  <1>1. \A t \in Scanners : scan'[t] = ScanIdle
    OBVIOUS
  <1>2. TypeScan'
    BY Threads DEF TypeScan
  <1>3. taken' <= Accounted' + 1
    BY OneMore
  <1>4. Exclusive' /\ Reasoned' /\ WithinLimits' /\ SentLast' /\ Exposed'
    BY <1>1 DEF Exclusive, Reasoned, WithinLimits, SentLast, Exposed, ScanIdle, Past
  <1>5. SeenStands'
    BY <1>1, Threads DEF SeenStands
  <1>6. Counting'
    BY <1>3 DEF Counting
  <1>7. FailureKnown'
    BY Zenon DEF FailureKnown
  <1> QED
    BY <1>2, <1>4, <1>5, <1>6, <1>7 DEF IInv, Typed

\* With the lock free no scan is running.
LEMMA Unlocked ==
    ASSUME IInv, lock = NULL
    PROVE  /\ scan = [t \in Scanners |-> ScanIdle]
           /\ taken <= Accounted
           /\ Owed => cooling
  <1>1. \A t \in Scanners : scan[t] = ScanIdle
    BY NullAssumption DEF IInv, Exclusive
  <1>2. scan = [t \in Scanners |-> ScanIdle]
    BY <1>1 DEF IInv, Typed, TypeScan
  <1>3. taken <= Accounted
    BY <1>1 DEF IInv, Counting, ScanIdle
  <1>4. Owed => cooling
    BY <1>1 DEF IInv, FailureKnown, ScanIdle
  <1> QED
    BY <1>2, <1>3, <1>4

LEMMA WorldKeeps ==
    ASSUME IInv, SetScanning \/ Crash \/ AccountMoves \/ CooldownElapses \/ SessionTurns
    PROVE  IInv'
  <1> USE DEF IInv, Typed
  <1>1. ASSUME SetScanning \/ AccountMoves
        PROVE  IInv'
    <2> USE DEF SetScanning, AccountMoves, rows, process, history
    <2>1. TypeFlags'
      BY <1>1 DEF TypeFlags
    <2>2. TypeRows' /\ TypeClerk'
      BY <1>1 DEF TypeRows, TypeClerk
    <2>3. Exposed'
      BY <1>1 DEF Exposed, Active
    <2> QED
      BY <1>1, <2>1, <2>2, <2>3, Elsewhere
  <1>2. ASSUME Crash
        PROVE  IInv'
    <2>1. TypeFlags' /\ TypeRows' /\ TypeClerk'
      BY <1>2 DEF Crash, TypeFlags, TypeRows, TypeClerk, ClerkIdle, rows, Recorded
    <2>2. TypeCounts' /\ counted' <= MaxPerSession /\ taken' <= Accounted'
      BY <1>2, LimitAssumption DEF Crash, TypeCounts, Counting, rows, Accounted
    <2>3. Owed' => cooling'
      BY <1>2 DEF Crash, rows, Recorded, Owed
    <2>4. scan' = [t \in Scanners |-> ScanIdle]
      BY <1>2 DEF Crash
    <2> HIDE DEF IInv
    <2> QED
      BY <2>1, <2>2, <2>3, <2>4, AllIdle
  <1>3. ASSUME CooldownElapses
        PROVE  IInv'
    <2>1. TypeFlags' /\ TypeRows' /\ TypeClerk' /\ TypeCounts'
      BY <1>3 DEF CooldownElapses, TypeFlags, TypeRows, TypeClerk, TypeCounts, process
    <2>2. counted' <= MaxPerSession /\ taken' <= Accounted'
      BY <1>3, Unlocked DEF CooldownElapses, Counting, Accounted
    <2>3. Owed' => cooling'
      BY <1>3 DEF CooldownElapses, Owed
    <2>4. scan' = [t \in Scanners |-> ScanIdle]
      BY <1>3, Unlocked DEF CooldownElapses, process
    <2> HIDE DEF IInv
    <2> QED
      BY <2>1, <2>2, <2>3, <2>4, AllIdle
  <1>4. ASSUME SessionTurns
        PROVE  IInv'
    <2>1. TypeFlags' /\ TypeRows' /\ TypeClerk'
      BY <1>4 DEF SessionTurns, TypeFlags, TypeRows, TypeClerk, process
    <2>2. TypeCounts' /\ counted' <= MaxPerSession /\ taken' <= Accounted'
      BY <1>4, LimitAssumption DEF SessionTurns, TypeCounts, Accounted
    <2>3. Owed' => cooling'
      BY <1>4, Unlocked DEF SessionTurns, Owed
    <2>4. scan' = [t \in Scanners |-> ScanIdle]
      BY <1>4, Unlocked DEF SessionTurns, process
    <2> HIDE DEF IInv
    <2> QED
      BY <2>1, <2>2, <2>3, <2>4, AllIdle
  <1> QED
    BY <1>1, <1>2, <1>3, <1>4

LEMMA NextKeeps ==
    ASSUME IInv, [Next]_vars
    PROVE  IInv'
  <1>1. CASE Next
    BY <1>1, ScanKeeps, ClerkKeeps, BootKeeps, WorldKeeps DEF Next
  <1>2. CASE UNCHANGED vars
    <2> USE <1>2 DEF vars, rows, process, history
    <2>1. TypeFlags' /\ TypeRows' /\ TypeClerk'
      BY DEF IInv, Typed, TypeFlags, TypeRows, TypeClerk
    <2>2. Exposed'
      BY DEF IInv, Exposed, Active
    <2> QED
      BY <2>1, <2>2, Elsewhere
  <1> QED
    BY <1>1, <1>2

LEMMA Inductive == Spec => []IInv
  <1>1. Init => IInv
    BY InitIInv
  <1>2. IInv /\ [Next]_vars => IInv'
    BY NextKeeps
  <1> QED
    BY <1>1, <1>2, PTL DEF Spec

----------------------------------------------------------------------------
(* The theorems.                                                           *)

\* The rows, the threads of the scan and of the control handlers, and the boot
\* sequence stay in the values the code writes.
THEOREM ScanTypes == Spec => []TypeOK
  <1>1. ASSUME IInv
        PROVE  TypeOK
    <2>1. \A t \in Scanners : scan[t] \in Thread
      BY <1>1, Threads DEF IInv, Typed
    <2>2. \A t \in Scanners :
            /\ scan[t].pc \in ScanPCs /\ scan[t].todo \subseteq Symbols
            /\ scan[t].weighed \subseteq Symbols /\ scan[t].approved \subseteq Symbols
            /\ scan[t].sent \subseteq Symbols
      BY <2>1 DEF Thread
    <2>3. \A t \in Scanners :
            scan[t].pc \in {"switch", "evaluate", "execute"} => scan[t].seen \in Account
      BY <1>1, Judged
    <2>4. \A t \in Scanners :
            scan[t].pc \in {"trip", "latch"} => scan[t].reason \in CLEARABLE \cup SAFETY
      BY <1>1 DEF IInv, Reasoned
    <2>5. /\ enabled \in BOOLEAN /\ cooling \in BOOLEAN /\ breach \in BOOLEAN
          /\ ready \in BOOLEAN
      BY <1>1 DEF IInv, Typed, TypeFlags
    <2>6. /\ switch \in CLEARABLE \cup SAFETY \cup {"clear"} /\ lock \in Scanners \cup {NULL}
          /\ boot \in {"fresh", "idle", "session", "trip"} /\ exposed \subseteq Symbols
          /\ failed \subseteq EXECUTION_FAILURE_STATUSES \cup {"UNVERIFIED"}
          /\ clerk \in [Clerks -> [pc : {"idle", "trip", "clear"}, force : BOOLEAN]]
      BY <1>1 DEF IInv, Typed, TypeRows, TypeClerk
    <2>7. counted \in Nat /\ taken \in Nat /\ blind \in 0..MaxBlind /\ faults \in 0..MaxFaults
      BY <1>1 DEF IInv, Typed, TypeCounts
    <2> QED
      BY <2>2, <2>3, <2>4, <2>5, <2>6, <2>7, Zenon DEF TypeOK
  <1> QED
    BY <1>1, Inductive, PTL

\* One scan lets at most one order out, however the executor answered it: the loop
\* over the ranking ends with the first order that leaves the process.
THEOREM OneOrder == Spec => []OneOrderPerCycle
  <1>1. ASSUME IInv, NEW t \in Scanners
        PROVE  Cardinality(scan[t].sent) <= 1
    <2>1. scan[t].sent = {} \/ \E s \in Symbols : scan[t].sent = {s}
      BY <1>1 DEF IInv, SentLast
    <2>2. Cardinality({}) = 0
      BY FS_EmptySet
    <2>3. \A s \in Symbols : Cardinality({s}) = 1
      BY FS_Singleton
    <2> QED
      BY <2>1, <2>2, <2>3
  <1>2. IInv => OneOrderPerCycle
    BY <1>1 DEF OneOrderPerCycle
  <1> QED
    BY <1>2, Inductive, PTL

\* max_trades_per_session bounds the positions opened in a session, whatever the
\* threads do: a scan that may open counts below the limit under the lock until it
\* has counted, and only a crash or an exception between the two, or the fill of an
\* order of unknown outcome, costs one.
THEOREM SessionBound == Spec => []SessionCap
  <1>1. ASSUME IInv
        PROVE  SessionCap
    <2>1. counted \in Nat /\ taken \in Nat /\ faults \in Nat /\ blind \in Nat
      BY <1>1, LimitAssumption DEF IInv, Typed, TypeCounts
    <2>2. counted < MaxPerSession \/ taken <= Accounted
      BY <1>1 DEF IInv, WithinLimits, Counting
    <2>3. counted <= MaxPerSession /\ taken <= Accounted + 1
      BY <1>1 DEF IInv, Counting
    <2> QED
      BY <2>1, <2>2, <2>3, LimitAssumption DEF SessionCap, Accounted
  <1> QED
    BY <1>1, Inductive, PTL

\* No thread's orders change, but to be forgotten by a return.
SendsNothing == \A t \in Scanners : scan'[t].sent = scan[t].sent \/ scan'[t].sent = {}

LEMMA ToSendsNothing ==
    ASSUME IInv, NEW t \in Scanners, NEW x, ScanTo(t, x),
           x.sent = scan[t].sent \/ x.sent = {}
    PROVE  SendsNothing
  BY DEF IInv, Typed, TypeScan, ScanTo, SendsNothing

LEMMA ReturnSendsNothing ==
    ASSUME IInv, NEW t \in Scanners, Return(t)
    PROVE  SendsNothing
  <1>1. ScanIdle.sent = {} /\ ScanTo(t, ScanIdle)
    BY DEF ScanIdle, Return
  <1> QED
    BY <1>1, ToSendsNothing

LEMMA GotoSendsNothing ==
    ASSUME IInv, NEW t \in Scanners, NEW p, Goto(t, p)
    PROVE  SendsNothing
  <1> DEFINE x == [scan[t] EXCEPT !.pc = p]
  <1>1. scan[t] \in Thread
    BY Threads DEF IInv, Typed
  <1>2. x.sent = scan[t].sent /\ ScanTo(t, x)
    BY <1>1 DEF Goto, Thread
  <1> HIDE DEF x
  <1> QED
    BY <1>2, ToSendsNothing

LEMMA OnlyThreeSend ==
    ASSUME IInv, [Next]_vars
    PROVE  SendsNothing \/ \E t \in Scanners : ScanOpens(t) \/ ScanFails(t) \/ ScanUnverified(t)
  <1>1. ASSUME scan' = scan
        PROVE  SendsNothing
    BY <1>1 DEF SendsNothing
  <1>2. ASSUME NEW t \in Scanners, ScanStart(t) \/ ScanEnabled(t) \/ ScanTripRead(t)
                    \/ ScanTripWrite(t) \/ ScanRank(t) \/ ScanRefusedAll(t)
                    \/ ScanBump(t) \/ ScanRecordFailure(t) \/ ScanEnd(t) \/ ScanRaises(t)
        PROVE  SendsNothing
    BY <1>2, ReturnSendsNothing, GotoSendsNothing
       DEF ScanStart, ScanEnabled, ScanTripRead, ScanTripWrite, AfterTrip, ScanRank,
           ScanRefusedAll, ScanBump, ScanRecordFailure, ScanEnd, ScanRaises
  <1>3. ASSUME NEW t \in Scanners, ScanVerify(t)
        PROVE  SendsNothing
    <2>1. [scan[t] EXCEPT !.pc = "trip", !.reason = "ENVIRONMENT_MISMATCH"].sent = scan[t].sent
      BY <1>3, Threads DEF IInv, Typed, Thread
    <2> QED
      BY <1>3, <2>1, ReturnSendsNothing, GotoSendsNothing, ToSendsNothing DEF ScanVerify
  <1>4. ASSUME NEW t \in Scanners, ScanAccount(t)
        PROVE  SendsNothing
    <2>1. [scan[t] EXCEPT !.pc = IF breach THEN "trip" ELSE "switch",
                          !.reason = TripReason, !.seen = Seen].sent = scan[t].sent
      BY <1>4, Threads DEF IInv, Typed, Thread
    <2> QED
      BY <1>4, <2>1, ReturnSendsNothing, ToSendsNothing DEF ScanAccount
  <1>5. ASSUME NEW t \in Scanners, ScanSwitch(t)
        PROVE  SendsNothing
    <2>1. [scan[t] EXCEPT !.pc = "evaluate", !.todo = Symbols].sent = scan[t].sent
      BY <1>5, Threads DEF IInv, Typed, Thread
    <2> QED
      BY <1>5, <2>1, ReturnSendsNothing, ToSendsNothing DEF ScanSwitch
  <1>6. ASSUME NEW t \in Scanners,
               ScanGate(t) \/ ScanApprove(t) \/ ScanSymbolRefused(t) \/ ScanRefusedHere(t)
        PROVE  SendsNothing
    <2>1. \A s : /\ [scan[t] EXCEPT !.todo = @ \ {s}, !.weighed = {s}].sent = scan[t].sent
                 /\ [scan[t] EXCEPT !.todo = @ \ {s}].sent = scan[t].sent
                 /\ [scan[t] EXCEPT !.approved = @ \ {s}].sent = scan[t].sent
      BY Threads DEF IInv, Typed, Thread
    <2>2. /\ [scan[t] EXCEPT !.weighed = {}].sent = scan[t].sent
          /\ [scan[t] EXCEPT !.weighed = {}, !.approved = @ \cup scan[t].weighed].sent = scan[t].sent
      BY Threads DEF IInv, Typed, Thread
    <2> QED
      BY <1>6, <2>1, <2>2, ReturnSendsNothing, ToSendsNothing
         DEF ScanGate, ScanApprove, ScanSymbolRefused, ScanRefusedHere
  <1>7. ASSUME NEW t \in Scanners, ScanStep(t)
        PROVE  SendsNothing \/ ScanOpens(t) \/ ScanFails(t) \/ ScanUnverified(t)
    BY <1>2, <1>3, <1>4, <1>5, <1>6, <1>7 DEF ScanStep
  <1>8. ASSUME Crash
        PROVE  SendsNothing
    BY <1>8 DEF Crash, SendsNothing, ScanIdle
  <1>9. ASSUME BootNext \/ SetScanning \/ AccountMoves \/ CooldownElapses \/ SessionTurns
                    \/ (\E c \in Clerks : ClerkNext(c)) \/ UNCHANGED vars
        PROVE  scan' = scan
    BY <1>9 DEF BootNext, BootBegin, BootFails, BootMismatch, BootTrip, BootCompletes,
                SetScanning, AccountMoves, CooldownElapses, SessionTurns, ClerkNext,
                TripRequest, TripServe, ClearRequest, ClearServe, vars, process
  <1> QED
    BY <1>1, <1>2, <1>7, <1>8, <1>9 DEF Next

\* The order that leaves is one the running scan has approved.
LEMMA Departures ==
    ASSUME IInv, [Next]_vars, NEW t \in Scanners, Sends(t)
    PROVE  \E s \in scan[t].approved :
            scan[t].pc = "execute" /\ scan[t].sent = {} /\ scan'[t].sent = {s}
  <1>1. PICK u \in Scanners : ScanOpens(u) \/ ScanFails(u) \/ ScanUnverified(u)
    BY OnlyThreeSend DEF SendsNothing, Sends
  <1>2. PICK s \in scan[u].approved, p \in Sent : Send(u, s, p)
    BY <1>1 DEF ScanOpens, ScanFails, ScanUnverified
  <1>3. scan[u].pc = "execute"
    BY <1>1 DEF ScanOpens, ScanFails, ScanUnverified
  <1>4. PICK x \in Thread :
            /\ ScanTo(u, x) /\ x.pc = p /\ x.sent = {s} /\ s \in Symbols
            /\ Past(x) \subseteq Past(scan[u]) /\ x.seen = scan[u].seen
    BY <1>2, <1>3, SendThread, SMTT(60)
  <1>5. t = u /\ scan'[t] = x
    BY <1>4 DEF IInv, Typed, TypeScan, ScanTo, Sends
  <1>6. scan[t].sent = {}
    BY <1>3, <1>5, Judged
  <1> QED
    BY <1>3, <1>4, <1>5, <1>6

\* No order follows an AMBIGUOUS or REJECTED one before its cooldown has elapsed:
\* the failure is recorded under the lock, and the next scan reads the record.
THEOREM FailurePauses == Spec => FailurePausesTrading
  <1>1. ASSUME IInv, [Next]_vars, NEW t \in Scanners, Sends(t)
        PROVE  failed \cap EXECUTION_FAILURE_STATUSES = {}
    <2>1. scan[t].pc = "execute" /\ Past(scan[t]) # {}
      BY <1>1, Departures DEF Past
    <2>2. ~cooling
      BY <1>1, <2>1, Judged
    <2> QED
      BY <1>1, <2>1, <2>2, Settled DEF Owed
  <1>2. IInv /\ [Next]_vars =>
            [\A t \in Scanners : Sends(t) => failed \cap EXECUTION_FAILURE_STATUSES = {}]_vars
    BY <1>1
  <1> QED
    BY <1>2, Inductive, PTL DEF Spec, FailurePausesTrading

\* Once a trip of the kill switch is written, only what the running scan had taken
\* past the hard blocks by then, approved or under review, may still go out,
\* whichever thread wrote the trip.
THEOREM TripStops == Spec => TripStopsApprovals
  <1>1. ASSUME IInv, [Next]_vars, NEW t \in Scanners, NEW s \in scan'[t].sent \ scan[t].sent, Active
        PROVE  s \in exposed
    <2>1. PICK r \in scan[t].approved :
            scan[t].pc = "execute" /\ scan[t].sent = {} /\ scan'[t].sent = {r}
      BY <1>1, Departures DEF Sends
    <2> QED
      BY <1>1, <2>1, Judged DEF Past
  <1>2. IInv /\ [Next]_vars =>
            [\A t \in Scanners : \A s \in scan'[t].sent \ scan[t].sent : Active => s \in exposed]_vars
    BY <1>1
  <1> QED
    BY <1>2, Inductive, PTL DEF Spec, TripStopsApprovals

=============================================================================
