----------------------------- MODULE ScanCycle -----------------------------
(***************************************************************************)
(* The process around the order path: the boot sequence and the scan       *)
(* (bot/orchestrator.py), the kill switch (bot/safety/kill_switch.py), the *)
(* hard blocks of the risk engine that look at shared state                *)
(* (bot/risk/engine.py) and the threads that run them: the scheduler's     *)
(* jobs and the HTTP control handlers (bot/service.py, bot/api.py).        *)
(*                                                                         *)
(* The kill switch, the pause flag, the failure cooldown and the session   *)
(* counts are rows of the database: each read and each write of one is a   *)
(* step, and kill_switch.trip and clear are a read, then a write.  The     *)
(* executor's inside is module Execution; here execute is its outcome.     *)
(***************************************************************************)
EXTENDS Naturals, FiniteSets

CONSTANTS
    Scanners,        \* threads that call scan: the job, manual triggers
    Clerks,          \* HTTP threads that serve a control command
    Symbols,
    NULL,
    MaxPerSession,   \* RiskLimits.max_trades_per_session
    MaxFaults,       \* bound: crashes and exceptions out of a scan
    MaxBlind         \* bound: fills of orders of unknown outcome in a session

ASSUME LimitAssumption ==
    MaxPerSession \in Nat \ {0} /\ MaxFaults \in Nat /\ MaxBlind \in Nat

ASSUME NullAssumption == NULL \notin Scanners

VARIABLES
    switch,    \* the kill_switch row: "clear" or the reason it is active
    enabled,   \* the scan_enabled row
    cooling,   \* last_execution_failure_at is inside its cooldown
    counted,   \* session_counts of the current session
    breach,    \* external: the account is beyond a limit that stops the bot
    ready,     \* Orchestrator.startup_complete
    lock,      \* _scan_lock: its holder or NULL
    scan,      \* each thread inside scan
    clerk,     \* each thread inside a control handler
    boot,      \* the thread inside startup
    taken,     \* history: positions opened in the current session
    blind,     \* history: those of them opened by an order of unknown outcome
    failed,    \* history: how orders failed since a failure cooldown elapsed
    exposed,   \* history: symbols past the gate when the active trip was written
    faults

rows == <<switch, enabled, cooling, counted>>
process == <<ready, lock, scan, clerk, boot>>
history == <<taken, blind, failed, exposed>>
vars == <<rows, breach, process, history, faults>>

----------------------------------------------------------------------------
(* The kill switch.                                                        *)

CLEARABLE == {"MANUAL", "DAILY_LOSS_LIMIT"}

SAFETY == {"ENVIRONMENT_MISMATCH"}

Active == switch # "clear"

\* trip's write: unconditional, after a read that saw the switch inactive.
TripWrite(reason) ==
    /\ switch' = reason
    /\ exposed' = IF Active THEN exposed
                 ELSE UNION {scan[t].approved \cup scan[t].weighed : t \in Scanners}

\* clear's write, after a read that saw a clearable reason or with force.
ClearWrite ==
    /\ switch' = "clear"
    /\ exposed' = {}

----------------------------------------------------------------------------
(* Orchestrator.scan.                                                      *)

ScanIdle == [pc |-> "idle", reason |-> NULL, seen |-> NULL, todo |-> {},
             weighed |-> {}, approved |-> {}, sent |-> {}]

\* The account state the whole scan is judged on.
Account == [breach : BOOLEAN, cooling : BOOLEAN, counted : Nat]

ScanTo(t, thread) == scan' = [scan EXCEPT ![t] = thread]

Goto(t, pc) == ScanTo(t, [scan[t] EXCEPT !.pc = pc])

\* Mutant: a return that forgets the lock.
ReturnKeepsLock(t) == ScanTo(t, ScanIdle) /\ UNCHANGED lock

\* Every return of _scan passes through the finally that releases the lock.
Return(t) == ScanTo(t, ScanIdle) /\ lock' = NULL

\* Mutant: the lock is looked at and not taken.
ScanStartUnlocked(t) ==
    /\ scan[t].pc = "idle" /\ lock = NULL /\ ready
    /\ Goto(t, "enabled")
    /\ UNCHANGED <<rows, breach, ready, lock, clerk, boot, history, faults>>

\* The non-blocking acquire, then the startup gate; a trigger that finds the lock
\* held, or startup incomplete, changes nothing.
ScanStart(t) ==
    /\ scan[t].pc = "idle" /\ lock = NULL /\ ready
    /\ lock' = t
    /\ Goto(t, "enabled")
    /\ UNCHANGED <<rows, breach, ready, clerk, boot, history, faults>>

\* The pause flag and the weekend.
ScanEnabled(t) ==
    /\ scan[t].pc = "enabled"
    /\ \/ enabled /\ Goto(t, "demo") /\ UNCHANGED lock
       \/ Return(t)
    /\ UNCHANGED <<rows, breach, ready, clerk, boot, history, faults>>

\* verify_demo: verified, unverifiable, or contradicted, which trips.
ScanVerify(t) ==
    /\ scan[t].pc = "demo"
    /\ \/ Goto(t, "account") /\ UNCHANGED lock
       \/ Return(t)
       \/ /\ ScanTo(t, [scan[t] EXCEPT !.pc = "trip", !.reason = "ENVIRONMENT_MISMATCH"])
          /\ UNCHANGED lock
    /\ UNCHANGED <<rows, breach, ready, clerk, boot, history, faults>>

\* _compose_account_state, as far as other threads and later scans change it.
Seen == [breach |-> breach, cooling |-> cooling, counted |-> counted]

\* evaluate_kill_switch; one reason stands for its three, all clearable.
TripReason == IF breach THEN "DAILY_LOSS_LIMIT" ELSE NULL

\* build_account_state, and whether it must trip.
ScanAccount(t) ==
    /\ scan[t].pc = "account"
    /\ \/ /\ ScanTo(t, [scan[t] EXCEPT !.pc = IF breach THEN "trip" ELSE "switch",
                                        !.reason = TripReason, !.seen = Seen])
          /\ UNCHANGED lock
       \/ Return(t)
    /\ UNCHANGED <<rows, breach, ready, clerk, boot, history, faults>>

\* Mutant: no early return after a failed verification.
AfterTripContinues(t) == Goto(t, "switch") /\ UNCHANGED lock

\* After the trip: a contradicted account ends the scan, a breach goes on to read.
AfterTrip(t) ==
    IF scan[t].reason \in SAFETY
    THEN Return(t)
    ELSE Goto(t, "switch") /\ UNCHANGED lock

\* trip's read; an unreadable row reads as active, and trip then writes nothing.
ScanTripRead(t) ==
    /\ scan[t].pc = "trip"
    /\ \/ ~Active /\ Goto(t, "latch") /\ UNCHANGED lock
       \/ AfterTrip(t)
    /\ UNCHANGED <<rows, breach, ready, clerk, boot, history, faults>>

ScanTripWrite(t) ==
    /\ scan[t].pc = "latch"
    /\ TripWrite(scan[t].reason)
    /\ AfterTrip(t)
    /\ UNCHANGED <<enabled, cooling, counted, breach, ready, clerk, boot, taken, blind, failed, faults>>

\* kill_switch.read; unreadable reads as active.
ScanSwitch(t) ==
    /\ scan[t].pc = "switch"
    /\ \/ /\ ~Active
          /\ ScanTo(t, [scan[t] EXCEPT !.pc = "evaluate", !.todo = Symbols])
          /\ UNCHANGED lock
       \/ Return(t)
    /\ UNCHANGED <<rows, breach, ready, clerk, boot, history, faults>>

\* Mutant: the scan's own read of the switch is thought to be enough.
HardBlocksWithoutSwitch(t) ==
    scan[t].seen.breach \/ scan[t].seen.cooling \/ scan[t].seen.counted >= MaxPerSession

\* Mutant: the limit is passed by one.
HardBlocksOffByOne(t) ==
    \/ Active
    \/ scan[t].seen.breach
    \/ scan[t].seen.cooling
    \/ scan[t].seen.counted > MaxPerSession

\* RiskEngine._hard_blocks, the part shared with other threads: the switch is read
\* again for every candidate, the rest is the scan's account state.
HardBlocks(t) ==
    \/ Active
    \/ scan[t].seen.breach
    \/ scan[t].seen.cooling
    \/ scan[t].seen.counted >= MaxPerSession

\* _evaluate_symbol up to the hard blocks: a candidate none of them refuses.
ScanGate(t) ==
    /\ scan[t].pc = "evaluate" /\ scan[t].weighed = {} /\ ~HardBlocks(t)
    /\ \E s \in scan[t].todo :
        ScanTo(t, [scan[t] EXCEPT !.todo = @ \ {s}, !.weighed = {s}])
    /\ UNCHANGED <<rows, breach, ready, lock, clerk, boot, history, faults>>

\* The rest of evaluate (the rate lookup, a call of the broker) and the AI review
\* (a call of the model) pass: the candidate is executable, and nothing reads the
\* switch again before its order.
ScanApprove(t) ==
    /\ scan[t].pc = "evaluate" /\ scan[t].weighed # {}
    /\ ScanTo(t, [scan[t] EXCEPT !.weighed = {}, !.approved = @ \cup scan[t].weighed])
    /\ UNCHANGED <<rows, breach, ready, lock, clerk, boot, history, faults>>

\* Any gate, and any error, refuses the symbol alone, before or after the blocks.
ScanSymbolRefused(t) ==
    /\ scan[t].pc = "evaluate"
    /\ \/ /\ scan[t].weighed = {}
          /\ \E s \in scan[t].todo : ScanTo(t, [scan[t] EXCEPT !.todo = @ \ {s}])
       \/ scan[t].weighed # {} /\ ScanTo(t, [scan[t] EXCEPT !.weighed = {}])
    /\ UNCHANGED <<rows, breach, ready, lock, clerk, boot, history, faults>>

\* Nothing executable, or on to the ranking.
ScanRank(t) ==
    /\ scan[t].pc = "evaluate" /\ scan[t].todo = {} /\ scan[t].weighed = {}
    /\ \/ scan[t].approved # {} /\ Goto(t, "execute") /\ UNCHANGED lock
       \/ scan[t].approved = {} /\ Return(t)
    /\ UNCHANGED <<rows, breach, ready, clerk, boot, history, faults>>

\* A refusal about one symbol: the next candidate is tried.
ScanRefusedHere(t) ==
    /\ scan[t].pc = "execute"
    /\ \E s \in scan[t].approved :
        IF scan[t].approved = {s}
        THEN Return(t)
        ELSE ScanTo(t, [scan[t] EXCEPT !.approved = @ \ {s}]) /\ UNCHANGED lock
    /\ UNCHANGED <<rows, breach, ready, clerk, boot, history, faults>>

\* DUPLICATE, or ABORTED over something other than the symbol: the executor's own
\* guards sent nothing, and the scan stops.
ScanRefusedAll(t) ==
    /\ scan[t].pc = "execute"
    /\ Return(t)
    /\ UNCHANGED <<rows, breach, ready, clerk, boot, history, faults>>

\* The order for s leaves the process.
Send(t, s, pc) ==
    ScanTo(t, [scan[t] EXCEPT !.pc = pc, !.sent = @ \cup {s}, !.approved = @ \ {s}])

ScanOpens(t) ==
    /\ scan[t].pc = "execute"
    /\ \E s \in scan[t].approved : Send(t, s, "bump")
    /\ taken' = taken + 1
    /\ UNCHANGED <<rows, breach, ready, lock, clerk, boot, blind, failed, exposed, faults>>

EXECUTION_FAILURE_STATUSES == {"AMBIGUOUS", "REJECTED"}

\* External: an order the executor could not follow opens a position all the same,
\* or nothing.
MayLand ==
    \/ blind < MaxBlind /\ taken' = taken + 1 /\ blind' = blind + 1
    \/ UNCHANGED <<taken, blind>>

\* Mutant: an unknown outcome moves on to the next symbol, like a refusal.
ScanFailsOnwards(t) ==
    /\ scan[t].pc = "execute"
    /\ \E s \in scan[t].approved :
        Send(t, s, IF scan[t].approved = {s} THEN "failure" ELSE "execute")
    /\ failed' = failed \cup {"AMBIGUOUS"}
    /\ MayLand
    /\ UNCHANGED <<rows, breach, ready, lock, clerk, boot, exposed, faults>>

\* AMBIGUOUS or REJECTED: neither is symbol specific, and only REJECTED says that
\* there is no position.
ScanFails(t) ==
    /\ scan[t].pc = "execute"
    /\ \E s \in scan[t].approved : Send(t, s, "failure")
    /\ \E status \in EXECUTION_FAILURE_STATUSES :
        /\ failed' = failed \cup {status}
        /\ IF status = "REJECTED" THEN UNCHANGED <<taken, blind>> ELSE MayLand
    /\ UNCHANGED <<rows, breach, ready, lock, clerk, boot, exposed, faults>>

\* UNVERIFIED: acknowledged, and no position seen within the window.  Not one of
\* EXECUTION_FAILURE_STATUSES and not ok: nothing is recorded or counted.
ScanUnverified(t) ==
    /\ scan[t].pc = "execute"
    /\ \E s \in scan[t].approved : Send(t, s, "end")
    /\ failed' = failed \cup {"UNVERIFIED"}
    /\ MayLand
    /\ UNCHANGED <<rows, breach, ready, lock, clerk, boot, exposed, faults>>

ScanEnd(t) ==
    /\ scan[t].pc = "end"
    /\ Return(t)
    /\ UNCHANGED <<rows, breach, ready, clerk, boot, history, faults>>

\* What is left of failed when a thread dies before its cooldown is written.
Recorded == IF cooling THEN failed ELSE failed \ EXECUTION_FAILURE_STATUSES

\* A storage exception leaves the scan where it stands: after an order, neither
\* the session count nor the cooldown is written.
ScanRaises(t) ==
    /\ faults < MaxFaults /\ faults' = faults + 1
    /\ scan[t].pc # "idle"
    /\ Return(t)
    /\ failed' = Recorded
    /\ UNCHANGED <<rows, breach, ready, clerk, boot, taken, blind, exposed>>

\* _bump_session_count: its read and write are under the scan lock.
ScanBump(t) ==
    /\ scan[t].pc = "bump"
    /\ counted' = counted + 1
    /\ Return(t)
    /\ UNCHANGED <<switch, enabled, cooling, breach, ready, clerk, boot, history, faults>>

\* _record_execution_outcome.
ScanRecordFailure(t) ==
    /\ scan[t].pc = "failure"
    /\ cooling' = TRUE
    /\ Return(t)
    /\ UNCHANGED <<switch, enabled, counted, breach, ready, clerk, boot, history, faults>>

ScanStep(t) ==
    \/ ScanEnabled(t) \/ ScanVerify(t) \/ ScanAccount(t) \/ ScanTripRead(t)
    \/ ScanTripWrite(t) \/ ScanSwitch(t) \/ ScanGate(t) \/ ScanApprove(t)
    \/ ScanSymbolRefused(t) \/ ScanRank(t) \/ ScanRefusedHere(t) \/ ScanRefusedAll(t)
    \/ ScanOpens(t) \/ ScanFails(t) \/ ScanUnverified(t)
    \/ ScanBump(t) \/ ScanRecordFailure(t) \/ ScanEnd(t)

----------------------------------------------------------------------------
(* The control handlers.                                                   *)

ClerkIdle == [pc |-> "idle", force |-> FALSE]

ClerkTo(c, thread) == clerk' = [clerk EXCEPT ![c] = thread]

\* set_scanning.
SetScanning ==
    /\ enabled' = ~enabled
    /\ UNCHANGED <<switch, cooling, counted, breach, process, history, faults>>

\* trip_kill_switch: trip's read; an active or unreadable row is the answer.
TripRequest(c) ==
    /\ clerk[c].pc = "idle" /\ ~Active
    /\ ClerkTo(c, [clerk[c] EXCEPT !.pc = "trip"])
    /\ UNCHANGED <<rows, breach, ready, lock, scan, boot, history, faults>>

TripServe(c) ==
    /\ clerk[c].pc = "trip"
    /\ TripWrite("MANUAL")
    /\ ClerkTo(c, ClerkIdle)
    /\ UNCHANGED <<enabled, cooling, counted, breach, ready, lock, scan, boot, taken, blind, failed, faults>>

\* clear_kill_switch: clear's read, and what it lets pass.
ClearRequest(c, force) ==
    /\ clerk[c].pc = "idle" /\ Active
    /\ switch \in CLEARABLE \/ force
    /\ ClerkTo(c, [pc |-> "clear", force |-> force])
    /\ UNCHANGED <<rows, breach, ready, lock, scan, boot, history, faults>>

ClearServe(c) ==
    /\ clerk[c].pc = "clear"
    /\ ClearWrite
    /\ ClerkTo(c, ClerkIdle)
    /\ UNCHANGED <<enabled, cooling, counted, breach, ready, lock, scan, boot, taken, blind, failed, faults>>

----------------------------------------------------------------------------
(* The boot sequence, run at start and again by the reconcile job.         *)

BootTo(pc) == boot' = pc

\* Mutant: startup runs once, at the start of the process.
BootOnlyOnce ==
    /\ boot = "fresh" /\ ~ready
    /\ BootTo("session")
    /\ UNCHANGED <<rows, breach, ready, lock, scan, clerk, history, faults>>

\* start, then _reconcile_and_retry_startup as long as startup is incomplete.
BootBegin ==
    /\ boot \in {"fresh", "idle"} /\ ~ready
    /\ BootTo("session")
    /\ UNCHANGED <<rows, breach, ready, lock, scan, clerk, history, faults>>

\* No session, no proof of DEMO, no database, no account state: return.
BootFails ==
    /\ boot = "session"
    /\ BootTo("idle")
    /\ UNCHANGED <<rows, breach, ready, lock, scan, clerk, history, faults>>

BootMismatch ==
    /\ boot = "session" /\ ~Active
    /\ BootTo("trip")
    /\ UNCHANGED <<rows, breach, ready, lock, scan, clerk, history, faults>>

BootTrip ==
    /\ boot = "trip"
    /\ TripWrite("ENVIRONMENT_MISMATCH")
    /\ BootTo("idle")
    /\ UNCHANGED <<enabled, cooling, counted, breach, ready, lock, scan, clerk, taken, blind, failed, faults>>

\* The reads succeeded; the reconcile report is logged, whatever it says.
BootCompletes ==
    /\ boot = "session"
    /\ BootTo("idle")
    /\ ready' = TRUE
    /\ UNCHANGED <<rows, breach, lock, scan, clerk, history, faults>>

----------------------------------------------------------------------------
(* The world.                                                              *)

Crash ==
    /\ faults < MaxFaults /\ faults' = faults + 1
    /\ lock' = NULL
    /\ scan' = [t \in Scanners |-> ScanIdle]
    /\ clerk' = [c \in Clerks |-> ClerkIdle]
    /\ boot' = "fresh"
    /\ ready' = FALSE
    /\ failed' = Recorded
    /\ UNCHANGED <<rows, breach, taken, blind, exposed>>

\* Profit and loss move the account over its limit, or a new day resets it.
AccountMoves ==
    /\ breach' = ~breach
    /\ UNCHANGED <<rows, process, history, faults>>

\* Time: cooldowns and sessions are judged at the moment a scan began, so both
\* turn between scans.
CooldownElapses ==
    /\ lock = NULL /\ cooling
    /\ cooling' = FALSE /\ failed' = {}
    /\ UNCHANGED <<switch, enabled, counted, breach, process, taken, blind, exposed, faults>>

SessionTurns ==
    /\ lock = NULL
    /\ counted' = 0 /\ taken' = 0 /\ blind' = 0
    /\ UNCHANGED <<switch, enabled, cooling, breach, process, failed, exposed, faults>>

----------------------------------------------------------------------------

Init ==
    /\ switch = "clear" /\ enabled = TRUE /\ cooling = FALSE /\ counted = 0
    /\ breach = FALSE /\ ready = FALSE /\ lock = NULL
    /\ scan = [t \in Scanners |-> ScanIdle]
    /\ clerk = [c \in Clerks |-> ClerkIdle]
    /\ boot = "fresh"
    /\ taken = 0 /\ blind = 0 /\ failed = {} /\ exposed = {}
    /\ faults = 0

ClerkNext(c) ==
    \/ TripRequest(c) \/ TripServe(c) \/ ClearServe(c)
    \/ \E force \in BOOLEAN : ClearRequest(c, force)

BootNext == BootBegin \/ BootFails \/ BootMismatch \/ BootTrip \/ BootCompletes

Next ==
    \/ \E t \in Scanners : ScanStart(t) \/ ScanStep(t) \/ ScanRaises(t)
    \/ \E c \in Clerks : ClerkNext(c)
    \/ SetScanning
    \/ BootNext
    \/ Crash \/ AccountMoves \/ CooldownElapses \/ SessionTurns

Spec == Init /\ [][Next]_vars

\* A thread that runs keeps running; the reconcile job ticks; an account that can
\* be read and verified again and again is read and verified in the end.
Fairness ==
    /\ \A t \in Scanners : WF_vars(ScanStep(t))
    /\ WF_vars(BootBegin) /\ WF_vars(BootTrip)
    /\ WF_vars(BootFails \/ BootMismatch \/ BootCompletes) /\ SF_vars(BootCompletes)

FairSpec == Spec /\ Fairness

----------------------------------------------------------------------------
(* Properties.                                                             *)

ScanPCs == {"idle", "enabled", "demo", "account", "trip", "latch", "switch",
            "evaluate", "execute", "bump", "failure", "end"}

\* Rows and threads stay in the values the code writes, and a thread past the
\* account read still holds the account state it judges candidates on.
TypeOK ==
    /\ switch \in CLEARABLE \cup SAFETY \cup {"clear"}
    /\ enabled \in BOOLEAN /\ cooling \in BOOLEAN /\ counted \in Nat
    /\ breach \in BOOLEAN /\ ready \in BOOLEAN /\ lock \in Scanners \cup {NULL}
    /\ \A t \in Scanners :
        /\ scan[t].pc \in ScanPCs
        /\ scan[t].pc \in {"trip", "latch"} => scan[t].reason \in CLEARABLE \cup SAFETY
        /\ scan[t].pc \in {"switch", "evaluate", "execute"} => scan[t].seen \in Account
        /\ scan[t].todo \subseteq Symbols /\ scan[t].weighed \subseteq Symbols
        /\ scan[t].approved \subseteq Symbols /\ scan[t].sent \subseteq Symbols
    /\ clerk \in [Clerks -> [pc : {"idle", "trip", "clear"}, force : BOOLEAN]]
    /\ boot \in {"fresh", "idle", "session", "trip"}
    /\ taken \in Nat /\ blind \in 0..MaxBlind /\ exposed \subseteq Symbols
    /\ failed \subseteq EXECUTION_FAILURE_STATUSES \cup {"UNVERIFIED"}
    /\ faults \in 0..MaxFaults

\* "One trade per cycle" survives walking down the ranking: one scan never lets
\* two orders out, whatever became of the first.
OneOrderPerCycle ==
    \A t \in Scanners : Cardinality(scan[t].sent) <= 1

\* Thread t's step puts an order on the wire.
Sends(t) == scan'[t].sent # scan[t].sent /\ scan'[t].sent # {}

\* No order follows an AMBIGUOUS or REJECTED one until the cooldown has elapsed,
\* unless a crash or an exception kept the failure from being recorded: no other
\* scan reads the account between the failure and its record.
FailurePausesTrading ==
    [][\A t \in Scanners : Sends(t) => failed \cap EXECUTION_FAILURE_STATUSES = {}]_vars

\* The reason the code gives for the cooldown ("hammering a broker you cannot read
\* is exactly wrong") holds of every order whose outcome is unknown, the one that
\* was acknowledged and never seen included: violated, UNVERIFIED starts none.
UnknownPausesTrading ==
    [][\A t \in Scanners : Sends(t) => failed \cap {"AMBIGUOUS", "UNVERIFIED"} = {}]_vars

\* max_trades_per_session holds across scans of all threads for the orders whose
\* outcome is known; each crash or exception between an order and its count, and
\* each fill of an order of unknown outcome, can cost one.
SessionCap == taken <= MaxPerSession + faults + blind

\* "Trades per session | 3", without those allowances: violated with no fault, by
\* an order that was not seen to fill and did.
SessionLimit == taken <= MaxPerSession

\* Once a trip is written no symbol passes the hard blocks any more, whichever
\* thread wrote it: what may still go out had passed them by then.
TripStopsApprovals ==
    [][\A t \in Scanners : \A s \in scan'[t].sent \ scan[t].sent :
        Active => s \in exposed]_vars

\* "When active, no new trade may be created for any symbol": violated, a scan
\* past the hard blocks of its candidate does not look at the switch again.
TripStopsOrders == [][\A t \in Scanners : Sends(t) => ~Active]_vars

\* Every scan, however it ends, gives the lock back: triggers are not skipped for
\* ever.
LockReleased == lock # NULL ~> lock = NULL

\* An outage at boot does not leave the process unable to trade.
StartupRetried == ~ready ~> ready

=============================================================================
