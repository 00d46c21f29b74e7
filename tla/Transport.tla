----------------------------- MODULE Transport -----------------------------
(***************************************************************************)
(* The HTTP transport every broker call goes through (bot/broker/http.py): *)
(* the bounded retries of request, the circuit breaker and the throttle,   *)
(* both shared by the scan, the position poll, the reconcile pass and the  *)
(* control handlers, which run on threads of their own.                    *)
(*                                                                         *)
(* The throttle is under one lock, which wait keeps while it sleeps; the   *)
(* circuit is under none, so record_failure is two steps, parted at its    *)
(* call of time.monotonic.  Instants are kept as the time since them, in   *)
(* ticks and no further than the code compares them; Tick moves them all.  *)
(***************************************************************************)
EXTENDS Naturals, FiniteSetsExt

CONSTANTS
    Callers,            \* the threads that share the transport
    Writers,            \* those that send orders, closes and logins too
    NULL,
    MaxAttempts,        \* HttpTransport.max_attempts
    FailureThreshold,   \* CircuitBreaker.failure_threshold
    ResetTicks,         \* CircuitBreaker.reset_seconds
    MaxResetTicks,      \* CircuitBreaker.max_reset_seconds
    MaxExponent,        \* the largest power of two a float can hold: 1023
    MinInterval,        \* Throttle.min_interval
    MaxInterval,        \* Throttle.max_interval
    RecoverySuccesses,  \* Throttle.RECOVERY_SUCCESSES
    RecoveryStep,       \* Throttle.RECOVERY_STEP
    MinCooldown,        \* MIN_RATE_LIMIT_COOLDOWN
    MaxRetryAfter,      \* bound: the longest Retry-After the host sends
    MaxOpens            \* bound: open cycles counted apart

ASSUME CountAssumption ==
    /\ {MaxAttempts, FailureThreshold, RecoverySuccesses, MaxOpens}
           \subseteq Nat \ {0}
    /\ MaxExponent \in Nat

ASSUME TimeAssumption ==
    /\ {ResetTicks, MinInterval, RecoveryStep, MinCooldown} \subseteq Nat \ {0}
    /\ MaxResetTicks \in Nat /\ MaxResetTicks >= ResetTicks
    /\ MaxInterval \in Nat /\ MaxInterval >= MinInterval
    /\ MaxRetryAfter \in Nat /\ MaxRetryAfter >= MinCooldown

VARIABLES
    circuit,    \* the CircuitBreaker's fields but the one only health reads
    throttle,   \* the Throttle's fields, its lock and the sleep under it
    call,       \* each thread inside request
    host        \* external: "up", or "down" and free to answer anything

vars == <<circuit, throttle, call, host>>

----------------------------------------------------------------------------
(* What the host may answer.                                               *)

Kinds == {"read", "write"}

\* malformed is a 200 whose body is not JSON; broken is a body cut short or
\* undecodable, whose exception none of request's handlers names; server is
\* a 5xx; lost is a timeout or a refused or reset connection.
Answers == {"ok", "malformed", "broken", "auth", "limited", "server",
            "rejected", "lost"}

\* How request ends: the body, a BrokerError (BrokerAuthError, BrokerRejected,
\* BrokerRateLimited and CircuitOpen are its subclasses), AmbiguousExecution,
\* or an exception that is none of the bot's own.
Outcomes == {"ok", "refused", "ambiguous", "escaped"}

ASSUME CallerAssumption ==
    /\ Writers \subseteq Callers /\ IsFiniteSet(Callers)
    /\ NULL \notin Callers /\ NULL \notin Outcomes

HostAnswers == IF host = "up" THEN {"ok", "auth", "rejected"} ELSE Answers

\* external: a 4xx proves that a command was not taken, nothing else does.
MayHaveApplied(kind, answer) ==
    IF kind = "read" \/ answer \in {"auth", "limited", "rejected"}
    THEN {FALSE}
    ELSE IF answer = "ok" THEN {TRUE} ELSE BOOLEAN

----------------------------------------------------------------------------
(* The circuit breaker.                                                    *)

Open == circuit.failures >= FailureThreshold

\* 2 ** (opens - 1) is an exact integer, and multiplying it by a float
\* raises OverflowError when it is larger than every float.
Overflows == circuit.opens > MaxExponent + 1

CurrentReset ==
    Min({ResetTicks * 2 ^ (Max({1, circuit.opens}) - 1), MaxResetTicks})

RecordSuccess ==
    circuit' = [circuit EXCEPT !.failures = 0, !.opens = 0]

----------------------------------------------------------------------------
(* The throttle.                                                           *)

Unlocked == throttle.holder = NULL

Delay ==
    Max({IF throttle.since < throttle.interval
         THEN throttle.interval - throttle.since ELSE 0, throttle.penalty})

\* Mutant: the ceiling on the spacing is forgotten.
WidenUncapped(interval) == (8 * interval + 4) \div 5

\* interval * 1.6, rounded up to a tick, under the ceiling.
Widen(interval) == Min({MaxInterval, (8 * interval + 4) \div 5})

Narrow(interval) ==
    IF interval < MinInterval + RecoveryStep
    THEN MinInterval ELSE interval - RecoveryStep

ThrottleSuccess ==
    throttle' =
        IF throttle.interval <= MinInterval THEN throttle
        ELSE IF throttle.successes + 1 < RecoverySuccesses
        THEN [throttle EXCEPT !.successes = @ + 1]
        ELSE [throttle EXCEPT !.successes = 0, !.interval = Narrow(@)]

----------------------------------------------------------------------------
(* request.                                                                *)

At(c, label) == call[c].pc = label

Goto(c, label) == call' = [call EXCEPT ![c].pc = label]

\* A thread outside request; of the last one only its result is left.
Idle(kind, outcome, applied) ==
    [pc |-> "idle", kind |-> kind, attempt |-> 0, sent |-> 0,
     answer |-> NULL, applied |-> applied, outcome |-> outcome]

\* The thread leaves request with a result or an exception.
Return(c, outcome, applied) ==
    call' = [call EXCEPT ![c] = Idle(call[c].kind, outcome, applied)]

IsWrite(c) == call[c].kind = "write"

\* Mutant: the flag login passes is taken at its word.
RetryableIfAsked(c) == TRUE

\* idempotent=True makes no write retryable.
Retryable(c) == ~IsWrite(c)

\* After record_failure: a read sleeps (for any time) and goes round again
\* until its attempts are spent; a write is over and its outcome unknown.
AfterFailure(c) ==
    IF Retryable(c) /\ call[c].attempt < MaxAttempts - 1
    THEN [call[c] EXCEPT !.pc = "check", !.attempt = @ + 1, !.answer = NULL]
    ELSE Idle(call[c].kind, IF IsWrite(c) THEN "ambiguous" ELSE "refused",
              call[c].applied)

Begin(c) ==
    /\ At(c, "idle")
    /\ \E kind \in IF c \in Writers THEN Kinds ELSE {"read"} :
           call' = [call EXCEPT ![c] =
                        [Idle(kind, NULL, FALSE) EXCEPT !.pc = "check"]]
    /\ UNCHANGED <<circuit, throttle, host>>

\* before_call lets the call through: closed, or open for long enough.
BeforeCall(c) ==
    /\ At(c, "check")
    /\ Open => ~Overflows /\ circuit.age >= CurrentReset
    /\ Goto(c, "wait")
    /\ UNCHANGED <<circuit, throttle, host>>

\* Mutant: a call that is shed starts the cooldown afresh.
ShedRestarts(c) ==
    /\ At(c, "check")
    /\ Open /\ (Overflows \/ circuit.age < CurrentReset)
    /\ circuit' = [circuit EXCEPT !.age = 0]
    /\ Return(c, "refused", call[c].applied)
    /\ UNCHANGED <<throttle, host>>

\* before_call raises: CircuitOpen, or OverflowError out of its arithmetic.
Shed(c) ==
    /\ At(c, "check")
    /\ Open /\ (Overflows \/ circuit.age < CurrentReset)
    /\ Return(c, IF Overflows THEN "escaped" ELSE "refused", call[c].applied)
    /\ UNCHANGED <<circuit, throttle, host>>

\* Throttle.wait takes the lock; with a delay it sleeps with it.
ThrottleWait(c) ==
    /\ At(c, "wait")
    /\ Unlocked
    /\ IF Delay = 0
       THEN /\ throttle' = [throttle EXCEPT !.since = 0]
            /\ Goto(c, "send")
       ELSE /\ throttle' = [throttle EXCEPT !.holder = c, !.sleep = Delay]
            /\ Goto(c, "sleep")
    /\ UNCHANGED <<circuit, host>>

\* Mutant: the lock is not given back after the sleep.
WakeKeepsLock(c) ==
    /\ At(c, "sleep")
    /\ throttle.sleep = 0
    /\ throttle' = [throttle EXCEPT !.since = 0]
    /\ Goto(c, "send")
    /\ UNCHANGED <<circuit, host>>

Wake(c) ==
    /\ At(c, "sleep")
    /\ throttle.sleep = 0
    /\ throttle' = [throttle EXCEPT !.holder = NULL, !.since = 0]
    /\ Goto(c, "send")
    /\ UNCHANGED <<circuit, host>>

\* urlopen: the request leaves the process.
Send(c) ==
    /\ At(c, "send")
    /\ call' = [call EXCEPT ![c].pc = "flight", ![c].sent = @ + 1]
    /\ UNCHANGED <<circuit, throttle, host>>

\* A 200: the circuit is told before the body is parsed.
ReplyBody(c) ==
    /\ At(c, "flight")
    /\ \E answer \in {"ok", "malformed"} \cap HostAnswers :
         \E applied \in MayHaveApplied(call[c].kind, answer) :
           call' = [call EXCEPT ![c].pc = "credit", ![c].answer = answer,
                                ![c].applied = applied]
    /\ RecordSuccess
    /\ UNCHANGED <<throttle, host>>

\* 401, 403 and the other 4xx: not an outage, and raised at once.
ReplyRefused(c) ==
    /\ At(c, "flight")
    /\ \E answer \in {"auth", "rejected"} \cap HostAnswers :
         \E applied \in MayHaveApplied(call[c].kind, answer) :
           Return(c, "refused", applied)
    /\ RecordSuccess
    /\ UNCHANGED <<throttle, host>>

\* A 429 is never retried and leaves the circuit alone.
ReplyLimited(c) ==
    /\ At(c, "flight")
    /\ "limited" \in HostAnswers
    /\ \E applied \in MayHaveApplied(call[c].kind, "limited") :
           call' = [call EXCEPT ![c].pc = "penalise", ![c].applied = applied]
    /\ UNCHANGED <<circuit, throttle, host>>

\* Mutant, and once the code: a 5xx on a write is a plain BrokerError.
ServerErrorIsDefinite(c) ==
    /\ At(c, "flight")
    /\ "server" \in HostAnswers
    /\ \E applied \in MayHaveApplied(call[c].kind, "server") :
         IF IsWrite(c) THEN Return(c, "refused", applied)
         ELSE call' = [call EXCEPT ![c].pc = "count", ![c].applied = applied]
    /\ UNCHANGED <<circuit, throttle, host>>

\* A 5xx: a failure of the host for a read, an unknown outcome for a write,
\* which the circuit does not count.
ReplyServerError(c) ==
    /\ At(c, "flight")
    /\ "server" \in HostAnswers
    /\ \E applied \in MayHaveApplied(call[c].kind, "server") :
         IF IsWrite(c) THEN Return(c, "ambiguous", applied)
         ELSE call' = [call EXCEPT ![c].pc = "count", ![c].applied = applied]
    /\ UNCHANGED <<circuit, throttle, host>>

\* No answer: URLError, TimeoutError, OSError.
ReplyLost(c) ==
    /\ At(c, "flight")
    /\ "lost" \in HostAnswers
    /\ \E applied \in MayHaveApplied(call[c].kind, "lost") :
           call' = [call EXCEPT ![c].pc = "count", ![c].applied = applied]
    /\ UNCHANGED <<circuit, throttle, host>>

\* response.read or decode raises what no handler names: HTTPException,
\* UnicodeDecodeError.  The circuit hears nothing of it.
ReplyBroken(c) ==
    /\ At(c, "flight")
    /\ "broken" \in HostAnswers
    /\ \E applied \in MayHaveApplied(call[c].kind, "broken") :
           Return(c, "escaped", applied)
    /\ UNCHANGED <<circuit, throttle, host>>

\* Throttle.record_success, then the parse of the body.
Credit(c) ==
    /\ At(c, "credit")
    /\ Unlocked
    /\ ThrottleSuccess
    /\ IF call[c].answer = "ok"
       THEN Return(c, "ok", call[c].applied) ELSE Goto(c, "count")
    /\ UNCHANGED <<circuit, host>>

\* Mutant: the cooldown is set without the lock.
PenaliseUnlocked(c) ==
    /\ At(c, "penalise")
    /\ \E cooldown \in MinCooldown .. MaxRetryAfter :
           throttle' = [throttle EXCEPT
                            !.penalty = Max({@, cooldown}),
                            !.interval = Widen(@),
                            !.successes = 0]
    /\ Return(c, "refused", call[c].applied)
    /\ UNCHANGED <<circuit, host>>

\* Retry-After is a floor: the cooldown is never below MinCooldown.
Penalise(c) ==
    /\ At(c, "penalise")
    /\ Unlocked
    /\ \E cooldown \in MinCooldown .. MaxRetryAfter :
           throttle' = [throttle EXCEPT
                            !.penalty = Max({@, cooldown}),
                            !.interval = Widen(@),
                            !.successes = 0]
    /\ Return(c, "refused", call[c].applied)
    /\ UNCHANGED <<circuit, host>>

\* record_failure up to its call of time.monotonic.
RecordFailure(c) ==
    /\ At(c, "count")
    /\ circuit' = [circuit EXCEPT !.failures = @ + 1]
    /\ IF circuit.failures + 1 < FailureThreshold
       THEN call' = [call EXCEPT ![c] = AfterFailure(c)]
       ELSE Goto(c, IF circuit.failures + 1 = FailureThreshold
                    THEN "opening" ELSE "reopening")
    /\ UNCHANGED <<throttle, host>>

\* The rest of it: the circuit is stamped and one more cycle counted.
SetOpened(c) ==
    /\ At(c, "opening") \/ At(c, "reopening")
    /\ circuit' = [failures |-> IF At(c, "reopening") THEN FailureThreshold
                                ELSE circuit.failures,
                   opens |-> Min({circuit.opens + 1, MaxOpens}),
                   age |-> 0]
    /\ call' = [call EXCEPT ![c] = AfterFailure(c)]
    /\ UNCHANGED <<throttle, host>>

----------------------------------------------------------------------------

\* A tick of the clock.
Tick ==
    /\ circuit' = [circuit EXCEPT !.age = Min({@ + 1, MaxResetTicks})]
    /\ throttle' = [throttle EXCEPT
                        !.since = Min({@ + 1, MaxInterval}),
                        !.penalty = Max({@, 1}) - 1,
                        !.sleep = Max({@, 1}) - 1]
    /\ UNCHANGED <<call, host>>

\* external: the host goes down or comes back.
HostMoves ==
    /\ host' = IF host = "up" THEN "down" ELSE "up"
    /\ UNCHANGED <<circuit, throttle, call>>

\* The interval is the configured one or the one restore takes over from
\* an earlier process, clamped to the configured band.
Init ==
    /\ circuit = [failures |-> 0, opens |-> 0, age |-> MaxResetTicks]
    /\ \E interval \in MinInterval .. MaxInterval :
           throttle = [interval |-> interval, successes |-> 0,
                       since |-> MaxInterval, penalty |-> 0,
                       holder |-> NULL, sleep |-> 0]
    /\ call = [c \in Callers |-> Idle("read", NULL, FALSE)]
    /\ host = "up"

\* The steps that take the throttle's lock, and all the others.
LockStep(c) == ThrottleWait(c) \/ Credit(c) \/ Penalise(c)

FreeStep(c) ==
    \/ Begin(c) \/ BeforeCall(c) \/ Shed(c) \/ Wake(c) \/ Send(c)
    \/ ReplyBody(c) \/ ReplyRefused(c) \/ ReplyLimited(c)
    \/ ReplyServerError(c) \/ ReplyLost(c) \/ ReplyBroken(c)
    \/ RecordFailure(c) \/ SetOpened(c)

Next ==
    \/ \E c \in Callers : LockStep(c) \/ FreeStep(c)
    \/ Tick
    \/ HostMoves

Spec == Init /\ [][Next]_vars

\* Time passes, every thread runs, urlopen has a timeout, the jobs call again,
\* and a thread that waits for the lock is not overtaken for ever.
FairSpec ==
    /\ Spec
    /\ WF_vars(Tick)
    /\ \A c \in Callers : WF_vars(FreeStep(c)) /\ SF_vars(LockStep(c))

----------------------------------------------------------------------------
(* Properties.                                                             *)

Labels == {"idle", "check", "wait", "sleep", "send", "flight",
           "credit", "penalise", "count", "opening", "reopening"}

\* The fields stay in their ranges: the learned interval in the configured
\* band, and the failures no further over the threshold than the threads that
\* are inside record_failure (http.py:109).
TypeOK ==
    /\ circuit \in [failures : 0 .. FailureThreshold + Cardinality(Callers),
                    opens : 0 .. MaxOpens, age : 0 .. MaxResetTicks]
    /\ throttle \in [interval : MinInterval .. MaxInterval,
                     successes : 0 .. RecoverySuccesses - 1,
                     since : 0 .. MaxInterval, penalty : 0 .. MaxRetryAfter,
                     holder : Callers \cup {NULL},
                     sleep : 0 .. Max({MaxInterval, MaxRetryAfter})]
    /\ call \in [Callers -> [pc : Labels, kind : Kinds,
                             attempt : 0 .. MaxAttempts - 1,
                             sent : 0 .. MaxAttempts,
                             answer : {NULL, "ok", "malformed"},
                             applied : BOOLEAN,
                             outcome : Outcomes \cup {NULL}]]
    /\ host \in {"up", "down"}

\* A write leaves the process once at most, whatever the answer to it was
\* (http.py:7 "Writes NEVER retry inside this layer").
WriteSentOnce ==
    \A c \in Callers : IsWrite(c) => call[c].sent <= 1

\* An exception that tells the caller its command was not taken is true: only
\* a success, AmbiguousExecution or an exception no handler names may follow
\* a command the host carried out.
DefiniteMeansNotApplied ==
    \A c \in Callers :
        call[c].outcome = "refused" => ~call[c].applied

\* Whoever is let through leaves the interval in force since the one before,
\* and nobody is let through while a rate limit's cooldown lasts, also when the
\* limit or the interval changed while others were waiting their turn.
SpacingKept ==
    [][\A c \in Callers :
          At(c, "send")' /\ ~At(c, "send")
              => throttle.since >= throttle.interval /\ throttle.penalty = 0]_vars

\* No request hangs: each one returns or raises, although all of them queue
\* for a lock one of them sleeps with.
RequestReturns ==
    \A c \in Callers : ~At(c, "idle") ~> At(c, "idle")

\* A host that stays up is used again, whatever failures, late answers and open
\* cycles came before: the circuit closes and stays closed, unless so many cycles
\* passed without a success that before_call's arithmetic has overflowed.
CircuitRecovers ==
    <>[](host = "up") => <>[](Open => Overflows)

\* http.py:58 "One success resets everything, so a broker that comes back is used
\* immediately": a host that stays up is used again, without exception.
RecoveredIsUsed ==
    <>[](host = "up") => <>[](~Open)

=============================================================================
