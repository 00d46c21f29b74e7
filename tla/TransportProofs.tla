-------------------------- MODULE TransportProofs --------------------------
(***************************************************************************)
(* Proofs about Transport, for any number of threads, attempts and open    *)
(* cycles, any threshold and any intervals and cooldowns.                  *)
(***************************************************************************)
EXTENDS Transport, FiniteSetTheorems, TLAPS

(* What is true of each thread inside request.                             *)

CallRec == [pc : Labels, kind : Kinds, attempt : 0 .. MaxAttempts - 1, sent : Nat,
            answer : {NULL, "ok", "malformed"}, applied : BOOLEAN,
            outcome : Outcomes \cup {NULL}]

\* What has still to leave the process.
Ahead == {"idle", "check", "wait", "sleep", "send"}

\* A write has not left before "send", and has left once after it; a read has
\* left once for every attempt before this one, and this one's after "send".
SentOnce(r) ==
    /\ r.kind = "write" => r.sent = IF r.pc \in Ahead THEN 0 ELSE 1
    /\ r.sent <= IF r.pc \in Ahead THEN r.attempt ELSE r.attempt + 1

\* Only a write is applied, and none that goes on to be refused.
Honest(r) ==
    /\ r.applied => r.kind = "write"
    /\ r.applied => r.pc \in {"idle", "credit", "count", "opening", "reopening"}
    /\ r.pc # "idle" => r.outcome = NULL
    /\ r.outcome = "refused" => ~r.applied

CallInv ==
    /\ call \in [Callers -> CallRec]
    /\ \A c \in Callers : SentOnce(call[c]) /\ Honest(call[c])

LEMMA FirstAttempt == MaxAttempts \in Nat /\ 0 \in 0 .. MaxAttempts - 1
  BY CountAssumption

\* It is enough to look at the record of the thread that moves.
LEMMA CallStep ==
    ASSUME CallInv, NEW c \in Callers, NEW r \in CallRec,
           SentOnce(r), Honest(r), call' = [call EXCEPT ![c] = r]
    PROVE  CallInv'
  BY DEF CallInv

\* A thread that only changes its label.
LEMMA GotoStep ==
    ASSUME CallInv, NEW c \in Callers, NEW label \in Labels,
           SentOnce([call[c] EXCEPT !.pc = label]),
           Honest([call[c] EXCEPT !.pc = label]), Goto(c, label)
    PROVE  CallInv'
  <1>1. call[c] \in CallRec
    BY DEF CallInv
  <1>2. [call[c] EXCEPT !.pc = label] \in CallRec
    BY <1>1 DEF CallRec
  <1>3. call' = [call EXCEPT ![c] = [call[c] EXCEPT !.pc = label]]
    BY DEF Goto
  <1> QED
    BY <1>2, <1>3, CallStep

\* A thread that returns, its command applied or not.
LEMMA ReturnStep ==
    ASSUME CallInv, NEW c \in Callers, NEW outcome \in Outcomes,
           NEW applied \in BOOLEAN, Return(c, outcome, applied),
           applied => IsWrite(c) /\ outcome # "refused"
    PROVE  CallInv'
  <1> DEFINE r == Idle(call[c].kind, outcome, applied)
  <1>1. call[c].kind \in Kinds
    BY DEF CallInv, CallRec
  <1>2. r \in CallRec
    BY <1>1, FirstAttempt DEF Idle, CallRec, Labels
  <1>3. SentOnce(r)
    BY DEF Idle, SentOnce, Ahead
  <1>4. Honest(r)
    <2>1. r.applied = applied /\ r.kind = call[c].kind /\ r.pc = "idle" /\ r.outcome = outcome
      BY DEF Idle
    <2> HIDE DEF r
    <2> QED
      BY <2>1 DEF Honest, IsWrite
  <1>5. call' = [call EXCEPT ![c] = r]
    BY DEF Return
  <1> HIDE DEF r
  <1> QED
    BY <1>2, <1>3, <1>4, <1>5, CallStep

\* What record_failure leads to: a return, or a read that tries again.
LEMMA FailureStep ==
    ASSUME CallInv, NEW c \in Callers,
           call[c].pc \in {"count", "opening", "reopening"},
           call' = [call EXCEPT ![c] = AfterFailure(c)]
    PROVE  CallInv'
  <1>1. call[c] \in CallRec /\ SentOnce(call[c]) /\ Honest(call[c])
    BY DEF CallInv
  <1>2. CASE Retryable(c) /\ call[c].attempt < MaxAttempts - 1
    <2> DEFINE r == [call[c] EXCEPT !.pc = "check", !.attempt = @ + 1, !.answer = NULL]
    <2>1. AfterFailure(c) = r
      BY <1>2 DEF AfterFailure
    <2>2. r \in CallRec
      <3>1. call[c].attempt + 1 \in 0 .. MaxAttempts - 1
        BY <1>1, <1>2, FirstAttempt DEF CallRec
      <3>2. call[c] \in CallRec /\ "check" \in Labels
        BY <1>1 DEF Labels
      <3> DEFINE n == call[c].attempt + 1
      <3> HIDE DEF n
      <3>3. [call[c] EXCEPT !.pc = "check", !.attempt = n, !.answer = NULL] \in CallRec
        BY <3>1, <3>2 DEF CallRec, n
      <3> QED
        BY <3>3 DEF n
    <2>3. call[c].kind # "write"
      BY <1>2 DEF Retryable, IsWrite
    <2>4. r.kind = call[c].kind /\ r.applied = call[c].applied
          /\ r.outcome = call[c].outcome /\ r.pc = "check"
      BY <1>1 DEF CallRec
    <2>5. SentOnce(r)
      <3>1. r.attempt = call[c].attempt + 1 /\ r.sent = call[c].sent
        BY <1>1 DEF CallRec
      <3>2. call[c].sent <= call[c].attempt + 1
        BY <1>1 DEF SentOnce, Ahead
      <3> HIDE DEF r
      <3> QED
        BY <2>3, <2>4, <3>1, <3>2 DEF SentOnce, Ahead
    <2> HIDE DEF r
    <2>6. Honest(r)
      BY <1>1, <2>3, <2>4 DEF Honest
    <2> QED
      BY <2>1, <2>2, <2>5, <2>6, CallStep
  <1>3. CASE ~(Retryable(c) /\ call[c].attempt < MaxAttempts - 1)
    <2> DEFINE o == IF IsWrite(c) THEN "ambiguous" ELSE "refused"
    <2>1. Return(c, o, call[c].applied)
      BY <1>3 DEF AfterFailure, Return
    <2>2. o \in Outcomes /\ call[c].applied \in BOOLEAN
      BY <1>1 DEF Outcomes, CallRec
    <2>3. call[c].applied => IsWrite(c) /\ o # "refused"
      BY <1>1 DEF Honest, IsWrite
    <2> HIDE DEF o
    <2> QED
      BY <2>1, <2>2, <2>3, ReturnStep
  <1> QED
    BY <1>2, <1>3

\* The host's answer is written into the record, the label moves past "flight".
LEMMA AnswerStep ==
    ASSUME CallInv, NEW c \in Callers, NEW label \in {"credit", "count", "penalise"},
           NEW answer \in {NULL, "ok", "malformed"}, NEW applied \in BOOLEAN,
           call[c].pc = "flight", applied => IsWrite(c) /\ label # "penalise",
           call' = [call EXCEPT ![c] =
                       [call[c] EXCEPT !.pc = label, !.answer = answer,
                                       !.applied = applied]]
    PROVE  CallInv'
  <1> DEFINE r == [call[c] EXCEPT !.pc = label, !.answer = answer, !.applied = applied]
  <1>1. call[c] \in CallRec /\ SentOnce(call[c]) /\ Honest(call[c])
    BY DEF CallInv
  <1>2. label \in Labels
    BY DEF Labels
  <1>3. r \in CallRec
    BY <1>1, <1>2 DEF CallRec
  <1>4. r.kind = call[c].kind /\ r.applied = applied /\ r.pc = label
        /\ r.outcome = call[c].outcome /\ r.sent = call[c].sent /\ r.attempt = call[c].attempt
    BY <1>1 DEF CallRec
  <1>5. call' = [call EXCEPT ![c] = r]
    OBVIOUS
  <1> HIDE DEF r
  <1>6. SentOnce(r)
    BY <1>1, <1>4 DEF SentOnce, Ahead
  <1>7. r.applied => r.pc \in {"idle", "credit", "count", "opening", "reopening"}
    BY <1>4
  <1>8. r.outcome = NULL
    BY <1>1, <1>4 DEF Honest
  <1>9. r.outcome # "refused"
    BY <1>8, CallerAssumption DEF Outcomes
  <1>10. Honest(r)
    BY <1>4, <1>7, <1>8, <1>9 DEF Honest, IsWrite
  <1> QED
    BY <1>3, <1>5, <1>6, <1>10, CallStep

\* What the host may have done: nothing for a read or after a 4xx.
LEMMA MayHaveAppliedFact ==
    ASSUME NEW kind \in Kinds, NEW answer \in Answers,
           NEW applied \in MayHaveApplied(kind, answer)
    PROVE  /\ applied \in BOOLEAN
           /\ applied => kind = "write"
           /\ applied => answer \notin {"auth", "limited", "rejected"}
  BY DEF MayHaveApplied, Kinds

LEMMA CallInvInit == Init => CallInv
  <1> SUFFICES ASSUME Init PROVE CallInv
    OBVIOUS
  <1> DEFINE r == Idle("read", NULL, FALSE)
  <1>1. r \in CallRec
    BY FirstAttempt DEF Idle, CallRec, Labels, Kinds
  <1>2. SentOnce(r) /\ Honest(r)
    BY DEF Idle, SentOnce, Ahead, Honest
  <1>3. call = [d \in Callers |-> r]
    BY DEF Init
  <1> HIDE DEF r
  <1> QED
    BY <1>1, <1>2, <1>3 DEF CallInv

\* Every step of every thread, of the clock and of the host keeps CallInv.
LEMMA CallInvStep == CallInv /\ [Next]_vars => CallInv'
  <1> SUFFICES ASSUME CallInv, [Next]_vars PROVE CallInv'
    OBVIOUS
  <1>0. ASSUME UNCHANGED call PROVE CallInv'
    BY <1>0 DEF CallInv
  <1>1. CASE UNCHANGED vars
    BY <1>0, <1>1 DEF vars
  <1>2. CASE Tick
    BY <1>0, <1>2 DEF Tick
  <1>3. CASE HostMoves
    BY <1>0, <1>3 DEF HostMoves
  <1>4. ASSUME NEW c \in Callers, LockStep(c) \/ FreeStep(c) PROVE CallInv'
    <2>0. /\ call[c] \in CallRec /\ SentOnce(call[c]) /\ Honest(call[c])
          /\ call[c].kind \in Kinds /\ call[c].applied \in BOOLEAN
      BY DEF CallInv, CallRec
    <2>1. ASSUME NEW label \in {"wait", "send", "sleep"},
                 call[c].pc \in {"check", "wait", "sleep"}, Goto(c, label)
          PROVE  CallInv'
      <3> DEFINE r == [call[c] EXCEPT !.pc = label]
      <3>1. label \in Labels
        BY DEF Labels
      <3>2. r.kind = call[c].kind /\ r.applied = call[c].applied /\ r.pc = label
            /\ r.outcome = call[c].outcome /\ r.sent = call[c].sent /\ r.attempt = call[c].attempt
        BY <2>0 DEF CallRec
      <3> HIDE DEF r
      <3>3. SentOnce(r)
        BY <2>0, <2>1, <3>2 DEF SentOnce, Ahead
      <3>4. ~call[c].applied /\ call[c].outcome = NULL
        BY <2>0, <2>1 DEF Honest
      <3>5. NULL # "refused"
        BY CallerAssumption DEF Outcomes
      <3>6. Honest(r)
        BY <3>2, <3>4, <3>5 DEF Honest
      <3> QED
        BY <2>1, <3>1, <3>3, <3>6, GotoStep DEF r
    <2>2. CASE ThrottleWait(c)
      BY <2>1, <2>2 DEF ThrottleWait, At
    <2>3. CASE Credit(c)
      <3>1. CASE call[c].answer = "ok"
        <4>1. Return(c, "ok", call[c].applied) /\ "ok" \in Outcomes
          BY <2>3, <3>1 DEF Credit, Outcomes
        <4>2. call[c].applied => IsWrite(c) /\ "ok" # "refused"
          BY <2>0 DEF Honest, IsWrite
        <4> QED
          BY <2>0, <4>1, <4>2, ReturnStep
      <3>2. CASE call[c].answer # "ok"
        <4> DEFINE r == [call[c] EXCEPT !.pc = "count"]
        <4>1. Goto(c, "count") /\ "count" \in Labels /\ call[c].pc = "credit"
          BY <2>3, <3>2 DEF Credit, Labels, At
        <4>2. r.kind = call[c].kind /\ r.applied = call[c].applied /\ r.pc = "count"
              /\ r.outcome = call[c].outcome /\ r.sent = call[c].sent /\ r.attempt = call[c].attempt
          BY <2>0 DEF CallRec
        <4> HIDE DEF r
        <4>3. SentOnce(r)
          BY <2>0, <4>1, <4>2 DEF SentOnce, Ahead
        <4>4. Honest(r)
          BY <2>0, <4>1, <4>2 DEF Honest
        <4> QED
          BY <4>1, <4>3, <4>4, GotoStep DEF r
      <3> QED
        BY <3>1, <3>2
    <2>4. CASE Penalise(c)
      <3>1. Return(c, "refused", call[c].applied) /\ "refused" \in Outcomes
            /\ call[c].pc = "penalise"
        BY <2>4 DEF Penalise, Outcomes, At
      <3>2. ~call[c].applied
        BY <2>0, <3>1 DEF Honest
      <3> QED
        BY <2>0, <3>1, <3>2, ReturnStep
    <2>5. CASE Begin(c)
      <3>1. PICK kind \in Kinds :
                call' = [call EXCEPT ![c] = [Idle(kind, NULL, FALSE) EXCEPT !.pc = "check"]]
        BY <2>5 DEF Begin, Kinds
      <3> DEFINE r == [Idle(kind, NULL, FALSE) EXCEPT !.pc = "check"]
      <3>2. r \in CallRec
        BY FirstAttempt DEF Idle, CallRec, Labels
      <3>3. SentOnce(r)
        BY DEF Idle, SentOnce, Ahead
      <3>4. Honest(r)
        BY DEF Idle, Honest
      <3> HIDE DEF r
      <3> QED
        BY <3>1, <3>2, <3>3, <3>4, CallStep DEF r
    <2>6. CASE BeforeCall(c)
      BY <2>1, <2>6 DEF BeforeCall, At
    <2>7. CASE Shed(c)
      <3> DEFINE o == IF Overflows THEN "escaped" ELSE "refused"
      <3>1. Return(c, o, call[c].applied) /\ o \in Outcomes /\ call[c].pc = "check"
        BY <2>7 DEF Shed, Outcomes, At
      <3> HIDE DEF o
      <3>2. ~call[c].applied
        BY <2>0, <3>1 DEF Honest
      <3> QED
        BY <2>0, <3>1, <3>2, ReturnStep
    <2>8. CASE Wake(c)
      BY <2>1, <2>8 DEF Wake, At
    <2>9. CASE Send(c)
      <3> DEFINE r == [call[c] EXCEPT !.pc = "flight", !.sent = @ + 1]
      <3>1. call' = [call EXCEPT ![c] = r] /\ call[c].pc = "send"
        BY <2>9 DEF Send, At
      <3>2. r.kind = call[c].kind /\ r.applied = call[c].applied /\ r.pc = "flight"
            /\ r.outcome = call[c].outcome /\ r.sent = call[c].sent + 1
            /\ r.attempt = call[c].attempt
        BY <2>0 DEF CallRec
      <3>3. r \in CallRec
        <4> DEFINE n == call[c].sent + 1
        <4>1. n \in Nat /\ "flight" \in Labels
          BY <2>0 DEF CallRec, Labels
        <4> HIDE DEF n
        <4>2. [call[c] EXCEPT !.pc = "flight", !.sent = n] \in CallRec
          BY <2>0, <4>1 DEF CallRec
        <4> QED
          BY <4>2 DEF n
      <3> HIDE DEF r
      <3>4. SentOnce(r)
        <4>1. call[c].sent \in Nat /\ call[c].attempt \in Nat
          BY <2>0, FirstAttempt DEF CallRec
        <4>2. call[c].sent <= call[c].attempt
              /\ (call[c].kind = "write" => call[c].sent = 0)
          BY <2>0, <3>1 DEF SentOnce, Ahead
        <4> QED
          BY <3>2, <4>1, <4>2 DEF SentOnce, Ahead
      <3>5. ~call[c].applied /\ call[c].outcome = NULL
        BY <2>0, <3>1 DEF Honest
      <3>6. NULL # "refused"
        BY CallerAssumption DEF Outcomes
      <3>7. Honest(r)
        BY <3>2, <3>5, <3>6 DEF Honest
      <3> QED
        BY <3>1, <3>3, <3>4, <3>7, CallStep
    <2>10. CASE ReplyBody(c)
      <3>1. PICK answer \in {"ok", "malformed"} :
              \E applied \in MayHaveApplied(call[c].kind, answer) :
                call' = [call EXCEPT ![c].pc = "credit", ![c].answer = answer,
                                     ![c].applied = applied]
        BY <2>10 DEF ReplyBody
      <3>2. PICK applied \in MayHaveApplied(call[c].kind, answer) :
              call' = [call EXCEPT ![c].pc = "credit", ![c].answer = answer,
                                   ![c].applied = applied]
        BY <3>1
      <3>3. applied \in BOOLEAN /\ (applied => IsWrite(c))
        BY <2>0, MayHaveAppliedFact DEF Answers, IsWrite
      <3>4. call[c].pc = "flight"
        BY <2>10 DEF ReplyBody, At
      <3>5. call' = [call EXCEPT ![c] = [call[c] EXCEPT !.pc = "credit",
                                     !.answer = answer, !.applied = applied]]
        BY <3>2
      <3> QED
        BY <3>3, <3>4, <3>5, AnswerStep
    <2>11. CASE ReplyRefused(c)
      <3>1. PICK answer \in {"auth", "rejected"} :
              \E applied \in MayHaveApplied(call[c].kind, answer) :
                Return(c, "refused", applied)
        BY <2>11 DEF ReplyRefused
      <3>2. PICK applied \in MayHaveApplied(call[c].kind, answer) :
                Return(c, "refused", applied)
        BY <3>1
      <3>3. applied \in BOOLEAN /\ ~applied
        BY <2>0, MayHaveAppliedFact DEF Answers
      <3>4. "refused" \in Outcomes
        BY DEF Outcomes
      <3> QED
        BY <3>2, <3>3, <3>4, ReturnStep
    <2>12. CASE ReplyLimited(c)
      <3>1. PICK applied \in MayHaveApplied(call[c].kind, "limited") :
              call' = [call EXCEPT ![c].pc = "penalise", ![c].applied = applied]
        BY <2>12 DEF ReplyLimited
      <3>2. applied \in BOOLEAN /\ ~applied
        BY <2>0, MayHaveAppliedFact DEF Answers
      <3>3. call[c].pc = "flight" /\ call[c].answer \in {NULL, "ok", "malformed"}
        BY <2>0, <2>12 DEF ReplyLimited, At, CallRec
      <3>4. call' = [call EXCEPT ![c] = [call[c] EXCEPT !.pc = "penalise",
                              !.answer = call[c].answer, !.applied = applied]]
        BY <2>0, <3>1 DEF CallRec
      <3> QED
        BY <3>2, <3>3, <3>4, AnswerStep
    <2>13. CASE ReplyServerError(c)
      <3>1. PICK applied \in MayHaveApplied(call[c].kind, "server") :
              IF IsWrite(c) THEN Return(c, "ambiguous", applied)
              ELSE call' = [call EXCEPT ![c].pc = "count", ![c].applied = applied]
        BY <2>13 DEF ReplyServerError
      <3>2. applied \in BOOLEAN /\ (applied => IsWrite(c))
        BY <2>0, MayHaveAppliedFact DEF Answers, IsWrite
      <3>3. call[c].pc = "flight" /\ call[c].answer \in {NULL, "ok", "malformed"}
        BY <2>0, <2>13 DEF ReplyServerError, At, CallRec
      <3>4. CASE IsWrite(c)
        <4>1. "ambiguous" \in Outcomes
          BY DEF Outcomes
        <4> QED
          BY <3>1, <3>2, <3>4, <4>1, ReturnStep
      <3>5. CASE ~IsWrite(c)
        <4>1. call' = [call EXCEPT ![c].pc = "count", ![c].applied = applied]
          BY <3>1, <3>5
        <4>2. call' = [call EXCEPT ![c] = [call[c] EXCEPT !.pc = "count",
                              !.answer = call[c].answer, !.applied = applied]]
          BY <2>0, <4>1 DEF CallRec
        <4> QED
          BY <3>2, <3>3, <4>2, AnswerStep
      <3> QED
        BY <3>4, <3>5
    <2>14. CASE ReplyLost(c)
      <3>1. PICK applied \in MayHaveApplied(call[c].kind, "lost") :
              call' = [call EXCEPT ![c].pc = "count", ![c].applied = applied]
        BY <2>14 DEF ReplyLost
      <3>2. applied \in BOOLEAN /\ (applied => IsWrite(c))
        BY <2>0, MayHaveAppliedFact DEF Answers, IsWrite
      <3>3. call[c].pc = "flight" /\ call[c].answer \in {NULL, "ok", "malformed"}
        BY <2>0, <2>14 DEF ReplyLost, At, CallRec
      <3>4. call' = [call EXCEPT ![c] = [call[c] EXCEPT !.pc = "count",
                              !.answer = call[c].answer, !.applied = applied]]
        BY <2>0, <3>1 DEF CallRec
      <3> QED
        BY <3>2, <3>3, <3>4, AnswerStep
    <2>15. CASE ReplyBroken(c)
      <3>1. PICK applied \in MayHaveApplied(call[c].kind, "broken") :
                Return(c, "escaped", applied)
        BY <2>15 DEF ReplyBroken
      <3>2. applied \in BOOLEAN /\ (applied => IsWrite(c))
        BY <2>0, MayHaveAppliedFact DEF Answers, IsWrite
      <3>3. "escaped" \in Outcomes
        BY DEF Outcomes
      <3> QED
        BY <3>1, <3>2, <3>3, ReturnStep
    <2>16. CASE RecordFailure(c)
      <3>1. call[c].pc = "count"
        BY <2>16 DEF RecordFailure, At
      <3>2. CASE circuit.failures + 1 < FailureThreshold
        BY <2>16, <3>1, <3>2, FailureStep DEF RecordFailure
      <3>3. CASE ~(circuit.failures + 1 < FailureThreshold)
        <4>1. PICK label \in {"opening", "reopening"} : Goto(c, label)
          BY <2>16, <3>3 DEF RecordFailure
        <4> DEFINE r == [call[c] EXCEPT !.pc = label]
        <4>2. label \in Labels
          BY DEF Labels
        <4>3. r.kind = call[c].kind /\ r.applied = call[c].applied /\ r.pc = label
              /\ r.outcome = call[c].outcome /\ r.sent = call[c].sent /\ r.attempt = call[c].attempt
          BY <2>0 DEF CallRec
        <4> HIDE DEF r
        <4>4. SentOnce(r)
          BY <2>0, <3>1, <4>3 DEF SentOnce, Ahead
        <4>5. Honest(r)
          BY <2>0, <3>1, <4>3 DEF Honest
        <4> QED
          BY <4>1, <4>2, <4>4, <4>5, GotoStep DEF r
      <3> QED
        BY <3>2, <3>3
    <2>17. CASE SetOpened(c)
      BY <2>17, FailureStep DEF SetOpened, At
    <2> QED
      BY <1>4, <2>2, <2>3, <2>4, <2>5, <2>6, <2>7, <2>8, <2>9, <2>10, <2>11,
         <2>12, <2>13, <2>14, <2>15, <2>16, <2>17 DEF LockStep, FreeStep
  <1> QED
    BY <1>1, <1>2, <1>3, <1>4 DEF Next

\* For any number of threads and attempts, a write leaves the process once at
\* most: request never sends it again.
THEOREM WriteOnce == Spec => []WriteSentOnce
  <1>1. CallInv => WriteSentOnce
    BY DEF CallInv, CallRec, SentOnce, Ahead, WriteSentOnce, IsWrite
  <1> QED
    BY <1>1, CallInvInit, CallInvStep, PTL DEF Spec

\* For any number of threads, whoever is told that a command was refused can
\* rely on it: the host has not carried it out.
THEOREM RefusalIsDefinite == Spec => []DefiniteMeansNotApplied
  <1>1. CallInv => DefiniteMeansNotApplied
    BY DEF CallInv, Honest, DefiniteMeansNotApplied
  <1> QED
    BY <1>1, CallInvInit, CallInvStep, PTL DEF Spec

----------------------------------------------------------------------------
(* The throttle.                                                           *)

LEMMA MaxOfTwo ==
    ASSUME NEW a \in Nat, NEW b \in Nat
    PROVE  Max({a, b}) = IF a >= b THEN a ELSE b
  BY DEF Max

LEMMA MinOfTwo ==
    ASSUME NEW a \in Nat, NEW b \in Nat
    PROVE  Min({a, b}) = IF a <= b THEN a ELSE b
  BY DEF Min

ThrottleRec == [interval : MinInterval .. MaxInterval,
                successes : 0 .. RecoverySuccesses - 1,
                since : 0 .. MaxInterval, penalty : 0 .. MaxRetryAfter,
                holder : Callers \cup {NULL},
                sleep : 0 .. Max({MaxInterval, MaxRetryAfter})]

\* The longest sleep: an interval or a cooldown.
LEMMA LongestSleep ==
    LET longest == Max({MaxInterval, MaxRetryAfter})
    IN  longest \in Nat /\ longest >= MaxInterval /\ longest >= MaxRetryAfter
  BY TimeAssumption, MaxOfTwo

\* The sleeper holds the lock, and its sleep outlasts the interval and the
\* cooldown that were in force when it went to sleep.  They are still in force
\* when it wakes, because whoever changes them needs the lock.
ThrottleInv ==
    /\ throttle \in ThrottleRec
    /\ \A c \in Callers : At(c, "sleep") => throttle.holder = c
    /\ throttle.holder # NULL =>
           /\ throttle.since + throttle.sleep >= throttle.interval
           /\ throttle.sleep >= throttle.penalty

\* The delay covers the rest of the interval and of the cooldown.
LEMMA DelayFact ==
    ASSUME throttle \in ThrottleRec
    PROVE  /\ Delay \in 0 .. Max({MaxInterval, MaxRetryAfter})
           /\ throttle.since + Delay >= throttle.interval
           /\ Delay >= throttle.penalty
  <1> DEFINE rest == IF throttle.since < throttle.interval
                     THEN throttle.interval - throttle.since ELSE 0
  <1>1. /\ throttle.interval \in Nat /\ throttle.since \in Nat
        /\ throttle.penalty \in Nat /\ throttle.penalty <= MaxRetryAfter
        /\ throttle.interval <= MaxInterval
        /\ MaxInterval \in Nat /\ MaxRetryAfter \in Nat
    BY TimeAssumption DEF ThrottleRec
  <1>2. rest \in Nat /\ throttle.since + rest >= throttle.interval /\ rest <= MaxInterval
    BY <1>1
  <1>3. Delay = Max({rest, throttle.penalty})
    BY DEF Delay
  <1> HIDE DEF rest
  <1>4. Delay = IF rest >= throttle.penalty THEN rest ELSE throttle.penalty
    BY <1>1, <1>2, <1>3, MaxOfTwo
  <1> DEFINE longest == Max({MaxInterval, MaxRetryAfter})
  <1>5. longest \in Nat /\ longest >= MaxInterval /\ longest >= MaxRetryAfter
    BY LongestSleep
  <1> HIDE DEF longest
  <1>6. Delay \in 0 .. longest
    BY <1>1, <1>2, <1>4, <1>5
  <1> QED
    BY <1>1, <1>2, <1>4, <1>6 DEF longest

\* Widening and narrowing stay in the configured band.
LEMMA BandFact ==
    ASSUME NEW i \in MinInterval .. MaxInterval
    PROVE  Widen(i) \in MinInterval .. MaxInterval /\ Narrow(i) \in MinInterval .. MaxInterval
  <1>1. MinInterval \in Nat /\ MaxInterval \in Nat /\ RecoveryStep \in Nat /\ i \in Nat
        /\ MinInterval <= MaxInterval
    BY TimeAssumption
  <1>2. (8 * i + 4) \div 5 \in Nat /\ (8 * i + 4) \div 5 >= i
    BY <1>1
  <1>3. Widen(i) = IF MaxInterval <= (8 * i + 4) \div 5 THEN MaxInterval
                   ELSE (8 * i + 4) \div 5
    BY <1>1, <1>2, MinOfTwo DEF Widen
  <1>4. Widen(i) \in MinInterval .. MaxInterval
    BY <1>1, <1>2, <1>3
  <1>5. Narrow(i) \in MinInterval .. MaxInterval
    BY <1>1 DEF Narrow
  <1> QED
    BY <1>4, <1>5

LEMMA ThrottleInvInit == Init => ThrottleInv
  <1> SUFFICES ASSUME Init PROVE ThrottleInv
    OBVIOUS
  <1>1. PICK i \in MinInterval .. MaxInterval :
            throttle = [interval |-> i, successes |-> 0, since |-> MaxInterval,
                        penalty |-> 0, holder |-> NULL, sleep |-> 0]
    BY DEF Init
  <1>2. /\ MaxInterval \in 0 .. MaxInterval /\ 0 \in 0 .. MaxRetryAfter
        /\ 0 \in 0 .. RecoverySuccesses - 1
        /\ 0 \in 0 .. Max({MaxInterval, MaxRetryAfter})
    BY TimeAssumption, CountAssumption, LongestSleep
  <1>3. throttle \in ThrottleRec
    BY <1>1, <1>2 DEF ThrottleRec
  <1>4. \A c \in Callers : ~At(c, "sleep")
    BY DEF Init, Idle, At
  <1>5. throttle.holder = NULL
    BY <1>1
  <1> QED
    BY <1>3, <1>4, <1>5 DEF ThrottleInv

\* Nobody goes to sleep or is let through.
Quiet == \A c \in Callers : \A label \in {"sleep", "send"} : At(c, label)' => At(c, label)

\* Only wait lets a thread through or puts it to sleep.
LEMMA QuietStep ==
    ASSUME CallInv, NEW c \in Callers,
           FreeStep(c) \/ Credit(c) \/ Penalise(c), ~Wake(c)
    PROVE  Quiet
  <1>0. call \in [Callers -> CallRec] /\ call[c] \in CallRec
    BY DEF CallInv
  <1>1. ASSUME NEW r, call' = [call EXCEPT ![c] = r], r.pc \notin {"sleep", "send"}
        PROVE  Quiet
    BY <1>0, <1>1 DEF Quiet, At
  <1>2. ASSUME NEW label \in Labels \ {"sleep", "send"}, Goto(c, label) PROVE Quiet
    <2>1. call' = [call EXCEPT ![c] = [call[c] EXCEPT !.pc = label]]
      BY <1>2 DEF Goto
    <2>2. [call[c] EXCEPT !.pc = label].pc = label
      BY <1>0 DEF CallRec
    <2> QED
      BY <1>1, <2>1, <2>2
  <1>3. ASSUME NEW outcome, NEW applied, Return(c, outcome, applied) PROVE Quiet
    <2>1. Idle(call[c].kind, outcome, applied).pc = "idle"
      BY DEF Idle
    <2> QED
      BY <1>1, <1>3, <2>1 DEF Return
  <1>4. ASSUME call' = [call EXCEPT ![c] = AfterFailure(c)] PROVE Quiet
    <2>1. AfterFailure(c).pc \in {"check", "idle"}
      BY <1>0 DEF AfterFailure, Idle, CallRec
    <2> QED
      BY <1>1, <1>4, <2>1
  <1>5. ASSUME NEW label \in Labels \ {"sleep", "send"}, NEW applied,
               call' = [call EXCEPT ![c].pc = label, ![c].applied = applied]
        PROVE  Quiet
    <2> DEFINE r == [call[c] EXCEPT !.pc = label, !.applied = applied]
    <2>1. r.pc = label
      BY <1>0 DEF CallRec
    <2>2. call' = [call EXCEPT ![c] = r]
      BY <1>5
    <2> HIDE DEF r
    <2> QED
      BY <1>1, <2>1, <2>2
  <1> USE DEF Labels
  <1>6. CASE Credit(c)
    BY <1>2, <1>3, <1>6 DEF Credit
  <1>7. CASE Penalise(c)
    BY <1>3, <1>7 DEF Penalise
  <1>8. CASE Begin(c)
    <2>1. PICK kind :
              call' = [call EXCEPT ![c] = [Idle(kind, NULL, FALSE) EXCEPT !.pc = "check"]]
      BY <1>8 DEF Begin
    <2>2. [Idle(kind, NULL, FALSE) EXCEPT !.pc = "check"].pc = "check"
      BY DEF Idle
    <2> QED
      BY <1>1, <2>1, <2>2
  <1>9. CASE BeforeCall(c)
    BY <1>2, <1>9 DEF BeforeCall
  <1>10. CASE Shed(c)
    BY <1>3, <1>10 DEF Shed
  <1>11. CASE Send(c)
    <2> DEFINE r == [call[c] EXCEPT !.pc = "flight", !.sent = @ + 1]
    <2>1. call' = [call EXCEPT ![c] = r]
      BY <1>11 DEF Send
    <2>2. r.pc = "flight"
      BY <1>0 DEF CallRec
    <2> HIDE DEF r
    <2> QED
      BY <1>1, <2>1, <2>2
  <1>12. CASE ReplyBody(c)
    <2>1. PICK answer, applied :
              call' = [call EXCEPT ![c].pc = "credit", ![c].answer = answer,
                                   ![c].applied = applied]
      BY <1>12 DEF ReplyBody
    <2> DEFINE r == [call[c] EXCEPT !.pc = "credit", !.answer = answer, !.applied = applied]
    <2>2. call' = [call EXCEPT ![c] = r]
      BY <2>1
    <2>3. r.pc = "credit"
      BY <1>0 DEF CallRec
    <2> HIDE DEF r
    <2> QED
      BY <1>1, <2>2, <2>3
  <1>13. CASE ReplyRefused(c)
    BY <1>3, <1>13 DEF ReplyRefused
  <1>14. CASE ReplyLimited(c)
    BY <1>5, <1>14 DEF ReplyLimited
  <1>15. CASE ReplyServerError(c)
    BY <1>3, <1>5, <1>15 DEF ReplyServerError
  <1>16. CASE ReplyLost(c)
    BY <1>5, <1>16 DEF ReplyLost
  <1>17. CASE ReplyBroken(c)
    BY <1>3, <1>17 DEF ReplyBroken
  <1>18. CASE RecordFailure(c)
    BY <1>2, <1>4, <1>18 DEF RecordFailure
  <1>19. CASE SetOpened(c)
    BY <1>4, <1>19 DEF SetOpened
  <1> QED
    BY <1>6, <1>7, <1>8, <1>9, <1>10, <1>11, <1>12, <1>13, <1>14, <1>15, <1>16,
       <1>17, <1>18, <1>19 DEF FreeStep

\* Whoever goes to "send" does so after the interval and the cooldown.
Spaced ==
    \A c \in Callers :
        At(c, "send")' /\ ~At(c, "send")
            => throttle.since >= throttle.interval /\ throttle.penalty = 0

\* Every step keeps ThrottleInv and lets nobody through too early.
LEMMA ThrottleInvStep ==
    CallInv /\ ThrottleInv /\ [Next]_vars => ThrottleInv' /\ Spaced
  <1> SUFFICES ASSUME CallInv, ThrottleInv, [Next]_vars PROVE ThrottleInv' /\ Spaced
    OBVIOUS
  <1>0. /\ throttle \in ThrottleRec
        /\ throttle.interval \in MinInterval .. MaxInterval
        /\ throttle.interval \in Nat /\ throttle.since \in Nat
        /\ throttle.since \in 0 .. MaxInterval
        /\ throttle.penalty \in Nat /\ throttle.sleep \in Nat
        /\ throttle.penalty \in 0 .. MaxRetryAfter
        /\ throttle.sleep \in 0 .. Max({MaxInterval, MaxRetryAfter})
        /\ throttle.successes \in Nat
        /\ 0 \in 0 .. RecoverySuccesses - 1 /\ RecoverySuccesses \in Nat
        /\ MaxInterval \in Nat /\ MaxRetryAfter \in Nat
    <2>1. throttle \in ThrottleRec
      BY DEF ThrottleInv
    <2>2. /\ throttle.interval \in MinInterval .. MaxInterval
          /\ throttle.since \in 0 .. MaxInterval
          /\ throttle.penalty \in 0 .. MaxRetryAfter
          /\ throttle.sleep \in 0 .. Max({MaxInterval, MaxRetryAfter})
          /\ throttle.successes \in 0 .. RecoverySuccesses - 1
      BY <2>1 DEF ThrottleRec
    <2>3. throttle.sleep \in Nat
      BY <2>2, LongestSleep
    <2> QED
      BY <2>1, <2>2, <2>3, TimeAssumption, CountAssumption
  <1>1. Quiet => Spaced
    BY DEF Quiet, Spaced
  <1>2. ASSUME Quiet, UNCHANGED throttle PROVE ThrottleInv'
    <2>1. \A c \in Callers : At(c, "sleep")' => throttle'.holder = c
      BY <1>2 DEF Quiet, ThrottleInv
    <2> QED
      BY <1>2, <2>1 DEF ThrottleInv
  <1>3. ASSUME UNCHANGED call PROVE Quiet
    BY <1>3 DEF Quiet, At
  <1>4. CASE UNCHANGED vars
    BY <1>1, <1>2, <1>3, <1>4 DEF vars
  <1>5. CASE HostMoves
    BY <1>1, <1>2, <1>3, <1>5 DEF HostMoves
  <1>6. CASE Tick
    <2>1. Quiet
      BY <1>3, <1>6 DEF Tick
    <2> DEFINE s == Min({throttle.since + 1, MaxInterval})
               p == Max({throttle.penalty, 1}) - 1
               z == Max({throttle.sleep, 1}) - 1
    <2>2. s = IF throttle.since + 1 <= MaxInterval THEN throttle.since + 1 ELSE MaxInterval
      BY <1>0, MinOfTwo
    <2>3. /\ p = IF throttle.penalty = 0 THEN 0 ELSE throttle.penalty - 1
          /\ z = IF throttle.sleep = 0 THEN 0 ELSE throttle.sleep - 1
      BY <1>0, MaxOfTwo
    <2>4. throttle' = [throttle EXCEPT !.since = s, !.penalty = p, !.sleep = z]
      BY <1>6 DEF Tick
    <2> HIDE DEF s, p, z
    <2>5. /\ s \in 0 .. MaxInterval /\ p \in 0 .. MaxRetryAfter
          /\ z \in 0 .. Max({MaxInterval, MaxRetryAfter})
      BY <1>0, <2>2, <2>3, LongestSleep
    <2>6. throttle' \in ThrottleRec
      BY <1>0, <2>4, <2>5 DEF ThrottleRec
    <2>7. /\ throttle'.since = s /\ throttle'.penalty = p /\ throttle'.sleep = z
          /\ throttle'.holder = throttle.holder
          /\ throttle'.interval = throttle.interval
      BY <1>0, <2>4 DEF ThrottleRec
    <2>8. \A c \in Callers : At(c, "sleep")' => throttle'.holder = c
      BY <2>1, <2>7 DEF Quiet, ThrottleInv
    <2>9. throttle.holder # NULL => s + z >= throttle.interval /\ z >= p
      <3> SUFFICES ASSUME throttle.holder # NULL
                   PROVE  s + z >= throttle.interval /\ z >= p
        OBVIOUS
      <3>1. throttle.since + throttle.sleep >= throttle.interval
            /\ throttle.sleep >= throttle.penalty
        BY DEF ThrottleInv
      <3> QED
        BY <1>0, <2>2, <2>3, <3>1
    <2> QED
      BY <1>1, <2>1, <2>6, <2>7, <2>8, <2>9 DEF ThrottleInv
  <1>7. ASSUME NEW c \in Callers, LockStep(c) \/ FreeStep(c) PROVE ThrottleInv' /\ Spaced
    <2>0. call \in [Callers -> CallRec] /\ call[c] \in CallRec /\ NULL # c
      BY CallerAssumption DEF CallInv
    <2>1. ASSUME NEW label \in {"send", "sleep"}, Goto(c, label)
          PROVE  /\ call'[c].pc = label
                 /\ \A d \in Callers \ {c} : call'[d] = call[d]
      BY <2>0, <2>1 DEF Goto, CallRec
    <2>2. CASE ThrottleWait(c)
      <3>1. throttle.holder = NULL /\ \A d \in Callers : ~At(d, "sleep")
        BY <2>2, CallerAssumption DEF ThrottleWait, Unlocked, ThrottleInv
      <3>2. Delay \in 0 .. Max({MaxInterval, MaxRetryAfter}) /\ throttle.since + Delay >= throttle.interval
            /\ Delay >= throttle.penalty
        BY <1>0, DelayFact
      <3>3. CASE Delay = 0
        <4>1. throttle' = [throttle EXCEPT !.since = 0] /\ Goto(c, "send")
          BY <2>2, <3>3 DEF ThrottleWait
        <4>2. throttle.since >= throttle.interval /\ throttle.penalty = 0
          BY <1>0, <3>2, <3>3
        <4>3. 0 \in 0 .. MaxInterval
          BY <1>0
        <4>4. throttle' \in ThrottleRec /\ throttle'.holder = NULL
          BY <1>0, <3>1, <4>1, <4>3 DEF ThrottleRec
        <4>5. \A d \in Callers : ~At(d, "sleep")'
          BY <2>1, <3>1, <4>1 DEF At
        <4> QED
          BY <4>2, <4>4, <4>5 DEF ThrottleInv, Spaced
      <3>4. CASE Delay # 0
        <4>1. throttle' = [throttle EXCEPT !.holder = c, !.sleep = Delay] /\ Goto(c, "sleep")
          BY <2>2, <3>4 DEF ThrottleWait
        <4>2. throttle' \in ThrottleRec
          BY <1>0, <3>2, <4>1 DEF ThrottleRec
        <4>3. /\ throttle'.holder = c /\ throttle'.sleep = Delay
              /\ throttle'.since = throttle.since
              /\ throttle'.interval = throttle.interval
              /\ throttle'.penalty = throttle.penalty
          BY <1>0, <4>1 DEF ThrottleRec
        <4>4. \A d \in Callers : At(d, "sleep")' => d = c
          BY <2>1, <3>1, <4>1 DEF At
        <4>5. Spaced
          BY <2>1, <4>1 DEF Spaced, At
        <4> QED
          BY <3>2, <4>2, <4>3, <4>4, <4>5 DEF ThrottleInv
      <3> QED
        BY <3>3, <3>4
    <2>3. CASE Wake(c)
      <3>1. /\ throttle.holder = c /\ throttle.sleep = 0 /\ Goto(c, "send")
            /\ throttle' = [throttle EXCEPT !.holder = NULL, !.since = 0]
        BY <2>3 DEF Wake, ThrottleInv
      <3>2. throttle.since >= throttle.interval /\ throttle.penalty = 0
        BY <1>0, <2>0, <3>1 DEF ThrottleInv
      <3>3. 0 \in 0 .. MaxInterval
        BY <1>0
      <3>4. throttle' \in ThrottleRec /\ throttle'.holder = NULL
        BY <1>0, <3>1, <3>3 DEF ThrottleRec
      <3>5. \A d \in Callers : ~At(d, "sleep")'
        <4>1. \A d \in Callers \ {c} : ~At(d, "sleep")
          BY <3>1 DEF ThrottleInv
        <4> QED
          BY <2>1, <3>1, <4>1 DEF At
      <3> QED
        BY <3>2, <3>4, <3>5 DEF ThrottleInv, Spaced
    <2>4. ASSUME Quiet, Unlocked, throttle' \in ThrottleRec, throttle'.holder = NULL
          PROVE  ThrottleInv' /\ Spaced
      <3>1. \A d \in Callers : ~At(d, "sleep")
        BY <2>4, CallerAssumption DEF Unlocked, ThrottleInv
      <3>2. \A d \in Callers : ~At(d, "sleep")'
        BY <2>4, <3>1 DEF Quiet
      <3> QED
        BY <1>1, <2>4, <3>2 DEF ThrottleInv
    <2>5. CASE Credit(c)
      <3>1. Quiet
        <4>1. ~Wake(c)
          BY <2>5 DEF Credit, Wake, At
        <4> QED
          BY <2>5, <4>1, QuietStep
      <3>2. Unlocked /\ ThrottleSuccess
        BY <2>5 DEF Credit
      <3> DEFINE n == throttle.successes + 1
                 i == Narrow(throttle.interval)
      <3>3. i \in MinInterval .. MaxInterval
        BY <1>0, BandFact
      <3>4. n \in Nat
        BY <1>0
      <3>5. \/ throttle' = throttle
            \/ n < RecoverySuccesses /\ throttle' = [throttle EXCEPT !.successes = n]
            \/ throttle' = [throttle EXCEPT !.successes = 0, !.interval = i]
        BY <3>2 DEF ThrottleSuccess
      <3> HIDE DEF n, i
      <3>6. throttle' \in ThrottleRec /\ throttle'.holder = NULL
        <4>0. throttle.holder = NULL
          BY <3>2 DEF Unlocked
        <4>1. CASE throttle' = throttle
          BY <1>0, <4>0, <4>1
        <4>2. CASE n < RecoverySuccesses /\ throttle' = [throttle EXCEPT !.successes = n]
          <5>1. n \in 0 .. RecoverySuccesses - 1
            BY <1>0, <3>4, <4>2
          <5> QED
            BY <1>0, <4>0, <4>2, <5>1 DEF ThrottleRec
        <4>3. CASE throttle' = [throttle EXCEPT !.successes = 0, !.interval = i]
          BY <1>0, <3>3, <4>0, <4>3 DEF ThrottleRec
        <4> QED
          BY <3>5, <4>1, <4>2, <4>3
      <3> QED
        BY <2>4, <3>1, <3>2, <3>6
    <2>6. CASE Penalise(c)
      <3>1. Quiet
        <4>1. ~Wake(c)
          BY <2>6 DEF Penalise, Wake, At
        <4> QED
          BY <2>6, <4>1, QuietStep
      <3>2. PICK cooldown \in MinCooldown .. MaxRetryAfter :
                throttle' = [throttle EXCEPT
                                 !.penalty = Max({throttle.penalty, cooldown}),
                                 !.interval = Widen(throttle.interval),
                                 !.successes = 0]
        BY <2>6 DEF Penalise
      <3> DEFINE p == Max({throttle.penalty, cooldown})
                 i == Widen(throttle.interval)
      <3>3. cooldown \in Nat /\ cooldown <= MaxRetryAfter
        BY TimeAssumption
      <3>4. p \in 0 .. MaxRetryAfter
        BY <1>0, <3>3, MaxOfTwo
      <3>5. i \in MinInterval .. MaxInterval
        BY <1>0, BandFact
      <3>6. throttle' = [throttle EXCEPT !.penalty = p, !.interval = i, !.successes = 0]
        BY <3>2
      <3> HIDE DEF p, i
      <3>7. Unlocked
        BY <2>6 DEF Penalise
      <3>8. throttle' \in ThrottleRec /\ throttle'.holder = NULL
        BY <1>0, <3>4, <3>5, <3>6, <3>7 DEF ThrottleRec, Unlocked
      <3> QED
        BY <2>4, <3>1, <3>7, <3>8
    <2>7. CASE FreeStep(c) /\ ~Wake(c)
      <3>1. Quiet
        BY <2>7, QuietStep
      <3>2. UNCHANGED throttle
        BY <2>7 DEF FreeStep, Begin, BeforeCall, Shed, Send, ReplyBody, ReplyRefused,
           ReplyLimited, ReplyServerError, ReplyLost, ReplyBroken, RecordFailure, SetOpened
      <3> QED
        BY <1>1, <1>2, <3>1, <3>2
    <2> QED
      BY <1>7, <2>2, <2>3, <2>5, <2>6, <2>7 DEF LockStep
  <1> QED
    BY <1>4, <1>5, <1>6, <1>7 DEF Next

\* For any number of threads and any intervals and cooldowns: requests are let
\* through no closer together than the interval in force, and none during a
\* cooldown, however long others sleep with the lock.
THEOREM Spacing == Spec => SpacingKept
  <1>1. CallInv /\ ThrottleInv /\ [Next]_vars => CallInv' /\ ThrottleInv'
    BY CallInvStep, ThrottleInvStep
  <1>2. CallInv /\ ThrottleInv /\ [Next]_vars => [Spaced]_vars
    BY ThrottleInvStep
  <1>3. Init => CallInv /\ ThrottleInv
    BY CallInvInit, ThrottleInvInit
  <1>4. Spec => [][Spaced]_vars
    BY <1>1, <1>2, <1>3, PTL DEF Spec
  <1> QED
    BY <1>4 DEF SpacingKept, Spaced

----------------------------------------------------------------------------
(* The circuit breaker.                                                    *)

Reopening == {c \in Callers : At(c, "reopening")}

\* The threads between the two halves of record_failure, one over the
\* threshold each: a thread that finishes takes the excess back with it.
CircuitInv ==
    /\ circuit \in [failures : Nat, opens : 0 .. MaxOpens, age : 0 .. MaxResetTicks]
    /\ circuit.failures <= FailureThreshold + Cardinality(Reopening)

\* The thread that moves is all that can change the set of those reopening.
LEMMA ReopeningStep ==
    ASSUME CallInv, NEW c \in Callers, NEW r \in CallRec,
           call' = [call EXCEPT ![c] = r]
    PROVE  /\ r.pc = "reopening" => Reopening' = Reopening \cup {c}
           /\ r.pc # "reopening" => Reopening' = Reopening \ {c}
  BY DEF CallInv, Reopening, At

LEMMA ThreadCount ==
    ASSUME NEW R \in SUBSET Callers
    PROVE  /\ IsFiniteSet(R) /\ Cardinality(R) \in Nat
           /\ Cardinality(Callers) \in Nat /\ Cardinality(R) <= Cardinality(Callers)
  <1>1. IsFiniteSet(Callers)
    BY CallerAssumption
  <1>2. IsFiniteSet(R) /\ Cardinality(R) <= Cardinality(Callers)
    BY <1>1, FS_Subset
  <1> QED
    BY <1>1, <1>2, FS_CardinalityType

\* The counter stays, or starts again, and nobody finishes reopening.
LEMMA CircuitStill ==
    ASSUME CircuitInv, Reopening \subseteq Reopening',
           UNCHANGED circuit \/ RecordSuccess
    PROVE  CircuitInv'
  <1>1. /\ Reopening \in SUBSET Callers /\ Reopening' \in SUBSET Callers
        /\ FailureThreshold \in Nat /\ MaxOpens \in Nat
    BY CountAssumption DEF Reopening
  <1>2. Cardinality(Reopening) \in Nat /\ Cardinality(Reopening') \in Nat
        /\ Cardinality(Reopening) <= Cardinality(Reopening')
    BY <1>1, ThreadCount, FS_Subset
  <1>3. CASE UNCHANGED circuit
    BY <1>1, <1>2, <1>3 DEF CircuitInv
  <1>4. CASE RecordSuccess
    <2>1. circuit' = [circuit EXCEPT !.failures = 0, !.opens = 0] /\ 0 \in 0 .. MaxOpens
      BY <1>1, <1>4 DEF RecordSuccess
    <2>2. circuit' \in [failures : Nat, opens : 0 .. MaxOpens, age : 0 .. MaxResetTicks]
          /\ circuit'.failures = 0
      BY <2>1 DEF CircuitInv
    <2> QED
      BY <1>1, <1>2, <2>2 DEF CircuitInv
  <1> QED
    BY <1>3, <1>4

LEMMA CircuitInvInit == Init => CircuitInv
  <1> SUFFICES ASSUME Init PROVE CircuitInv
    OBVIOUS
  <1>1. /\ Reopening \in SUBSET Callers /\ FailureThreshold \in Nat
        /\ 0 \in 0 .. MaxOpens /\ MaxResetTicks \in 0 .. MaxResetTicks
    BY CountAssumption, TimeAssumption DEF Reopening
  <1>2. Cardinality(Reopening) \in Nat
    BY <1>1, ThreadCount
  <1>3. circuit = [failures |-> 0, opens |-> 0, age |-> MaxResetTicks]
    BY DEF Init
  <1> QED
    BY <1>1, <1>2, <1>3 DEF CircuitInv

\* Every step keeps CircuitInv.
LEMMA CircuitInvStep == CallInv /\ CircuitInv /\ [Next]_vars => CircuitInv'
  <1> SUFFICES ASSUME CallInv, CircuitInv, [Next]_vars PROVE CircuitInv'
    OBVIOUS
  <1>0. /\ circuit \in [failures : Nat, opens : 0 .. MaxOpens, age : 0 .. MaxResetTicks]
        /\ circuit.failures \in Nat /\ circuit.opens \in 0 .. MaxOpens
        /\ circuit.age \in 0 .. MaxResetTicks
        /\ FailureThreshold \in Nat \ {0} /\ MaxOpens \in Nat \ {0} /\ MaxResetTicks \in Nat
        /\ Reopening \in SUBSET Callers /\ Reopening' \in SUBSET Callers
        /\ Cardinality(Reopening) \in Nat /\ Cardinality(Reopening') \in Nat
        /\ IsFiniteSet(Reopening)
        /\ circuit.failures <= FailureThreshold + Cardinality(Reopening)
    <2>1. Reopening \in SUBSET Callers /\ Reopening' \in SUBSET Callers
      BY DEF Reopening
    <2>2. /\ circuit \in [failures : Nat, opens : 0 .. MaxOpens, age : 0 .. MaxResetTicks]
          /\ circuit.failures <= FailureThreshold + Cardinality(Reopening)
      BY DEF CircuitInv
    <2>3. /\ IsFiniteSet(Reopening) /\ Cardinality(Reopening) \in Nat
          /\ Cardinality(Reopening') \in Nat
      BY <2>1, ThreadCount
    <2> QED
      BY <2>1, <2>2, <2>3, CountAssumption, TimeAssumption
  <1>1. ASSUME UNCHANGED call PROVE Reopening' = Reopening
    BY <1>1 DEF Reopening, At
  <1>2. CASE UNCHANGED vars
    BY <1>1, <1>2, CircuitStill DEF vars
  <1>3. CASE HostMoves
    BY <1>1, <1>3, CircuitStill DEF HostMoves
  <1>4. CASE Tick
    <2> DEFINE a == Min({circuit.age + 1, MaxResetTicks})
    <2>1. circuit' = [circuit EXCEPT !.age = a] /\ Reopening' = Reopening
      BY <1>1, <1>4 DEF Tick
    <2>2. a \in 0 .. MaxResetTicks
      BY <1>0, MinOfTwo
    <2> HIDE DEF a
    <2>3. circuit' \in [failures : Nat, opens : 0 .. MaxOpens, age : 0 .. MaxResetTicks]
          /\ circuit'.failures = circuit.failures
      BY <1>0, <2>1, <2>2
    <2> QED
      BY <1>0, <2>1, <2>3 DEF CircuitInv
  <1>5. ASSUME NEW c \in Callers, LockStep(c) \/ FreeStep(c) PROVE CircuitInv'
    <2>0. call \in [Callers -> CallRec] /\ call[c] \in CallRec
      BY DEF CallInv
    <2>1. ASSUME NEW r, call' = [call EXCEPT ![c] = r], call[c].pc # "reopening"
          PROVE  Reopening \subseteq Reopening'
      BY <2>0, <2>1 DEF Reopening, At
    <2>2. CASE RecordFailure(c)
      <3> DEFINE n == circuit.failures + 1
      <3>1. circuit' = [circuit EXCEPT !.failures = n] /\ n \in Nat
            /\ call[c].pc = "count"
        BY <1>0, <2>2 DEF RecordFailure, At
      <3>2. circuit' \in [failures : Nat, opens : 0 .. MaxOpens, age : 0 .. MaxResetTicks]
            /\ circuit'.failures = n
        <4> HIDE DEF n
        <4> QED
          BY <1>0, <3>1
      <3>3. CASE n <= FailureThreshold
        BY <1>0, <3>2, <3>3 DEF CircuitInv
      <3>4. CASE ~(n <= FailureThreshold)
        <4>1. Goto(c, "reopening")
          BY <1>0, <2>2, <3>4 DEF RecordFailure
        <4> DEFINE r == [call[c] EXCEPT !.pc = "reopening"]
        <4>2. call' = [call EXCEPT ![c] = r] /\ "reopening" \in Labels
          BY <4>1 DEF Goto, Labels
        <4>3. r \in CallRec /\ r.pc = "reopening"
          BY <2>0, <4>2 DEF CallRec
        <4> HIDE DEF r
        <4>4. Reopening' = Reopening \cup {c} /\ c \notin Reopening
          BY <3>1, <4>2, <4>3, ReopeningStep DEF Reopening, At
        <4>5. Cardinality(Reopening') = Cardinality(Reopening) + 1
          BY <1>0, <4>4, FS_AddElement
        <4> QED
          BY <1>0, <3>2, <4>5 DEF CircuitInv
      <3> QED
        BY <3>3, <3>4
    <2>3. CASE SetOpened(c)
      <3> DEFINE o == Min({circuit.opens + 1, MaxOpens})
                 f == IF At(c, "reopening") THEN FailureThreshold ELSE circuit.failures
      <3>1. /\ circuit' = [failures |-> f, opens |-> o, age |-> 0]
            /\ call' = [call EXCEPT ![c] = AfterFailure(c)]
        BY <2>3 DEF SetOpened
      <3>2. o \in 0 .. MaxOpens /\ f \in Nat
        BY <1>0, MinOfTwo
      <3>3. circuit' \in [failures : Nat, opens : 0 .. MaxOpens, age : 0 .. MaxResetTicks]
            /\ circuit'.failures = f
        <4> HIDE DEF o, f
        <4> QED
          BY <1>0, <3>1, <3>2
      <3>4. CASE At(c, "reopening")
        BY <1>0, <3>3, <3>4 DEF CircuitInv
      <3>5. CASE ~At(c, "reopening")
        <4>1. Reopening \subseteq Reopening'
          BY <2>1, <3>1, <3>5 DEF At
        <4>2. Cardinality(Reopening) <= Cardinality(Reopening')
          BY <1>0, <4>1, ThreadCount, FS_Subset
        <4> QED
          BY <1>0, <3>3, <3>5, <4>2 DEF CircuitInv
      <3> QED
        BY <3>4, <3>5
    <2>4. CASE ~RecordFailure(c) /\ ~SetOpened(c)
      <3>1. UNCHANGED circuit \/ RecordSuccess
        BY <1>5, <2>4 DEF LockStep, FreeStep, ThrottleWait, Credit, Penalise, Begin, BeforeCall,
           Shed, Wake, Send, ReplyBody, ReplyRefused, ReplyLimited, ReplyServerError,
           ReplyLost, ReplyBroken
      <3>2. call[c].pc # "reopening"
        BY <1>5, <2>4 DEF LockStep, FreeStep, ThrottleWait, Credit, Penalise, Begin, BeforeCall,
           Shed, Wake, Send, ReplyBody, ReplyRefused, ReplyLimited, ReplyServerError,
           ReplyLost, ReplyBroken, At
      <3>3. \E r : call' = [call EXCEPT ![c] = r]
        BY <1>5, <2>4 DEF LockStep, FreeStep, ThrottleWait, Credit, Penalise, Begin, BeforeCall,
           Shed, Wake, Send, ReplyBody, ReplyRefused, ReplyLimited, ReplyServerError,
           ReplyLost, ReplyBroken, Goto, Return
      <3> QED
        BY <2>1, <3>1, <3>2, <3>3, CircuitStill
    <2> QED
      BY <2>2, <2>3, <2>4
  <1> QED
    BY <1>2, <1>3, <1>4, <1>5 DEF Next

\* For any number of threads, any threshold and any number of attempts, the
\* fields of the transport stay in their ranges: the failures counted are over
\* the threshold by no more than the threads that count one at the same time,
\* and a request is sent no more often than it has attempts.
THEOREM TransportTypes == Spec => []TypeOK
  <1> DEFINE Inv == CallInv /\ ThrottleInv /\ CircuitInv /\ host \in {"up", "down"}
  <1>1. Init => Inv
    BY CallInvInit, ThrottleInvInit, CircuitInvInit DEF Init
  <1>2. Inv /\ [Next]_vars => Inv'
    <2>1. host \in {"up", "down"} /\ [Next]_vars => host' \in {"up", "down"}
      BY DEF Next, vars, LockStep, FreeStep, ThrottleWait, Credit, Penalise, Begin, BeforeCall,
         Shed, Wake, Send, ReplyBody, ReplyRefused, ReplyLimited, ReplyServerError,
         ReplyLost, ReplyBroken, RecordFailure, SetOpened, Tick, HostMoves
    <2> QED
      BY <2>1, CallInvStep, ThrottleInvStep, CircuitInvStep
  <1>3. Inv => TypeOK
    <2> SUFFICES ASSUME Inv PROVE TypeOK
      OBVIOUS
    <2>1. circuit \in [failures : 0 .. FailureThreshold + Cardinality(Callers),
                       opens : 0 .. MaxOpens, age : 0 .. MaxResetTicks]
      <3>1. Reopening \in SUBSET Callers
        BY DEF Reopening
      <3>2. /\ Cardinality(Reopening) \in Nat /\ Cardinality(Callers) \in Nat
            /\ Cardinality(Reopening) <= Cardinality(Callers)
        BY <3>1, ThreadCount
      <3>3. circuit.failures \in 0 .. FailureThreshold + Cardinality(Callers)
        BY <3>2, CountAssumption DEF CircuitInv
      <3> QED
        BY <3>3 DEF CircuitInv
    <2>2. call \in [Callers -> [pc : Labels, kind : Kinds, attempt : 0 .. MaxAttempts - 1,
                                sent : 0 .. MaxAttempts,
                                answer : {NULL, "ok", "malformed"}, applied : BOOLEAN,
                                outcome : Outcomes \cup {NULL}]]
      <3>1. \A c \in Callers : call[c].sent \in 0 .. MaxAttempts
        <4> TAKE c \in Callers
        <4>1. call[c].sent \in Nat /\ call[c].attempt \in 0 .. MaxAttempts - 1
          BY DEF CallInv, CallRec
        <4>2. call[c].sent <= call[c].attempt \/ call[c].sent <= call[c].attempt + 1
          BY DEF CallInv, SentOnce
        <4> QED
          BY <4>1, <4>2, FirstAttempt
      <3> QED
        BY <3>1 DEF CallInv, CallRec
    <2>3. throttle \in ThrottleRec
      BY DEF ThrottleInv
    <2> QED
      BY <2>1, <2>2, <2>3 DEF TypeOK, ThrottleRec
  <1> QED
    BY <1>1, <1>2, <1>3, PTL DEF Spec

=============================================================================
