-------------------------- MODULE ExecutionProofs --------------------------
(***************************************************************************)
(* Proofs about Execution, for any number of plans, setups, positions,     *)
(* reconcile threads and faults; an order may land at any time after it    *)
(* was sent.                                                               *)
(***************************************************************************)
EXTENDS Execution, TLAPS

(* Type correctness.                                                       *)

\* The empty tables and idle threads of a first boot are well typed.
LEMMA TypeInit == Init => TypeOK
  <1> SUFFICES ASSUME Init PROVE TypeOK
    OBVIOUS
  <1> USE DEF Init
  <1>1. TypeTables
    BY DEF TypeTables, IntentRow, TradeRow, NoIntent, NoTrade
  <1>2. TypeBroker
    BY DEF TypeBroker, OrderStates, Position, Unused
  <1>3. TypeStats
    BY DEF TypeStats
  <1>4. TypeExec
    BY DEF TypeExec, ExecThread, ExecPCs, ExecIdle
  <1>5. TypeRecon
    BY DEF TypeRecon, ReconThread, ReconPCs, ReconIdle
  <1>6. TypeEnv
    <2>1. faults \in 0..MaxFaults
      BY BoundAssumption
    <2> QED
      BY <2>1 DEF TypeEnv
  <1> QED
    BY <1>1, <1>2, <1>3, <1>4, <1>5, <1>6 DEF TypeOK

\* What a step leaves alone stays well typed.
LEMMA TypeFrame ==
    /\ TypeTables /\ UNCHANGED <<intent, trade>> => TypeTables'
    /\ TypeBroker /\ UNCHANGED broker => TypeBroker'
    /\ TypeStats /\ UNCHANGED stats => TypeStats'
    /\ TypeExec /\ UNCHANGED exec => TypeExec'
    /\ TypeRecon /\ UNCHANGED recon => TypeRecon'
    /\ TypeEnv /\ UNCHANGED env => TypeEnv'
  BY DEF TypeTables, TypeBroker, TypeStats, TypeExec, TypeRecon, TypeEnv,
         broker, stats, env

\* The fault counter stays in its bound.
LEMMA DisturbType == TypeEnv /\ Disturb => faults' \in 0..MaxFaults
  BY BoundAssumption DEF TypeEnv, Disturb

\* So does the set of late orders.
LEMMA WaitingType == TypeEnv /\ StopWaiting => late' \subseteq Plans
  BY DEF TypeEnv, StopWaiting

\* IntentRepository.mark writes a well-typed row.
LEMMA MarkType ==
    ASSUME TypeTables, NEW p \in Plans, NEW status \in INTENT_STATES,
           NEW acked \in BOOLEAN, NEW q \in Pos \cup {NULL}, Mark(p, status, acked, q)
    PROVE  intent' \in [Plans -> IntentRow]
  <1> DEFINE row == [status |-> status, order |-> intent[p].order \/ acked,
                     pos |-> Coalesce(q, intent[p].pos)]
  <1>1. intent[p] \in IntentRow
    BY DEF TypeTables
  <1>2. Coalesce(q, intent[p].pos) \in Pos \cup {NULL}
    BY <1>1 DEF IntentRow, Coalesce
  <1>3. (intent[p].order \/ acked) \in BOOLEAN
    OBVIOUS
  <1>4. row \in IntentRow
    BY <1>2, <1>3 DEF IntentRow
  <1>5. intent' = [intent EXCEPT ![p] = row]
    BY DEF Mark
  <1> HIDE DEF row
  <1> QED
    BY <1>4, <1>5 DEF TypeTables

\* The writers of the trades table write well-typed rows.
LEMMA TradeType ==
    ASSUME TypeTables, NEW p \in Plans, NEW q \in Pos,
           MarkOpen(p, q) \/ MarkAborted(p) \/ CreatePending(p) \/ MarkClosed(q)
    PROVE  trade' \in [Rows -> TradeRow]
  BY DEF TypeTables, TradeRow, TRADE_STATES, Rows, MarkOpen, MarkAborted, CreatePending,
         MarkClosed, RowsOf

\* Attaching a stop changes nothing but the stop.
LEMMA StopType ==
    ASSUME position \in [Pos -> Position], NEW q,
           position' = [position EXCEPT ![q].stop = TRUE]
    PROVE  position' \in [Pos -> Position]
  BY DEF Position

\* A jump inside execute keeps the thread's plan and found position.
LEMMA GotoType ==
    ASSUME TypeExec, NEW pc \in ExecPCs, Goto(pc), exec.pc # "idle",
           pc \in {"filled", "open", "count", "protect"} =>
              exec.pc \in {"filled", "open", "count", "protect"}
    PROVE  TypeExec'
  BY DEF TypeExec, Goto, ExecThread, ExecPCs

\* Leaving execute clears the thread.
LEMMA ExecIdleType == exec' = ExecIdle => TypeExec'
  BY DEF TypeExec, ExecIdle, ExecThread, ExecPCs

\* A thread of the shape reconcile keeps.
ThreadOK(t) ==
    /\ t \in ReconThread
    /\ t.pc = "open" => t.plan \in Plans
    /\ t.pc \in {"open", "count"} => t.pos \in Pos

\* Moving one reconcile thread to a well-typed state.
LEMMA ReconToType ==
    ASSUME TypeRecon, NEW r \in Reconcilers, NEW t, ThreadOK(t), ReconTo(r, t)
    PROVE  TypeRecon'
  BY DEF TypeRecon, ReconTo, ThreadOK

\* The idle thread is one.
LEMMA ReconIdleType == ThreadOK(ReconIdle)
  BY DEF ThreadOK, ReconIdle, ReconThread, ReconPCs

\* The broker's own steps keep the types.
LEMMA TypeBrokerNext == TypeOK /\ BrokerNext => TypeOK'
  <1> SUFFICES ASSUME TypeOK, BrokerNext PROVE TypeOK'
    OBVIOUS
  <1> USE DEF TypeOK
  <1>1. ASSUME NEW p \in Plans, BrokerAccepts(p) PROVE TypeOK'
    <2>1. TypeBroker'
      BY <1>1 DEF BrokerAccepts, TypeBroker, OrderStates
    <2> QED
      BY <1>1, <2>1, TypeFrame DEF BrokerAccepts
  <1>2. ASSUME NEW p \in Plans, BrokerRefuses(p) PROVE TypeOK'
    <2>1. TypeBroker'
      BY <1>2 DEF BrokerRefuses, TypeBroker, OrderStates
    <2> QED
      BY <1>2, <2>1, TypeFrame DEF BrokerRefuses
  <1>3. ASSUME NEW p \in Plans, BrokerFills(p) PROVE TypeOK'
    <2>1. TypeBroker'
      <3>1. SymbolOf[p] \in Symbols /\ DirectionOf[p] \in Directions
        BY PlanAssumption
      <3>2. PICK q \in Pos, stop \in BOOLEAN :
              position' = [position EXCEPT ![q] =
                  [state |-> "open", owner |-> p, symbol |-> SymbolOf[p],
                   direction |-> DirectionOf[p], stop |-> stop]]
        BY <1>3 DEF BrokerFills
      <3>3. position' \in [Pos -> Position]
        BY <3>1, <3>2 DEF TypeBroker, Position
      <3>4. order' \in [Plans -> OrderStates]
        BY <1>3 DEF BrokerFills, TypeBroker, OrderStates
      <3> QED
        BY <3>3, <3>4 DEF TypeBroker
    <2> QED
      BY <1>3, <2>1, TypeFrame DEF BrokerFills
  <1>4. ASSUME NEW q \in Pos, BrokerCloses(q) PROVE TypeOK'
    <2>1. TypeBroker'
      BY <1>4 DEF BrokerCloses, TypeBroker, Position
    <2> QED
      BY <1>4, <2>1, TypeFrame DEF BrokerCloses
  <1>5. CASE ManualOpen
    <2>1. TypeBroker'
      BY <1>5 DEF ManualOpen, TypeBroker, Position
    <2>2. TypeEnv'
      <3>1. faults' \in 0..MaxFaults
        BY <1>5, DisturbType DEF ManualOpen
      <3> QED
        BY <1>5, <3>1 DEF ManualOpen, TypeEnv
    <2> QED
      BY <1>5, <2>1, <2>2, TypeFrame DEF ManualOpen
  <1> QED
    BY <1>1, <1>2, <1>3, <1>4, <1>5 DEF BrokerNext

\* The step that only moves the intent and the program counter.
LEMMA MarkGotoType ==
    ASSUME TypeOK, NEW status \in INTENT_STATES, NEW acked \in BOOLEAN,
           NEW pc \in ExecPCs \ {"filled", "open", "count", "protect"},
           exec.pc # "idle", Mark(exec.plan, status, acked, NULL), Goto(pc),
           UNCHANGED <<trade, broker, stats, recon, env>>
    PROVE  TypeOK'
  <1>1. exec.plan \in Plans
    BY DEF TypeOK, TypeExec
  <1>2. intent' \in [Plans -> IntentRow]
    BY <1>1, MarkType DEF TypeOK
  <1>3. TypeTables'
    BY <1>2 DEF TypeOK, TypeTables
  <1>4. TypeExec'
    BY GotoType DEF TypeOK
  <1> QED
    BY <1>3, <1>4, TypeFrame DEF TypeOK

\* The step that only moves the program counter.
LEMMA PlainGotoType ==
    ASSUME TypeOK, NEW pc \in ExecPCs \ {"filled", "open", "count", "protect"},
           exec.pc # "idle", Goto(pc), UNCHANGED <<intent, trade, broker, stats, recon, env>>
    PROVE  TypeOK'
  <1>1. TypeExec'
    BY GotoType DEF TypeOK
  <1> QED
    BY <1>1, TypeFrame DEF TypeOK

\* A refusal, from any step of execute.
LEMMA FailType ==
    ASSUME TypeOK, exec.pc # "idle", Fail(exec.plan),
           UNCHANGED <<trade, broker, stats, recon, env>>
    PROVE  TypeOK'
  BY MarkGotoType DEF Fail, INTENT_STATES, ExecPCs

\* Every step of execute keeps the types.
LEMMA TypeExecStep == TypeOK /\ ExecStep => TypeOK'
  <1> SUFFICES ASSUME TypeOK, ExecStep PROVE TypeOK'
    OBVIOUS
  <1> USE DEF TypeOK
  <1>0. exec.pc # "idle" => exec.plan \in Plans
    BY DEF TypeExec
  <1>1. CASE ExecRefuse
    BY <1>1, ExecIdleType, TypeFrame DEF ExecRefuse
  <1>2. CASE ExecCreateIntent
    <2>1. exec.pc # "idle" /\ exec.plan \in Plans
      BY <1>0, <1>2 DEF ExecCreateIntent
    <2>2. TypeTables'
      BY <1>2, <2>1 DEF ExecCreateIntent, TypeTables, IntentRow, INTENT_STATES
    <2>3. TypeExec'
      BY <1>2, <2>1, ExecIdleType, GotoType DEF ExecCreateIntent, ExecPCs
    <2> QED
      BY <1>2, <2>2, <2>3, TypeFrame DEF ExecCreateIntent
  <1>3. CASE ExecReopen
    <2>1. exec.pc # "idle" /\ exec.plan \in Plans
      BY <1>0, <1>3 DEF ExecReopen
    <2>2. TypeTables'
      BY <1>3, <2>1 DEF ExecReopen, TypeTables, IntentRow, INTENT_STATES
    <2>3. TypeExec'
      BY <1>3, <2>1, GotoType DEF ExecReopen, ExecPCs
    <2> QED
      BY <1>3, <2>2, <2>3, TypeFrame DEF ExecReopen
  <1>4. CASE ExecCreatePending
    <2>1. exec.pc # "idle" /\ exec.plan \in Plans
      BY <1>0, <1>4 DEF ExecCreatePending
    <2>2. TypeTables'
      BY <1>4, <2>1 DEF ExecCreatePending, CreatePending, TypeTables, TradeRow, TRADE_STATES, Rows
    <2>3. TypeExec'
      BY <1>4, <2>1, GotoType DEF ExecCreatePending, ExecPCs
    <2> QED
      BY <1>4, <2>2, <2>3, TypeFrame DEF ExecCreatePending
  <1>5. CASE ExecCheckPositions
    BY <1>5, FailType, PlainGotoType DEF ExecCheckPositions, ExecPCs
  <1>6. CASE ExecCheckIntents
    BY <1>6, FailType, PlainGotoType DEF ExecCheckIntents, ExecPCs
  <1>7. CASE ExecCheckConditions
    BY <1>7, FailType, PlainGotoType DEF ExecCheckConditions, ExecPCs
  <1>8. CASE ExecAbort
    <2>1. exec.plan \in Plans
      BY <1>0, <1>8 DEF ExecAbort
    <2>2. TypeTables'
      BY <1>8, <2>1 DEF ExecAbort, MarkAborted, TypeTables, TradeRow, TRADE_STATES, Rows
    <2> QED
      BY <1>8, <2>2, ExecIdleType, TypeFrame DEF ExecAbort
  <1>9. CASE ExecSubmit
    BY <1>9, MarkGotoType DEF ExecSubmit, ExecPCs, INTENT_STATES
  <1>10. CASE ExecSend
    <2>1. exec.pc # "idle" /\ exec.plan \in Plans
      BY <1>0, <1>10 DEF ExecSend
    <2>2. TypeBroker'
      BY <1>10, <2>1 DEF ExecSend, TypeBroker, OrderStates
    <2>3. TypeExec'
      BY <1>10, <2>1, GotoType DEF ExecSend, ExecPCs
    <2> QED
      BY <1>10, <2>2, <2>3, TypeFrame DEF ExecSend
  <1>11. CASE ExecAcknowledged
    BY <1>11, MarkGotoType DEF ExecAcknowledged, ExecPCs, INTENT_STATES
  <1>12. CASE ExecRejected
    BY <1>12, FailType DEF ExecRejected
  <1>13. CASE ExecAmbiguous \/ ExecVerifyGivesUp
    <2>1. exec.plan \in Plans
      BY <1>0, <1>13 DEF ExecAmbiguous, ExecVerifyGivesUp
    <2>2. intent' \in [Plans -> IntentRow]
      BY <1>13, <2>1, MarkType DEF ExecAmbiguous, ExecVerifyGivesUp, INTENT_STATES
    <2>3. TypeTables'
      BY <1>13, <2>2 DEF ExecAmbiguous, ExecVerifyGivesUp, TypeTables
    <2>4. TypeEnv'
      BY <1>13, WaitingType DEF ExecAmbiguous, ExecVerifyGivesUp, TypeEnv
    <2> QED
      BY <1>13, <2>3, <2>4, ExecIdleType, TypeFrame DEF ExecAmbiguous, ExecVerifyGivesUp
  <1>14. CASE ExecVerifyFinds
    <2>1. PICK q \in OpenPositions :
            exec' = [exec EXCEPT !.pc = "filled", !.found = q, !.bare = ~position[q].stop]
      BY <1>14 DEF ExecVerifyFinds
    <2>2. q \in Pos /\ (~position[q].stop) \in BOOLEAN /\ exec.plan \in Plans
      BY <1>0, <1>14 DEF OpenPositions, ExecVerifyFinds
    <2>3. TypeExec'
      BY <2>1, <2>2 DEF TypeExec, ExecThread, ExecPCs
    <2>4. TypeEnv'
      BY <1>14, WaitingType DEF ExecVerifyFinds, TypeEnv
    <2> QED
      BY <1>14, <2>3, <2>4, TypeFrame DEF ExecVerifyFinds
  <1>15. CASE ExecFilled
    <2>1. exec.pc = "filled" /\ exec.plan \in Plans /\ exec.found \in Pos
      BY <1>0, <1>15 DEF ExecFilled, TypeExec
    <2>2. intent' \in [Plans -> IntentRow]
      BY <1>15, <2>1, MarkType DEF ExecFilled, INTENT_STATES
    <2>3. TypeTables'
      BY <1>15, <2>2 DEF ExecFilled, TypeTables
    <2>4. TypeExec'
      BY <1>15, <2>1, GotoType DEF ExecFilled, ExecPCs
    <2> QED
      BY <1>15, <2>3, <2>4, TypeFrame DEF ExecFilled
  <1>16. CASE ExecMarkOpen
    <2>1. exec.pc = "open" /\ exec.plan \in Plans /\ exec.found \in Pos
      BY <1>0, <1>16 DEF ExecMarkOpen, TypeExec
    <2>2. TypeTables'
      BY <1>16, <2>1, TradeType DEF ExecMarkOpen, TypeTables
    <2>3. TypeExec'
      BY <1>16, <2>1, GotoType, ExecIdleType DEF ExecMarkOpen, ExecPCs
    <2> QED
      BY <1>16, <2>2, <2>3, TypeFrame DEF ExecMarkOpen
  <1>17. CASE ExecRecordOpen
    <2>1. exec.pc = "count" /\ exec.plan \in Plans
      BY <1>0, <1>17 DEF ExecRecordOpen
    <2>2. TypeStats'
      BY <1>17, <2>1 DEF ExecRecordOpen, TypeStats
    <2>3. TypeExec'
      BY <1>17, <2>1, GotoType DEF ExecRecordOpen, ExecPCs
    <2> QED
      BY <1>17, <2>2, <2>3, TypeFrame DEF ExecRecordOpen
  <1>18. CASE ExecProtect
    <2>1. TypeBroker'
      <3>1. \/ position' = [position EXCEPT ![exec.found].stop = TRUE]
            \/ position' = position
        BY <1>18 DEF ExecProtect
      <3>2. position' \in [Pos -> Position]
        BY <3>1, StopType DEF TypeBroker
      <3> QED
        BY <1>18, <3>2 DEF ExecProtect, TypeBroker
    <2> QED
      BY <1>18, <2>1, ExecIdleType, TypeFrame DEF ExecProtect
  <1> QED
    BY <1>1, <1>2, <1>3, <1>4, <1>5, <1>6, <1>7, <1>8, <1>9, <1>10, <1>11, <1>12,
       <1>13, <1>14, <1>15, <1>16, <1>17, <1>18 DEF ExecStep

\* Every step of a reconcile pass keeps the types.
LEMMA TypeReconStep ==
    ASSUME TypeOK, NEW r \in Reconcilers,
           ReconSnapshot(r) \/ ReconUnreadable(r) \/ ReconStep(r) \/ ReconRaises(r)
    PROVE  TypeOK'
  <1> USE DEF TypeOK
  <1>0. ThreadOK(recon[r])
    BY DEF TypeRecon, ThreadOK
  <1>1. CASE ReconSnapshot(r)
    <2> DEFINE t == [ReconIdle EXCEPT !.pc = "intents", !.snap = OpenPositions,
          !.ids = OpenPositions, !.bare = {q \in OpenPositions : ~position[q].stop}]
    <2>1. ThreadOK(t)
      BY DEF ThreadOK, ReconIdle, ReconThread, ReconPCs, OpenPositions
    <2>2. ReconTo(r, t)
      BY <1>1 DEF ReconSnapshot
    <2> HIDE DEF t
    <2> QED
      BY <1>1, <2>1, <2>2, ReconToType, TypeFrame DEF ReconSnapshot
  <1>2. CASE ReconUnreadable(r)
    <2>1. TypeEnv'
      BY <1>2 DEF ReconUnreadable, TypeEnv
    <2> QED
      BY <1>2, <2>1, TypeFrame DEF ReconUnreadable
  <1>3. CASE ReconReadIntents(r)
    <2> DEFINE work == {<<p, intent[p].order>> :
                          p \in {x \in Plans : intent[x].status \in Unresolved}}
    <2> DEFINE t == [recon[r] EXCEPT !.pc = "resolve", !.intents = work]
    <2>1. work \in SUBSET IntentWork
      BY DEF TypeTables, IntentRow, IntentWork
    <2>2. ReconTo(r, t)
      BY <1>3 DEF ReconReadIntents
    <2> HIDE DEF work
    <2>3. ThreadOK(t)
      BY <1>0, <2>1 DEF ThreadOK, ReconThread, ReconPCs
    <2> HIDE DEF t
    <2> QED
      BY <1>3, <2>2, <2>3, ReconToType, TypeFrame DEF ReconReadIntents
  <1>4. CASE ReconResolveFilled(r)
    <2>1. PICK w \in recon[r].intents, q \in recon[r].snap :
            /\ Mark(w[1], "FILLED", FALSE, q)
            /\ ReconTo(r, [recon[r] EXCEPT !.pc = "open", !.plan = w[1], !.pos = q,
                                           !.intents = @ \ {w}])
      BY <1>4 DEF ReconResolveFilled
    <2> DEFINE t == [recon[r] EXCEPT !.pc = "open", !.plan = w[1], !.pos = q,
                                     !.intents = @ \ {w}]
    <2>2. q \in Pos /\ w \in IntentWork
      BY <1>0 DEF ThreadOK, ReconThread
    <2>3. w[1] \in Plans
      BY <2>2 DEF IntentWork
    <2>4. intent' \in [Plans -> IntentRow]
      BY <2>1, <2>2, <2>3, MarkType DEF INTENT_STATES
    <2>5. TypeTables'
      BY <1>4, <2>4 DEF ReconResolveFilled, TypeTables
    <2>6. ThreadOK(t)
      BY <1>0, <2>2, <2>3 DEF ThreadOK, ReconThread, ReconPCs
    <2>7. ReconTo(r, t)
      BY <2>1
    <2> HIDE DEF t
    <2> QED
      BY <1>4, <2>5, <2>6, <2>7, ReconToType, TypeFrame DEF ReconResolveFilled
  <1>5. CASE ReconMarkOpen(r)
    <2>1. recon[r].plan \in Plans /\ recon[r].pos \in Pos
      BY <1>0, <1>5 DEF ReconMarkOpen, ThreadOK
    <2>2. TypeTables'
      BY <1>5, <2>1, TradeType DEF ReconMarkOpen, TypeTables
    <2> DEFINE t == [recon[r] EXCEPT !.pc = "resolve", !.plan = NULL, !.pos = NULL]
    <2>3. ThreadOK(t)
      BY <1>0 DEF ThreadOK, ReconThread, ReconPCs
    <2>4. ReconTo(r, ReconIdle) \/ ReconTo(r, t)
      BY <1>5 DEF ReconMarkOpen
    <2> HIDE DEF t
    <2>5. TypeRecon'
      BY <2>3, <2>4, ReconToType, ReconIdleType
    <2> QED
      BY <1>5, <2>2, <2>5, TypeFrame DEF ReconMarkOpen
  <1>6. CASE ReconResolveUnseen(r)
    <2>1. PICK w \in recon[r].intents :
            /\ \/ Mark(w[1], "FILLED", TRUE, NULL)
               \/ Mark(w[1], "ABANDONED", FALSE, NULL)
            /\ ReconTo(r, [recon[r] EXCEPT !.intents = @ \ {w}])
      BY <1>6 DEF ReconResolveUnseen
    <2> DEFINE t == [recon[r] EXCEPT !.intents = @ \ {w}]
    <2>2. w[1] \in Plans
      BY <1>0 DEF ThreadOK, ReconThread, IntentWork
    <2>3. intent' \in [Plans -> IntentRow]
      BY <2>1, <2>2, MarkType DEF INTENT_STATES
    <2>4. TypeTables'
      BY <1>6, <2>3 DEF ReconResolveUnseen, TypeTables
    <2>5. ThreadOK(t)
      BY <1>0 DEF ThreadOK, ReconThread
    <2>6. ReconTo(r, t)
      BY <2>1
    <2> HIDE DEF t
    <2> QED
      BY <1>6, <2>4, <2>5, <2>6, ReconToType, TypeFrame DEF ReconResolveUnseen
  <1>7. CASE ReconAdopt(r)
    <2>1. PICK q \in recon[r].ids :
            /\ trade' = IF RowsOf(q) # {} THEN trade
                        ELSE [trade EXCEPT ![q] = [status |-> "ORPHANED", pos |-> q]]
            /\ ReconTo(r, [recon[r] EXCEPT !.ids = @ \ {q}])
      BY <1>7 DEF ReconAdopt
    <2> DEFINE t == [recon[r] EXCEPT !.ids = @ \ {q}]
    <2>2. q \in Pos
      BY <1>0 DEF ThreadOK, ReconThread
    <2>3. TypeTables'
      BY <1>7, <2>1, <2>2 DEF ReconAdopt, TypeTables, TradeRow, TRADE_STATES, Rows
    <2>4. ThreadOK(t)
      BY <1>0 DEF ThreadOK, ReconThread
    <2>5. ReconTo(r, t)
      BY <2>1
    <2> HIDE DEF t
    <2> QED
      BY <1>7, <2>3, <2>4, <2>5, ReconToType, TypeFrame DEF ReconAdopt
  <1>8. CASE ReconReadTrades(r)
    <2> DEFINE t == [recon[r] EXCEPT !.pc = "close", !.ids = OpenTradeIds \ recon[r].snap]
    <2>1. OpenTradeIds \in SUBSET Pos
      BY DEF OpenTradeIds, TypeTables, TradeRow
    <2>2. ThreadOK(t)
      BY <1>0, <2>1 DEF ThreadOK, ReconThread, ReconPCs
    <2>3. ReconTo(r, t)
      BY <1>8 DEF ReconReadTrades
    <2> HIDE DEF t
    <2> QED
      BY <1>8, <2>2, <2>3, ReconToType, TypeFrame DEF ReconReadTrades
  <1>9. CASE ReconMarkClosed(r)
    <2>1. PICK q \in recon[r].ids :
            /\ MarkClosed(q)
            /\ \/ ReconTo(r, [recon[r] EXCEPT !.pc = "count", !.pos = q, !.ids = @ \ {q}])
               \/ ReconTo(r, [recon[r] EXCEPT !.ids = @ \ {q}])
      BY <1>9 DEF ReconMarkClosed
    <2> DEFINE t1 == [recon[r] EXCEPT !.pc = "count", !.pos = q, !.ids = @ \ {q}]
    <2> DEFINE t2 == [recon[r] EXCEPT !.ids = @ \ {q}]
    <2>2. q \in Pos
      BY <1>0 DEF ThreadOK, ReconThread
    <2>3. TypeTables'
      BY <1>9, <2>1, <2>2 DEF ReconMarkClosed, MarkClosed, RowsOf, TypeTables, TradeRow,
                              TRADE_STATES
    <2>4. ThreadOK(t1) /\ ThreadOK(t2)
      BY <1>0, <2>2 DEF ThreadOK, ReconThread, ReconPCs
    <2>5. ReconTo(r, t1) \/ ReconTo(r, t2)
      BY <2>1
    <2> HIDE DEF t1, t2
    <2>6. TypeRecon'
      BY <2>4, <2>5, ReconToType
    <2> QED
      BY <1>9, <2>3, <2>6, TypeFrame DEF ReconMarkClosed
  <1>10. CASE ReconRecordClose(r)
    <2> DEFINE t == [recon[r] EXCEPT !.pc = "close", !.pos = NULL]
    <2>1. recon[r].pos \in Pos
      BY <1>0, <1>10 DEF ReconRecordClose, ThreadOK
    <2>2. TypeStats'
      BY <1>10, <2>1 DEF ReconRecordClose, TypeStats
    <2>3. ThreadOK(t)
      BY <1>0 DEF ThreadOK, ReconThread, ReconPCs
    <2>4. ReconTo(r, t)
      BY <1>10 DEF ReconRecordClose
    <2> HIDE DEF t
    <2> QED
      BY <1>10, <2>2, <2>3, <2>4, ReconToType, TypeFrame DEF ReconRecordClose
  <1>11. CASE ReconRepair(r)
    <2>1. PICK q \in recon[r].bare :
            /\ \/ position' = [position EXCEPT ![q].stop = TRUE]
               \/ position' = position
            /\ ReconTo(r, [recon[r] EXCEPT !.bare = @ \ {q}])
      BY <1>11 DEF ReconRepair
    <2> DEFINE t == [recon[r] EXCEPT !.bare = @ \ {q}]
    <2>2. position' \in [Pos -> Position]
      BY <2>1, StopType DEF TypeBroker
    <2>3. TypeBroker'
      BY <1>11, <2>2 DEF ReconRepair, TypeBroker
    <2>4. ThreadOK(t)
      BY <1>0 DEF ThreadOK, ReconThread
    <2>5. ReconTo(r, t)
      BY <2>1
    <2> HIDE DEF t
    <2> QED
      BY <1>11, <2>3, <2>4, <2>5, ReconToType, TypeFrame DEF ReconRepair
  <1>12. CASE ReconFinish(r)
    <2>1. TypeEnv'
      BY <1>12 DEF ReconFinish, TypeEnv
    <2> QED
      BY <1>12, <2>1, ReconToType, ReconIdleType, TypeFrame DEF ReconFinish
  <1>13. CASE ReconRaises(r)
    <2>1. TypeEnv'
      BY <1>13, DisturbType DEF ReconRaises, TypeEnv
    <2> QED
      BY <1>13, <2>1, ReconToType, ReconIdleType, TypeFrame DEF ReconRaises
  <1> QED
    BY <1>1, <1>2, <1>3, <1>4, <1>5, <1>6, <1>7, <1>8, <1>9, <1>10, <1>11, <1>12, <1>13
    DEF ReconStep

\* One step of the system keeps the types.
LEMMA TypeNext == TypeOK /\ [Next]_vars => TypeOK'
  <1> SUFFICES ASSUME TypeOK, [Next]_vars PROVE TypeOK'
    OBVIOUS
  <1>1. ASSUME NEW p \in Plans, ExecBegin(p) PROVE TypeOK'
    <2>1. TypeExec'
      BY <1>1 DEF ExecBegin, TypeExec, ExecThread, ExecIdle, ExecPCs
    <2> QED
      BY <1>1, <2>1, TypeFrame DEF ExecBegin, TypeOK
  <1>2. CASE Crash
    <2>1. TypeRecon'
      <3>1. recon' = [r \in Reconcilers |-> ReconIdle]
        BY <1>2 DEF Crash
      <3> QED
        BY <3>1, ReconIdleType DEF TypeRecon, ThreadOK
    <2>2. TypeEnv'
      BY <1>2, DisturbType, WaitingType DEF Crash, TypeEnv, TypeOK
    <2> QED
      BY <1>2, <2>1, <2>2, ExecIdleType, TypeFrame DEF Crash, TypeOK
  <1>3. CASE ExecRaises
    <2>1. TypeEnv'
      BY <1>3, DisturbType, WaitingType DEF ExecRaises, TypeEnv, TypeOK
    <2> QED
      BY <1>3, <2>1, ExecIdleType, TypeFrame DEF ExecRaises, TypeOK
  <1>4. CASE UNCHANGED vars
    BY <1>4, TypeFrame DEF vars, TypeOK
  <1> QED
    BY <1>1, <1>2, <1>3, <1>4, TypeBrokerNext, TypeExecStep, TypeReconStep DEF Next

\* Every reachable state of the order path is well typed: in particular a thread
\* past the step that reads a plan or a position id still holds it.
THEOREM TypeCorrect == Spec => []TypeOK
  BY TypeInit, TypeNext, PTL DEF Spec

----------------------------------------------------------------------------
(***************************************************************************)
(* One order per setup.  OneOrderPerSetup is not inductive: it does not    *)
(* say why no second order can be sent.  The reason is the trades row.  It *)
(* is in a status that blocks the setup from before the order leaves until *)
(* the broker has said no, whatever the intent says meanwhile; so the scan *)
(* gate, which reads it, refuses the setup, and an executor past the gate  *)
(* is the only sender for its setup.                                       *)
(***************************************************************************)

Blocking == {"PENDING", "OPEN", "ORPHANED", "CLOSED"}

\* The steps of execute before the order leaves, and after a refusal.
Unsent == {"persist", "reopen", "pending", "positions", "intents", "conditions",
           "submit", "send", "abort"}

\* The steps between the trades row and the order.
RowSteps == {"positions", "intents", "conditions", "submit", "send"}

\* A sent order's row blocks its setup.
SentBlocks == \A p \in Plans : Sent(p) => trade[p].status \in Blocking

\* From the row's write to the order's, the row of the plan in hand blocks.
RowWritten == exec.pc \in RowSteps => trade[exec.plan].status \in Blocking

\* The executor holds the only plan of its setup that is, or may be, sent.
OnlySender ==
    /\ exec.pc \in Unsent => ~Sent(exec.plan)
    /\ exec.pc # "idle" =>
        \A p \in Plans \ {exec.plan} : SetupOf[p] = SetupOf[exec.plan] => ~Sent(p)

OneSentPlan ==
    \A a, b \in Plans : SetupOf[a] = SetupOf[b] /\ Sent(a) /\ Sent(b) => a = b

\* A plan's position comes from its landed order, and from no other.
OneFillPerOrder ==
    /\ \A p \in Plans, q \in Pos : Owns(p, q) => order[p] = "landed"
    /\ \A p \in Plans, q1, q2 \in Pos : Owns(p, q1) /\ Owns(p, q2) => q1 = q2

\* A FAILED intent has no order, and none is about to leave under one.
FailedUnsent ==
    /\ FailedMeansNoOrder
    /\ exec.pc = "send" => intent[exec.plan].status # "FAILED"

OrderInv ==
    /\ SentBlocks /\ RowWritten /\ OnlySender /\ OneSentPlan /\ OneFillPerOrder
    /\ FailedUnsent

\* Nothing is sent when the bot starts for the first time.
LEMMA OrderInit == Init => OrderInv
  BY DEF Init, OrderInv, SentBlocks, RowWritten, OnlySender, OneSentPlan, OneFillPerOrder,
         FailedUnsent, FailedMeansNoOrder, Sent, Owns, Unused, ExecIdle, RowSteps, Unsent,
         NoIntent

\* What a step that sends no order owes the invariant: the rows of sent orders
\* still block, no sent plan's intent turns FAILED, and the executor goes idle or
\* stays with its plan.
LEMMA OrderFrame ==
    ASSUME OrderInv, order' = order,
           \A p \in Plans, q \in Pos : Owns(p, q)' => Owns(p, q),
           \A p \in Plans : Sent(p) => trade'[p].status \in Blocking,
           \A p \in Plans : intent'[p].status = "FAILED" => ~Sent(p),
           \/ exec'.pc = "idle"
           \/ /\ exec.pc # "idle" /\ exec'.plan = exec.plan
              /\ exec'.pc \in Unsent => ~Sent(exec.plan)
              /\ exec'.pc \in RowSteps => trade'[exec.plan].status \in Blocking
              /\ exec'.pc = "send" => intent'[exec.plan].status # "FAILED"
    PROVE  OrderInv'
  <1>1. \A p : Sent(p)' <=> Sent(p)
    BY DEF Sent
  <1>2. SentBlocks'
    BY <1>1 DEF SentBlocks
  <1>3. RowWritten'
    BY DEF RowWritten, RowSteps
  <1>4. OnlySender'
    BY <1>1 DEF OrderInv, OnlySender, Unsent
  <1>5. OneSentPlan'
    BY <1>1 DEF OrderInv, OneSentPlan
  <1>6. OneFillPerOrder'
    BY DEF OrderInv, OneFillPerOrder
  <1>7. FailedUnsent'
    BY <1>1 DEF FailedUnsent, FailedMeansNoOrder
  <1> QED
    BY <1>2, <1>3, <1>4, <1>5, <1>6, <1>7 DEF OrderInv

\* Marking an intent anything but FAILED, or FAILED when nothing was sent.
LEMMA MarkUnsent ==
    ASSUME TypeTables, OrderInv, NEW p \in Plans, NEW status, NEW acked, NEW q,
           Mark(p, status, acked, q), status = "FAILED" => ~Sent(p)
    PROVE  \A x \in Plans : intent'[x].status = "FAILED" => ~Sent(x)
  BY DEF TypeTables, Mark, OrderInv, FailedUnsent, FailedMeansNoOrder

\* mark_open, create_pending and mark_closed never unblock a row.
LEMMA RowsStayBlocked ==
    ASSUME TypeTables, NEW p \in Plans, NEW q,
           \/ MarkOpen(p, q) \/ CreatePending(p) \/ MarkClosed(q) \/ trade' = trade,
           NEW x \in Plans, trade[x].status \in Blocking
    PROVE  trade'[x].status \in Blocking
  BY DEF TypeTables, TradeRow, MarkOpen, CreatePending, MarkClosed, RowsOf, Blocking, Rows

\* The broker's answers: an order that is refused is no longer sent, and an
\* accepted one becomes the only position of its plan.
LEMMA OrderBrokerNext == TypeOK /\ OrderInv /\ BrokerNext => OrderInv'
  <1> SUFFICES ASSUME TypeOK, OrderInv, BrokerNext PROVE OrderInv'
    OBVIOUS
  <1> USE DEF broker, stats, env
  <1>1. ASSUME NEW p \in Plans, BrokerAccepts(p) \/ BrokerRefuses(p) PROVE OrderInv'
    <2>1. /\ order \in [Plans -> OrderStates] /\ order[p] \in {"flying", "accepted"}
          /\ \E o \in {"accepted", "rejected", "lost", "void"} : order' = [order EXCEPT ![p] = o]
          /\ UNCHANGED <<intent, trade, position, exec>>
      BY <1>1 DEF BrokerAccepts, BrokerRefuses, TypeOK, TypeBroker
    <2>2. \A x \in Plans : Sent(x)' => Sent(x)
      BY <2>1 DEF Sent
    <2>3. SentBlocks' /\ RowWritten'
      BY <2>1, <2>2 DEF OrderInv, SentBlocks, RowWritten
    <2>4. OnlySender'
      BY <2>1, <2>2 DEF OrderInv, OnlySender, TypeOK, TypeExec, Unsent
    <2>5. OneSentPlan'
      BY <2>2 DEF OrderInv, OneSentPlan
    <2>6. OneFillPerOrder'
      BY <2>1 DEF OrderInv, OneFillPerOrder, Owns
    <2>7. FailedUnsent'
      BY <2>1, <2>2 DEF OrderInv, FailedUnsent, FailedMeansNoOrder
    <2> QED
      BY <2>3, <2>4, <2>5, <2>6, <2>7 DEF OrderInv
  <1>2. ASSUME NEW p \in Plans, BrokerFills(p) PROVE OrderInv'
    <2>1. PICK q \in Pos : \E stop \in BOOLEAN :
            /\ Fresh(q)
            /\ position' = [position EXCEPT ![q] =
                  [state |-> "open", owner |-> p, symbol |-> SymbolOf[p],
                   direction |-> DirectionOf[p], stop |-> stop]]
      BY <1>2 DEF BrokerFills
    <2>2. /\ order \in [Plans -> OrderStates] /\ order[p] = "accepted"
          /\ order' = [order EXCEPT ![p] = "landed"]
          /\ UNCHANGED <<intent, trade, exec>>
      BY <1>2 DEF BrokerFills, TypeOK, TypeBroker
    <2>3. \A x \in Plans : Sent(x)' <=> Sent(x)
      BY <2>2 DEF Sent
    <2>4. SentBlocks' /\ RowWritten' /\ OneSentPlan'
      BY <2>2, <2>3 DEF OrderInv, SentBlocks, RowWritten, OneSentPlan
    <2>5. OnlySender'
      BY <2>2, <2>3 DEF OrderInv, OnlySender, TypeOK, TypeExec, Unsent
    <2>6. FailedUnsent'
      BY <2>2, <2>3 DEF OrderInv, FailedUnsent, FailedMeansNoOrder
    <2>7. \A z \in Pos : ~Owns(p, z)
      BY <2>2 DEF OrderInv, OneFillPerOrder
    <2>8. \A x \in Plans, z \in Pos : Owns(x, z)' <=> (Owns(x, z) \/ (x = p /\ z = q))
      BY <2>1, <2>7 DEF Owns, Fresh, TypeOK, TypeBroker
    <2>9. OneFillPerOrder'
      BY <2>2, <2>7, <2>8 DEF OrderInv, OneFillPerOrder
    <2> QED
      BY <2>4, <2>5, <2>6, <2>9 DEF OrderInv
  <1>3. ASSUME NEW q \in Pos, BrokerCloses(q) \/ ManualOpen PROVE OrderInv'
    <2>1. UNCHANGED <<order, intent, trade, exec>>
      BY <1>3 DEF BrokerCloses, ManualOpen
    <2>2. \A x \in Plans, z \in Pos : Owns(x, z)' => Owns(x, z)
      BY <1>3, IdAssumption DEF BrokerCloses, ManualOpen, Owns, TypeOK, TypeBroker, Position
    <2> QED
      BY <2>1, <2>2, OrderFrame DEF OrderInv, SentBlocks, FailedUnsent, FailedMeansNoOrder,
         OnlySender, RowWritten
  <1>4. CASE ManualOpen
    <2>1. \E q \in Pos : TRUE
      BY <1>4 DEF ManualOpen
    <2> QED
      BY <1>3, <1>4, <2>1
  <1> QED
    BY <1>1, <1>2, <1>3, <1>4 DEF BrokerNext

\* The gate: a setup that is not among the traded ones has no sent order.
LEMMA OrderBegin ==
    ASSUME TypeOK, OrderInv, NEW p \in Plans, ExecBegin(p)
    PROVE  OrderInv'
  <1>1. \A x \in Plans : SetupOf[x] = SetupOf[p] => ~Sent(x)
    BY DEF ExecBegin, TradedSetups, OrderInv, SentBlocks, Blocking
  <1>2. exec'.pc = "persist" /\ exec'.plan = p
    BY DEF ExecBegin, ExecIdle
  <1>3. UNCHANGED <<order, position, intent, trade>>
    BY DEF ExecBegin, broker
  <1>4. \A x : Sent(x)' <=> Sent(x)
    BY <1>3 DEF Sent
  <1>5. RowWritten' /\ OnlySender'
    BY <1>1, <1>2, <1>4 DEF RowWritten, RowSteps, OnlySender, Unsent
  <1>6. SentBlocks' /\ OneSentPlan'
    BY <1>3, <1>4 DEF OrderInv, SentBlocks, OneSentPlan
  <1>7. OneFillPerOrder'
    BY <1>3 DEF OrderInv, OneFillPerOrder, Owns
  <1>8. FailedUnsent'
    BY <1>2, <1>3, <1>4 DEF OrderInv, FailedUnsent, FailedMeansNoOrder
  <1> QED
    BY <1>5, <1>6, <1>7, <1>8 DEF OrderInv

\* The one step that sends.
LEMMA OrderSend ==
    ASSUME TypeOK, OrderInv, ExecSend
    PROVE  OrderInv'
  <1> DEFINE p == exec.plan
  <1>1. p \in Plans /\ exec.pc = "send" /\ exec'.pc = "await" /\ exec'.plan = p
    BY DEF ExecSend, TypeOK, TypeExec, ExecThread, Goto
  <1>2. /\ order \in [Plans -> OrderStates] /\ order' = [order EXCEPT ![p] = "flying"]
        /\ UNCHANGED <<intent, trade, position>>
    BY DEF ExecSend, TypeOK, TypeBroker
  <1>3. ~Sent(p) /\ \A x \in Plans \ {p} : SetupOf[x] = SetupOf[p] => ~Sent(x)
    BY <1>1 DEF OrderInv, OnlySender, Unsent
  <1>4. trade[p].status \in Blocking /\ intent[p].status # "FAILED"
    BY <1>1 DEF OrderInv, RowWritten, RowSteps, FailedUnsent
  <1>5. Sent(p)' /\ \A x \in Plans \ {p} : Sent(x)' <=> Sent(x)
    BY <1>1, <1>2 DEF Sent
  <1> HIDE DEF p
  <1>6. SentBlocks'
    BY <1>1, <1>2, <1>4, <1>5 DEF OrderInv, SentBlocks
  <1>7. RowWritten' /\ OnlySender'
    BY <1>1, <1>3, <1>5 DEF RowWritten, RowSteps, OnlySender, Unsent
  <1>8. OneSentPlan'
    BY <1>1, <1>3, <1>5 DEF OrderInv, OneSentPlan
  <1>9. \A z \in Pos : ~Owns(p, z)
    BY <1>1, <1>3 DEF OrderInv, OneFillPerOrder, Sent
  <1>10. OneFillPerOrder'
    BY <1>1, <1>2, <1>9 DEF OrderInv, OneFillPerOrder, Owns
  <1>11. FailedUnsent'
    BY <1>1, <1>2, <1>4, <1>5 DEF OrderInv, FailedUnsent, FailedMeansNoOrder
  <1> QED
    BY <1>6, <1>7, <1>8, <1>10, <1>11 DEF OrderInv

\* A refusal marks FAILED only a plan that was not sent.
LEMMA OrderFail ==
    ASSUME TypeOK, OrderInv, exec.pc # "idle", ~Sent(exec.plan), Fail(exec.plan),
           UNCHANGED <<trade, broker>>
    PROVE  OrderInv'
  <1>1. exec.plan \in Plans /\ exec'.pc = "abort" /\ exec'.plan = exec.plan
    BY DEF TypeOK, TypeExec, ExecThread, Fail, Goto
  <1>2. \A x \in Plans : intent'[x].status = "FAILED" => ~Sent(x)
    BY <1>1, MarkUnsent DEF Fail, TypeOK
  <1>3. order' = order /\ \A x \in Plans, z \in Pos : Owns(x, z)' => Owns(x, z)
    BY DEF broker, Owns
  <1>4. \A x \in Plans : Sent(x) => trade'[x].status \in Blocking
    BY DEF OrderInv, SentBlocks
  <1> QED
    BY <1>1, <1>2, <1>3, <1>4, OrderFrame DEF RowSteps, Unsent

\* Every other step of execute.
LEMMA OrderExecStep == TypeOK /\ OrderInv /\ ExecStep => OrderInv'
  <1> SUFFICES ASSUME TypeOK, OrderInv, ExecStep PROVE OrderInv'
    OBVIOUS
  <1>0. /\ exec.pc # "idle" => exec.plan \in Plans
        /\ \A pc : Goto(pc) => exec'.pc = pc /\ exec'.plan = exec.plan
        /\ ExecIdle.pc = "idle"
        /\ \A x \in Plans : Sent(x) => trade[x].status \in Blocking
        /\ \A x \in Plans : intent[x].status = "FAILED" => ~Sent(x)
        /\ exec.pc \in Unsent => ~Sent(exec.plan)
        /\ exec.pc \in RowSteps => trade[exec.plan].status \in Blocking
    BY DEF TypeOK, TypeExec, ExecThread, Goto, ExecIdle, OrderInv, SentBlocks, FailedUnsent,
           FailedMeansNoOrder, OnlySender, RowWritten
  <1>00. ASSUME position' = position
         PROVE  \A x \in Plans, z \in Pos : Owns(x, z)' => Owns(x, z)
    BY <1>00 DEF Owns
  <1> USE DEF broker
  <1>1. CASE ExecRefuse
    BY <1>0, <1>00, <1>1, OrderFrame DEF ExecRefuse
  <1>2. CASE ExecCreateIntent \/ ExecReopen
    <2>1. /\ exec.pc # "idle" /\ exec.plan \in Plans
          /\ UNCHANGED <<trade, order, position>>
          /\ exec.pc \in Unsent
      BY <1>0, <1>2 DEF ExecCreateIntent, ExecReopen, Unsent
    <2>2. \/ exec'.pc = "idle"
          \/ exec'.plan = exec.plan /\ exec'.pc \in {"pending", "reopen"}
      BY <1>0, <1>2 DEF ExecCreateIntent, ExecReopen
    <2>3. \A x \in Plans : intent'[x].status = "FAILED" => intent[x].status = "FAILED"
      BY <1>2, <2>1 DEF ExecCreateIntent, ExecReopen, TypeOK, TypeTables, IntentRow
    <2> QED
      BY <1>0, <1>00, <2>1, <2>2, <2>3, OrderFrame DEF RowSteps
  <1>3. CASE ExecCreatePending
    <2>1. /\ exec.pc = "pending" /\ exec.plan \in Plans /\ exec'.pc = "positions"
          /\ exec'.plan = exec.plan /\ UNCHANGED <<intent, order, position>>
      BY <1>0, <1>3 DEF ExecCreatePending
    <2>2. \A x \in Plans : Sent(x) => trade'[x].status \in Blocking
      BY <1>0, <1>3, <2>1, RowsStayBlocked DEF ExecCreatePending, TypeOK
    <2>3. trade'[exec.plan].status \in Blocking
      BY <1>3, <2>1 DEF ExecCreatePending, CreatePending, TypeOK, TypeTables, TradeRow,
                        TRADE_STATES, Rows, Blocking
    <2> QED
      BY <1>0, <1>00, <2>1, <2>2, <2>3, OrderFrame DEF Unsent
  <1>4. CASE ExecCheckPositions \/ ExecCheckIntents \/ ExecCheckConditions
    <2>1. /\ exec.pc \in {"positions", "intents", "conditions"}
          /\ UNCHANGED <<trade, order, position>>
      BY <1>4 DEF ExecCheckPositions, ExecCheckIntents, ExecCheckConditions
    <2>2. exec.pc # "idle" /\ exec.pc \in Unsent /\ exec.pc \in RowSteps
      BY <2>1 DEF Unsent, RowSteps
    <2>3. \/ Fail(exec.plan)
          \/ intent' = intent /\ (Goto("intents") \/ Goto("conditions") \/ Goto("submit"))
      BY <1>4 DEF ExecCheckPositions, ExecCheckIntents, ExecCheckConditions
    <2>4. CASE Fail(exec.plan)
      BY <1>0, <2>1, <2>2, <2>4, OrderFail
    <2>5. CASE intent' = intent /\ (Goto("intents") \/ Goto("conditions") \/ Goto("submit"))
      <3>1. exec'.plan = exec.plan /\ exec'.pc # "send"
        BY <1>0, <2>5
      <3> QED
        BY <1>0, <1>00, <2>1, <2>2, <2>5, <3>1, OrderFrame
    <2> QED
      BY <2>3, <2>4, <2>5
  <1>5. CASE ExecAbort
    <2>1. /\ exec.plan \in Plans /\ ~Sent(exec.plan) /\ exec'.pc = "idle"
          /\ UNCHANGED <<intent, order, position>>
      BY <1>0, <1>5 DEF ExecAbort, Unsent
    <2>2. \A x \in Plans : Sent(x) => trade'[x].status \in Blocking
      BY <1>0, <1>5, <2>1 DEF ExecAbort, MarkAborted, TypeOK, TypeTables, Rows
    <2> QED
      BY <1>0, <1>00, <2>1, <2>2, OrderFrame
  <1>6. CASE ExecSubmit
    <2>1. /\ exec.pc = "submit" /\ exec.plan \in Plans /\ exec'.pc = "send"
          /\ exec'.plan = exec.plan /\ UNCHANGED <<trade, order, position>>
      BY <1>0, <1>6 DEF ExecSubmit
    <2>2. \A x \in Plans : intent'[x].status = "FAILED" => ~Sent(x)
      BY <1>6, <2>1, MarkUnsent DEF ExecSubmit, TypeOK
    <2>3. intent'[exec.plan].status # "FAILED"
      BY <1>6, <2>1 DEF ExecSubmit, Mark, TypeOK, TypeTables
    <2> QED
      BY <1>0, <1>00, <2>1, <2>2, <2>3, OrderFrame DEF Unsent, RowSteps
  <1>7. CASE ExecSend
    BY <1>7, OrderSend
  <1>8. CASE ExecAcknowledged \/ ExecAmbiguous \/ ExecVerifyGivesUp \/ ExecFilled
    <2>1. exec.plan \in Plans /\ UNCHANGED <<trade, order, position>>
      BY <1>0, <1>8 DEF ExecAcknowledged, ExecAmbiguous, ExecVerifyGivesUp, ExecFilled
    <2>2. \/ exec'.pc = "idle"
          \/ exec.pc # "idle" /\ exec'.plan = exec.plan /\ exec'.pc \in {"verify", "open"}
      BY <1>0, <1>8 DEF ExecAcknowledged, ExecAmbiguous, ExecVerifyGivesUp, ExecFilled
    <2>3. \A x \in Plans : intent'[x].status = "FAILED" => intent[x].status = "FAILED"
      <3>1. CASE ExecAcknowledged
        BY <1>0, <2>1, <3>1 DEF ExecAcknowledged, Mark, TypeOK, TypeTables
      <3>2. CASE ExecAmbiguous
        BY <1>0, <2>1, <3>2 DEF ExecAmbiguous, Mark, TypeOK, TypeTables
      <3>3. CASE ExecVerifyGivesUp
        BY <1>0, <2>1, <3>3 DEF ExecVerifyGivesUp, Mark, TypeOK, TypeTables
      <3>4. CASE ExecFilled
        BY <1>0, <2>1, <3>4 DEF ExecFilled, Mark, TypeOK, TypeTables
      <3> QED
        BY <1>8, <3>1, <3>2, <3>3, <3>4
    <2> QED
      BY <1>0, <1>00, <2>1, <2>2, <2>3, OrderFrame DEF Unsent, RowSteps
  <1>9. CASE ExecRejected
    <2>1. exec.pc # "idle" /\ ~Sent(exec.plan)
      BY <1>9 DEF ExecRejected, Sent
    <2> QED
      BY <1>9, <2>1, OrderFail DEF ExecRejected
  <1>10. CASE ExecVerifyFinds \/ ExecRecordOpen
    <2>1. /\ UNCHANGED <<intent, trade, order, position>> /\ exec.pc # "idle"
          /\ exec'.plan = exec.plan /\ exec'.pc \in {"filled", "protect"}
      BY <1>0, <1>10 DEF ExecVerifyFinds, ExecRecordOpen, TypeOK, TypeExec, ExecThread
    <2> QED
      BY <1>0, <1>00, <2>1, OrderFrame DEF Unsent, RowSteps
  <1>11. CASE ExecMarkOpen
    <2>1. /\ UNCHANGED <<intent, order, position>> /\ exec.plan \in Plans
          /\ \/ exec'.pc = "idle"
             \/ exec.pc # "idle" /\ exec'.plan = exec.plan /\ exec'.pc = "count"
      BY <1>0, <1>11 DEF ExecMarkOpen
    <2>2. \A x \in Plans : Sent(x) => trade'[x].status \in Blocking
      BY <1>0, <1>11, <2>1, RowsStayBlocked DEF ExecMarkOpen, TypeOK
    <2> QED
      BY <1>0, <1>00, <2>1, <2>2, OrderFrame DEF Unsent, RowSteps
  <1>12. CASE ExecProtect
    <2>1. UNCHANGED <<intent, trade, order>> /\ exec'.pc = "idle"
      BY <1>0, <1>12 DEF ExecProtect
    <2>2. \A x \in Plans, z \in Pos : Owns(x, z)' => Owns(x, z)
      BY <1>12 DEF ExecProtect, Owns, TypeOK, TypeBroker, Position
    <2> QED
      BY <1>0, <2>1, <2>2, OrderFrame
  <1> QED
    BY <1>1, <1>2, <1>3, <1>4, <1>5, <1>6, <1>7, <1>8, <1>9, <1>10, <1>11, <1>12
    DEF ExecStep

\* No step of a reconcile pass, however stale what it read, unblocks the row of a
\* sent order or turns its intent FAILED.
LEMMA OrderReconStep ==
    ASSUME TypeOK, OrderInv, NEW r \in Reconcilers,
           ReconSnapshot(r) \/ ReconUnreadable(r) \/ ReconStep(r) \/ ReconRaises(r)
    PROVE  OrderInv'
  <1>0. /\ \A x \in Plans : Sent(x) => trade[x].status \in Blocking
        /\ \A x \in Plans : intent[x].status = "FAILED" => ~Sent(x)
        /\ \/ exec.pc = "idle"
           \/ /\ exec.pc # "idle"
              /\ exec.pc \in Unsent => ~Sent(exec.plan)
              /\ exec.pc \in RowSteps => trade[exec.plan].status \in Blocking
              /\ exec.pc = "send" => intent[exec.plan].status # "FAILED"
        /\ exec.pc # "idle" => exec.plan \in Plans
        /\ recon[r] \in ReconThread
    BY DEF OrderInv, SentBlocks, FailedUnsent, FailedMeansNoOrder, OnlySender, RowWritten,
           TypeOK, TypeExec, TypeRecon
  <1> USE DEF broker
  <1>1. CASE \/ ReconSnapshot(r) \/ ReconUnreadable(r) \/ ReconReadIntents(r)
             \/ ReconReadTrades(r) \/ ReconRecordClose(r) \/ ReconFinish(r) \/ ReconRaises(r)
    <2>1. UNCHANGED <<intent, trade, order, position, exec>>
      BY <1>1 DEF ReconSnapshot, ReconUnreadable, ReconReadIntents, ReconReadTrades,
                  ReconRecordClose, ReconFinish, ReconRaises
    <2>2. \A x \in Plans, z \in Pos : Owns(x, z)' => Owns(x, z)
      BY <2>1 DEF Owns
    <2> QED
      BY <1>0, <2>1, <2>2, OrderFrame
  <1>2. CASE ReconResolveFilled(r) \/ ReconResolveUnseen(r)
    <2>1. PICK w \in recon[r].intents :
            \E q : \/ Mark(w[1], "FILLED", FALSE, q)
                   \/ Mark(w[1], "FILLED", TRUE, q)
                   \/ Mark(w[1], "ABANDONED", FALSE, q)
      BY <1>2 DEF ReconResolveFilled, ReconResolveUnseen
    <2>2. UNCHANGED <<trade, order, position, exec>>
      BY <1>2 DEF ReconResolveFilled, ReconResolveUnseen
    <2>3. w[1] \in Plans
      BY <1>0 DEF ReconThread, IntentWork
    <2>4. \A x \in Plans : intent'[x].status = "FAILED" => intent[x].status = "FAILED"
      BY <2>1, <2>3 DEF Mark, TypeOK, TypeTables
    <2>5. \A x \in Plans, z \in Pos : Owns(x, z)' => Owns(x, z)
      BY <2>2 DEF Owns
    <2> QED
      BY <1>0, <2>2, <2>4, <2>5, OrderFrame
  <1>3. CASE ReconMarkOpen(r) \/ ReconAdopt(r) \/ ReconMarkClosed(r)
    <2>1. UNCHANGED <<intent, order, position, exec>>
      BY <1>3 DEF ReconMarkOpen, ReconAdopt, ReconMarkClosed
    <2>2. \A x \in Plans : trade[x].status \in Blocking => trade'[x].status \in Blocking
      <3>1. CASE ReconMarkOpen(r)
        <4>1. recon[r].plan \in Plans
          BY <3>1 DEF ReconMarkOpen, TypeOK, TypeRecon
        <4> QED
          BY <3>1, <4>1, RowsStayBlocked DEF ReconMarkOpen, TypeOK
      <3>2. CASE ReconAdopt(r)
        <4>1. PICK q \in recon[r].ids :
                trade' = IF RowsOf(q) # {} THEN trade
                         ELSE [trade EXCEPT ![q] = [status |-> "ORPHANED", pos |-> q]]
          BY <3>2 DEF ReconAdopt
        <4>2. q \in Pos
          BY <1>0 DEF ReconThread
        <4> QED
          BY <4>1, <4>2, IdAssumption DEF TypeOK, TypeTables, Rows
      <3>3. CASE ReconMarkClosed(r)
        <4>1. PICK q : MarkClosed(q)
          BY <3>3 DEF ReconMarkClosed
        <4> QED
          BY <4>1, RowsStayBlocked DEF TypeOK
      <3> QED
        BY <1>3, <3>1, <3>2, <3>3
    <2>3. \A x \in Plans, z \in Pos : Owns(x, z)' => Owns(x, z)
      BY <2>1 DEF Owns
    <2> QED
      BY <1>0, <2>1, <2>2, <2>3, OrderFrame
  <1>4. CASE ReconRepair(r)
    <2>1. UNCHANGED <<intent, trade, order, exec>>
      BY <1>4 DEF ReconRepair
    <2>2. \A x \in Plans, z \in Pos : Owns(x, z)' => Owns(x, z)
      BY <1>4 DEF ReconRepair, Owns, TypeOK, TypeBroker, Position
    <2> QED
      BY <1>0, <2>1, <2>2, OrderFrame
  <1> QED
    BY <1>1, <1>2, <1>3, <1>4 DEF ReconStep

\* The invariant is inductive.
LEMMA OrderNext == TypeOK /\ OrderInv /\ [Next]_vars => OrderInv'
  <1> SUFFICES ASSUME TypeOK, OrderInv, [Next]_vars PROVE OrderInv'
    OBVIOUS
  <1>0. /\ \A x \in Plans : Sent(x) => trade[x].status \in Blocking
        /\ \A x \in Plans : intent[x].status = "FAILED" => ~Sent(x)
    BY DEF OrderInv, SentBlocks, FailedUnsent, FailedMeansNoOrder
  <1>1. CASE Crash \/ ExecRaises
    <2>1. UNCHANGED <<intent, trade, order, position>> /\ exec'.pc = "idle"
      BY <1>1 DEF Crash, ExecRaises, ExecIdle, broker
    <2>2. \A x \in Plans, z \in Pos : Owns(x, z)' => Owns(x, z)
      BY <2>1 DEF Owns
    <2> QED
      BY <1>0, <2>1, <2>2, OrderFrame
  <1>2. CASE UNCHANGED vars
    <2>1. UNCHANGED <<intent, trade, order, position, exec>>
      BY <1>2 DEF vars, broker
    <2>2. \A x \in Plans, z \in Pos : Owns(x, z)' => Owns(x, z)
      BY <2>1 DEF Owns
    <2> QED
      BY <1>0, <2>1, <2>2, OrderFrame DEF OrderInv, FailedUnsent, OnlySender, RowWritten
  <1> QED
    BY <1>1, <1>2, OrderBrokerNext, OrderBegin, OrderExecStep, OrderReconStep DEF Next

\* The invariant holds of every reachable state.
THEOREM OrderInvariant == Spec => []OrderInv
  BY TypeInit, TypeNext, OrderInit, OrderNext, PTL DEF Spec

\* What the invariant says of one state.
LEMMA OrderInvImplies ==
    ASSUME TypeOK, OrderInv
    PROVE  OneOrderPerSetup /\ AbortedMeansNoOrder /\ FailedMeansNoOrder
  <1>1. OneOrderPerSetup
    <2> SUFFICES ASSUME NEW s \in Setups, NEW x \in OrdersOf(s), NEW y \in OrdersOf(s)
                 PROVE  x = y
      BY DEF OneOrderPerSetup
    <2>1. \A z \in OrdersOf(s) :
            \/ /\ z \in Plans /\ z \notin Pos /\ SetupOf[z] = s
               /\ order[z] \in {"flying", "accepted"}
            \/ /\ z \in Pos /\ z \notin Plans
               /\ \E p \in Plans : SetupOf[p] = s /\ Owns(p, z) /\ order[p] = "landed"
      BY IdAssumption DEF OrdersOf, InFlight, OrderInv, OneFillPerOrder
    <2>2. \A a, b \in Plans :
            SetupOf[a] = s /\ SetupOf[b] = s
              /\ order[a] \in {"flying", "accepted", "landed"}
              /\ order[b] \in {"flying", "accepted", "landed"} => a = b
      BY DEF OrderInv, OneSentPlan, Sent
    <2>3. \A p \in Plans, q1, q2 \in Pos : Owns(p, q1) /\ Owns(p, q2) => q1 = q2
      BY DEF OrderInv, OneFillPerOrder
    <2> QED
      BY <2>1, <2>2, <2>3
  <1>2. AbortedMeansNoOrder
    BY DEF AbortedMeansNoOrder, OrderInv, SentBlocks, Blocking
  <1>3. FailedMeansNoOrder
    BY DEF OrderInv, FailedUnsent
  <1> QED
    BY <1>1, <1>2, <1>3

\* docs/EXECUTION_ENGINE.md's invariant, for every number of plans, reconcile
\* threads and faults: no failure or interleaving makes two orders of one setup.
THEOREM OneOrder == Spec => []OneOrderPerSetup
  BY TypeCorrect, OrderInvariant, OrderInvImplies, PTL

\* A row that is ABORTED, and so frees its setup, never belongs to a sent order.
THEOREM AbortedIsClean == Spec => []AbortedMeansNoOrder
  BY TypeCorrect, OrderInvariant, OrderInvImplies, PTL

\* An intent that is FAILED, and so may be armed again, never had its order sent.
THEOREM FailedIsClean == Spec => []FailedMeansNoOrder
  BY TypeCorrect, OrderInvariant, OrderInvImplies, PTL

----------------------------------------------------------------------------
(***************************************************************************)
(* One position of the bot per instrument, but for late fills.  The live   *)
(* check reads the positions long before the fill, so what carries it over *)
(* is that nothing timely of the bot's can land in between: an order is in *)
(* flight only while execute waits for it, or it is late from then on.     *)
(***************************************************************************)

Timely(q) == OwnOpen(q) /\ position[q].owner \notin late

SymbolFree(s) == \A q \in Pos : Timely(q) => position[q].symbol # s

\* The steps of execute between the live check and the order.
Checked == {"intents", "conditions", "submit", "send"}

Waiting(p) == exec.pc \in {"await", "verify"} /\ exec.plan = p

Flying(p) == InFlight(p) /\ p \notin late

\* An order in flight is waited for, unless it is late.
Awaited == \A p \in Plans : Flying(p) => Waiting(p)

\* No timely position stands where a timely order is in flight, or is about to be.
FreeAhead ==
    /\ \A p \in Plans : Flying(p) => SymbolFree(SymbolOf[p])
    /\ exec.pc \in Checked => SymbolFree(SymbolOf[exec.plan])

OneTimely ==
    \A q1, q2 \in Pos :
        Timely(q1) /\ Timely(q2) /\ position[q1].symbol = position[q2].symbol => q1 = q2

BookInv == Awaited /\ FreeAhead /\ OneTimely

\* A reconcile pass changes nothing of a position but its stop.
LEMMA ReconPositions ==
    ASSUME TypeOK, NEW r \in Reconcilers,
           ReconSnapshot(r) \/ ReconUnreadable(r) \/ ReconStep(r) \/ ReconRaises(r)
    PROVE  \A q \in Pos : /\ position'[q].state = position[q].state
                          /\ position'[q].owner = position[q].owner
                          /\ position'[q].symbol = position[q].symbol
  <1>1. CASE ReconRepair(r)
    BY <1>1 DEF ReconRepair, TypeOK, TypeBroker, Position
  <1>2. CASE ~ReconRepair(r)
    <2>1. position' = position
      BY <1>2 DEF ReconSnapshot, ReconUnreadable, ReconStep, ReconRaises,
             ReconReadIntents, ReconResolveFilled, ReconMarkOpen, ReconResolveUnseen, ReconAdopt,
             ReconReadTrades, ReconMarkClosed, ReconRecordClose, ReconFinish, broker
    <2> QED
      BY <2>1
  <1> QED
    BY <1>1, <1>2

\* What a step owes the invariant that sends nothing and fills nothing timely.
LEMMA BookFrame ==
    ASSUME BookInv,
           \A p \in Plans : Flying(p)' => Flying(p),
           \A q \in Pos : Timely(q)' => Timely(q) /\ position'[q].symbol = position[q].symbol,
           \A p \in Plans : Flying(p)' => Waiting(p)',
           exec'.pc \in Checked => SymbolFree(SymbolOf[exec'.plan])
    PROVE  BookInv'
  <1>1. \A s : SymbolFree(s) => SymbolFree(s)'
    BY DEF SymbolFree
  <1>2. Awaited'
    BY DEF Awaited
  <1>3. FreeAhead'
    BY <1>1 DEF BookInv, FreeAhead
  <1>4. OneTimely'
    BY DEF BookInv, OneTimely
  <1> QED
    BY <1>2, <1>3, <1>4 DEF BookInv

\* A step that leaves the broker to itself, but for a stop.
LEMMA BookQuiet ==
    ASSUME BookInv, order' = order, late \subseteq late',
           \A q \in Pos : /\ position'[q].state = position[q].state
                          /\ position'[q].owner = position[q].owner
                          /\ position'[q].symbol = position[q].symbol,
           \A p \in Plans : Flying(p)' => Waiting(p)',
           exec'.pc \in Checked => SymbolFree(SymbolOf[exec'.plan])
    PROVE  BookInv'
  <1>1. \A p \in Plans : Flying(p)' => Flying(p)
    BY DEF Flying, InFlight
  <1>2. \A q \in Pos : Timely(q)' => Timely(q) /\ position'[q].symbol = position[q].symbol
    BY DEF Timely, OwnOpen
  <1> QED
    BY <1>1, <1>2, BookFrame

\* The same with the executor where it was.
LEMMA BookStill ==
    ASSUME BookInv, order' = order, exec' = exec, late' = late,
           \A q \in Pos : /\ position'[q].state = position[q].state
                          /\ position'[q].owner = position[q].owner
                          /\ position'[q].symbol = position[q].symbol
    PROVE  BookInv'
  <1>1. \A p \in Plans : Flying(p)' => Waiting(p)'
    BY DEF BookInv, Awaited, Waiting, Flying, InFlight
  <1>2. exec'.pc \in Checked => SymbolFree(SymbolOf[exec'.plan])
    BY DEF BookInv, FreeAhead
  <1> QED
    BY <1>1, <1>2, BookQuiet

\* Once execute has stopped waiting, nothing timely is in flight.
LEMMA NoneFlying ==
    ASSUME StopWaiting, order' = order
    PROVE  late \subseteq late' /\ \A p \in Plans : ~Flying(p)'
  BY DEF StopWaiting, Flying, InFlight

\* The fill lands where nothing timely stands, or is late itself.
LEMMA BookBroker == TypeOK /\ BookInv /\ BrokerNext => BookInv'
  <1> SUFFICES ASSUME TypeOK, BookInv, BrokerNext PROVE BookInv'
    OBVIOUS
  <1> USE DEF broker, env
  <1>0. /\ Awaited /\ FreeAhead
        /\ position \in [Pos -> Position] /\ order \in [Plans -> OrderStates]
    BY DEF BookInv, TypeOK, TypeBroker
  <1>1. ASSUME NEW p \in Plans, BrokerAccepts(p) \/ BrokerRefuses(p)
        PROVE  BookInv'
    <2>1. UNCHANGED <<position, exec, late>>
      BY <1>1 DEF BrokerAccepts, BrokerRefuses
    <2>2. \A x \in Plans : Flying(x)' => Flying(x)
      BY <1>0, <1>1, <2>1 DEF BrokerAccepts, BrokerRefuses, InFlight, Flying
    <2>3. \A x \in Plans : Flying(x)' => Waiting(x)'
      BY <1>0, <2>1, <2>2 DEF Awaited, Waiting
    <2>4. \A q \in Pos : Timely(q)' => Timely(q) /\ position'[q].symbol = position[q].symbol
      BY <2>1 DEF Timely, OwnOpen
    <2> QED
      BY <1>0, <2>1, <2>2, <2>3, <2>4, BookFrame DEF FreeAhead
  <1>2. ASSUME NEW p \in Plans, BrokerFills(p)
        PROVE  BookInv'
    <2>1. PICK q \in Pos : \E stop \in BOOLEAN :
            /\ Fresh(q)
            /\ position' = [position EXCEPT ![q] =
                  [state |-> "open", owner |-> p, symbol |-> SymbolOf[p],
                   direction |-> DirectionOf[p], stop |-> stop]]
      BY <1>2 DEF BrokerFills
    <2>2. /\ position'[q].symbol = SymbolOf[p] /\ position'[q].owner = p
          /\ \A z \in Pos \ {q} : position'[z] = position[z]
      BY <1>0, <2>1
    <2>3. UNCHANGED <<exec, late>> /\ InFlight(p)
      BY <1>2 DEF BrokerFills, InFlight
    <2>4. \A x \in Plans : Flying(x)' => Flying(x) /\ x # p
      BY <1>0, <1>2, <2>3 DEF BrokerFills, InFlight, Flying
    <2>5. CASE p \in late
      <3>1. \A z \in Pos : Timely(z)' => Timely(z) /\ position'[z].symbol = position[z].symbol
        BY <2>2, <2>3, <2>5 DEF Timely, OwnOpen
      <3>2. \A x \in Plans : Flying(x)' => Waiting(x)'
        BY <1>0, <2>3, <2>4 DEF Awaited, Waiting
      <3> QED
        BY <1>0, <2>3, <2>4, <3>1, <3>2, BookFrame DEF FreeAhead
    <2>6. CASE p \notin late
      <3>1. Flying(p)
        BY <2>3, <2>6 DEF Flying
      <3>2. Waiting(p) /\ SymbolFree(SymbolOf[p])
        BY <1>0, <3>1 DEF Awaited, FreeAhead
      <3>3. \A x \in Plans : ~Flying(x)'
        BY <1>0, <2>4, <3>2 DEF Awaited, Waiting
      <3>4. exec'.pc \notin Checked
        BY <2>3, <3>2 DEF Waiting, Checked
      <3>5. \A z \in Pos \ {q} : Timely(z)' => Timely(z) /\ position'[z].symbol = position[z].symbol
        BY <2>2, <2>3 DEF Timely, OwnOpen
      <3>6. OneTimely'
        BY <2>2, <3>2, <3>5 DEF BookInv, OneTimely, SymbolFree
      <3> QED
        BY <3>3, <3>4, <3>6 DEF BookInv, Awaited, FreeAhead
    <2> QED
      BY <2>5, <2>6
  <1>3. ASSUME (\E z \in Pos : BrokerCloses(z)) \/ ManualOpen
        PROVE  BookInv'
    <2>1. UNCHANGED <<order, exec, late>>
      BY <1>3 DEF BrokerCloses, ManualOpen
    <2>2. \A q \in Pos : OwnOpen(q)' => /\ OwnOpen(q)
                                        /\ position'[q].symbol = position[q].symbol
                                        /\ position'[q].owner = position[q].owner
      BY <1>0, <1>3 DEF BrokerCloses, ManualOpen, OwnOpen, Position
    <2>3. \A q \in Pos : Timely(q)' => Timely(q) /\ position'[q].symbol = position[q].symbol
      BY <2>1, <2>2 DEF Timely
    <2>4. \A x \in Plans : Flying(x)' <=> Flying(x)
      BY <2>1 DEF InFlight, Flying
    <2>5. \A x \in Plans : Flying(x)' => Waiting(x)'
      BY <1>0, <2>1, <2>4 DEF Awaited, Waiting
    <2> QED
      BY <1>0, <2>1, <2>3, <2>4, <2>5, BookFrame DEF FreeAhead
  <1> QED
    BY <1>1, <1>2, <1>3 DEF BrokerNext

\* Execute: nothing timely is in flight before its order, and what it leaves behind
\* in flight is late.
LEMMA BookExec ==
    ASSUME TypeOK, BookInv, ExecStep
    PROVE  BookInv'
  <1> USE DEF broker, env
  <1>0. /\ Awaited /\ FreeAhead /\ exec.pc # "idle"
        /\ exec \in ExecThread /\ exec.plan \in Plans
    <2>1. exec.pc # "idle"
      BY DEF ExecStep, ExecRefuse, ExecCreateIntent, ExecReopen, ExecCreatePending,
             ExecCheckPositions, ExecCheckIntents, ExecCheckConditions, ExecAbort, ExecSubmit,
             ExecSend, ExecAcknowledged, ExecRejected, ExecAmbiguous, ExecVerifyFinds,
             ExecVerifyGivesUp, ExecFilled, ExecMarkOpen, ExecRecordOpen, ExecProtect
    <2> QED
      BY <2>1 DEF BookInv, TypeOK, TypeExec
  <1>a. \A p \in Plans : Flying(p) => Waiting(p)
    BY <1>0 DEF Awaited
  <1>b. ASSUME NEW pc, Goto(pc)
        PROVE  exec'.pc = pc /\ exec'.plan = exec.plan
    BY <1>0, <1>b DEF Goto, ExecThread
  <1>c. ExecIdle.pc = "idle"
    BY DEF ExecIdle
  <1>d. ASSUME UNCHANGED <<order, position, late>>, \A p \in Plans : ~Flying(p),
               exec'.pc \in Checked => SymbolFree(SymbolOf[exec'.plan])
        PROVE  BookInv'
    <2>1. \A p \in Plans : ~Flying(p)'
      BY <1>d DEF Flying, InFlight
    <2> QED
      BY <1>d, <2>1, BookQuiet
  <1>1. CASE \/ ExecRefuse \/ ExecCreateIntent \/ ExecReopen \/ ExecCreatePending
             \/ ExecAbort \/ ExecFilled \/ ExecMarkOpen \/ ExecRecordOpen
    <2> USE DEF ExecRefuse, ExecCreateIntent, ExecReopen, ExecCreatePending, ExecAbort,
                ExecFilled, ExecMarkOpen, ExecRecordOpen
    <2>1. UNCHANGED <<order, position, late>> /\ \A p \in Plans : ~Flying(p)
      BY <1>1, <1>a DEF Waiting
    <2>2. exec' = ExecIdle \/ \E pc \in {"pending", "reopen", "positions", "open", "count", "protect"} :
            Goto(pc)
      BY <1>1
    <2>3. exec'.pc \notin Checked
      BY <1>b, <1>c, <2>2 DEF Checked
    <2> QED
      BY <1>d, <2>1, <2>3
  <1>2. CASE ExecCheckPositions
    <2> USE DEF ExecCheckPositions
    <2>1. UNCHANGED <<order, position, late>> /\ \A p \in Plans : ~Flying(p)
      BY <1>2, <1>a DEF Waiting
    <2>2. CASE Fail(exec.plan)
      BY <1>b, <1>d, <2>1, <2>2 DEF Fail, Checked
    <2>3. CASE /\ \A q \in OpenPositions : position[q].symbol # SymbolOf[exec.plan]
               /\ Goto("intents")
      <3>1. SymbolFree(SymbolOf[exec.plan]) /\ exec'.plan = exec.plan
        BY <1>b, <2>3 DEF SymbolFree, Timely, OwnOpen, OpenPositions
      <3> QED
        BY <1>d, <2>1, <3>1
    <2> QED
      BY <1>2, <2>2, <2>3
  <1>3. CASE ExecCheckIntents \/ ExecCheckConditions \/ ExecSubmit
    <2> USE DEF ExecCheckIntents, ExecCheckConditions, ExecSubmit
    <2>1. UNCHANGED <<order, position, late>> /\ \A p \in Plans : ~Flying(p)
      BY <1>3, <1>a DEF Waiting
    <2>2. exec.pc \in Checked /\ exec'.plan = exec.plan
      BY <1>3, <1>b DEF Checked, Fail
    <2> QED
      BY <1>0, <1>d, <2>1, <2>2 DEF FreeAhead
  <1>4. CASE ExecSend
    <2>1. /\ exec.pc = "send" /\ exec'.pc = "await" /\ exec'.plan = exec.plan
          /\ UNCHANGED <<position, late>>
      BY <1>4, <1>b DEF ExecSend
    <2>2. \A p \in Plans : Flying(p)' => p = exec.plan
      <3>1. \A p \in Plans : ~Flying(p)
        BY <1>a, <2>1 DEF Waiting
      <3> QED
        BY <1>0, <1>4, <2>1, <3>1 DEF ExecSend, InFlight, Flying, TypeOK, TypeBroker
    <2>3. SymbolFree(SymbolOf[exec.plan])'
      BY <1>0, <2>1 DEF FreeAhead, Checked, SymbolFree, Timely, OwnOpen
    <2>4. Awaited'
      BY <2>1, <2>2 DEF Awaited, Waiting
    <2>5. FreeAhead'
      BY <2>1, <2>2, <2>3 DEF FreeAhead, Checked
    <2>6. OneTimely'
      BY <2>1 DEF BookInv, OneTimely, Timely, OwnOpen
    <2> QED
      BY <2>4, <2>5, <2>6 DEF BookInv
  <1>5. CASE ExecAcknowledged
    <2>1. /\ UNCHANGED <<order, position, late>> /\ exec'.pc = "verify"
          /\ exec'.plan = exec.plan
      BY <1>5, <1>b DEF ExecAcknowledged
    <2>2. \A p \in Plans : Flying(p)' => Waiting(p)'
      BY <1>a, <2>1 DEF Waiting, Flying, InFlight
    <2> QED
      BY <2>1, <2>2, BookQuiet DEF Checked
  <1>6. CASE ExecRejected
    <2>1. UNCHANGED <<order, position, late>> /\ \A p \in Plans : ~Flying(p)
      BY <1>6, <1>a DEF ExecRejected, Waiting, Flying, InFlight
    <2>2. exec'.pc = "abort"
      BY <1>6, <1>b DEF ExecRejected, Fail
    <2> QED
      BY <1>d, <2>1, <2>2 DEF Checked
  <1>7. CASE ExecAmbiguous \/ ExecVerifyFinds \/ ExecVerifyGivesUp
    <2> USE DEF ExecAmbiguous, ExecVerifyFinds, ExecVerifyGivesUp
    <2>1. UNCHANGED <<order, position>> /\ StopWaiting
      BY <1>7
    <2>2. exec' = ExecIdle \/ exec'.pc = "filled"
      BY <1>0, <1>7 DEF ExecThread
    <2>3. exec'.pc \notin Checked
      BY <1>c, <2>2 DEF Checked
    <2> QED
      BY <2>1, <2>3, NoneFlying, BookQuiet
  <1>8. CASE ExecProtect
    <2>1. UNCHANGED <<order, late>> /\ exec'.pc = "idle" /\ \A p \in Plans : ~Flying(p)
      BY <1>8, <1>a, <1>c DEF ExecProtect, Waiting
    <2>2. \A q \in Pos : /\ position'[q].state = position[q].state
                         /\ position'[q].owner = position[q].owner
                         /\ position'[q].symbol = position[q].symbol
      BY <1>8 DEF ExecProtect, TypeOK, TypeBroker, Position
    <2>3. \A p \in Plans : ~Flying(p)'
      BY <2>1 DEF Flying, InFlight
    <2> QED
      BY <2>1, <2>2, <2>3, BookQuiet DEF Checked
  <1> QED
    BY <1>1, <1>2, <1>3, <1>4, <1>5, <1>6, <1>7, <1>8 DEF ExecStep

\* Everything else: a pass touches neither orders nor positions, and a crash or an
\* exception makes what is in flight late.
LEMMA BookNext ==
    ASSUME TypeOK, BookInv, [Next]_vars
    PROVE  BookInv'
  <1> USE DEF broker, env
  <1>0. Awaited /\ FreeAhead
    BY DEF BookInv
  <1>1. ASSUME NEW p \in Plans, ExecBegin(p)
        PROVE  BookInv'
    <2>1. /\ exec.pc = "idle" /\ exec'.pc = "persist"
          /\ UNCHANGED <<order, position, late>>
      BY <1>1 DEF ExecBegin, ExecIdle
    <2>2. \A x \in Plans : ~Flying(x)'
      BY <1>0, <2>1 DEF Awaited, Waiting, Flying, InFlight
    <2> QED
      BY <2>1, <2>2, BookQuiet DEF Checked
  <1>2. ASSUME Crash \/ ExecRaises
        PROVE  BookInv'
    <2>1. UNCHANGED <<order, position>> /\ exec'.pc = "idle" /\ StopWaiting
      BY <1>2 DEF Crash, ExecRaises, ExecIdle
    <2> QED
      BY <2>1, NoneFlying, BookQuiet DEF Checked
  <1>3. ASSUME NEW r \in Reconcilers,
               ReconSnapshot(r) \/ ReconUnreadable(r) \/ ReconStep(r) \/ ReconRaises(r)
        PROVE  BookInv'
    <2>1. \A q \in Pos : /\ position'[q].state = position[q].state
                         /\ position'[q].owner = position[q].owner
                         /\ position'[q].symbol = position[q].symbol
      BY <1>3, ReconPositions
    <2>2. UNCHANGED <<order, exec, late>>
      BY <1>3 DEF ReconSnapshot, ReconUnreadable, ReconStep, ReconRaises,
             ReconReadIntents, ReconResolveFilled, ReconMarkOpen, ReconResolveUnseen, ReconAdopt,
             ReconReadTrades, ReconMarkClosed, ReconRecordClose, ReconRepair, ReconFinish
    <2> QED
      BY <2>1, <2>2, BookStill
  <1>4. CASE UNCHANGED vars
    BY <1>4, BookStill DEF vars
  <1> QED
    BY <1>1, <1>2, <1>3, <1>4, BookBroker, BookExec DEF Next

\* The bot holds two positions of its own on one instrument only when the broker
\* filled one of the two orders after execute had stopped waiting for it, for any
\* number of plans, reconcile threads, crashes and positions of the account owner's.
THEOREM OneBotPosition == Spec => []SecondOnlyByLateFill
  <1>1. Init => BookInv
    BY DEF Init, BookInv, Awaited, FreeAhead, OneTimely, Timely, OwnOpen, Flying,
           InFlight, Checked, ExecIdle, Unused
  <1>2. TypeOK /\ BookInv /\ [Next]_vars => BookInv'
    BY BookNext
  <1>3. BookInv => SecondOnlyByLateFill
    BY DEF BookInv, OneTimely, Timely, SecondOnlyByLateFill
  <1> QED
    BY <1>1, <1>2, <1>3, TypeInit, TypeNext, PTL DEF Spec

=============================================================================
