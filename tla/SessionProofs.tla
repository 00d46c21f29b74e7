--------------------------- MODULE SessionProofs ---------------------------
(***************************************************************************)
(* Proofs about Session, for any number of threads, endpoint shapes and    *)
(* faults.                                                                 *)
(***************************************************************************)
EXTENDS Session, TLAPS

Positions == 1..Len(Shapes)

SessionType == [token : Tokens, refresh : Tokens, fresh : BOOLEAN,
                account : BOOLEAN, config : BOOLEAN]

Thread == [pc : Labels, job : {"none", "config", "history", "write"},
           shape : {NULL} \cup Positions, probing : BOOLEAN, again : BOOLEAN, raced : BOOLEAN]

Typed ==
    /\ session \in SessionType /\ strategy \in {NULL} \cup Positions
    /\ th \in [Threads -> Thread] /\ faults \in 0..MaxFaults

\* A thread that looks for history always has a shape in hand.
Shaped == \A t \in Threads : th[t].job = "history" => th[t].shape \in Positions

IInv == Typed /\ Shaped /\ OnlyARaceHurts

LEMMA Facts ==
    /\ 1 \in Positions
    /\ \A i \in Positions : i + 1 > Len(Shapes) \/ i + 1 \in Positions
    /\ Idle \in Thread /\ Idle.pc = "idle" /\ Idle.job = "none"
  BY SessionAssumption DEF Positions, Idle, Thread, Labels

LEMMA InitIInv == Init => IInv
  <1> SUFFICES ASSUME Init PROVE IInv
    OBVIOUS
  <1>1. Typed
    BY Facts, SessionAssumption DEF Init, Typed, SessionType, LoggedOut, Tokens
  <1>2. Shaped /\ OnlyARaceHurts
    BY DEF Init, Shaped, OnlyARaceHurts, Idle
  <1> QED
    BY <1>1, <1>2 DEF IInv

\* A step of thread t that leaves what the session already knew in place keeps the
\* invariant, when t itself does not look further than the session goes.
LEMMA Step ==
    ASSUME IInv, NEW t \in Threads, NEW x \in Thread, th' = [th EXCEPT ![t] = x],
           session' \in SessionType, strategy' \in {NULL} \cup Positions,
           faults' \in 0..MaxFaults,
           session.account => session'.account, session.config => session'.config,
           x.job = "history" => x.shape \in Positions,
           x.pc = "send" /\ ~session'.account => x.raced,
           x.pc = "give" /\ ~session'.config => x.raced
    PROVE  IInv'
  <1>1. Typed'
    BY DEF IInv, Typed
  <1>2. Shaped'
    BY DEF IInv, Typed, Shaped
  <1>3. OnlyARaceHurts'
    BY DEF IInv, Typed, OnlyARaceHurts
  <1> QED
    BY <1>1, <1>2, <1>3 DEF IInv

\* A step that changes the thread alone.
LEMMA ThreadStep ==
    ASSUME IInv, NEW t \in Threads, NEW x \in Thread, th' = [th EXCEPT ![t] = x],
           UNCHANGED <<session, strategy>>, faults' \in 0..MaxFaults,
           x.job = "history" => x.shape \in Positions,
           x.pc = "send" => session.account \/ x.raced,
           x.pc = "give" => session.config \/ x.raced
    PROVE  IInv'
  <1>1. session' \in SessionType /\ strategy' \in {NULL} \cup Positions
    BY DEF IInv, Typed
  <1> QED
    BY <1>1, Step

LEMMA EndStep ==
    ASSUME IInv, NEW t \in Threads, End(t), session' = session,
           strategy' \in {NULL} \cup Positions, faults' \in 0..MaxFaults
    PROVE  IInv'
  <1>1. session' \in SessionType
    BY DEF IInv, Typed
  <1>2. th' = [th EXCEPT ![t] = Idle]
    BY DEF End
  <1> QED
    BY <1>1, <1>2, Facts, Step

\* A move to a place where nothing is taken for granted.
LEMMA ToStep ==
    ASSUME IInv, NEW t \in Threads, NEW p \in Labels \ {"send", "give"}, To(t, p),
           session' \in SessionType, strategy' \in {NULL} \cup Positions,
           faults' \in 0..MaxFaults,
           session.account => session'.account, session.config => session'.config
    PROVE  IInv'
  <1> DEFINE x == [th[t] EXCEPT !.pc = p]
  <1>1. th[t] \in Thread /\ (th[t].job = "history" => th[t].shape \in Positions)
    BY DEF IInv, Typed, Shaped
  <1>2. x \in Thread /\ x.pc = p /\ x.job = th[t].job /\ x.shape = th[t].shape
    BY <1>1 DEF Thread
  <1>3. th' = [th EXCEPT ![t] = x]
    BY DEF To
  <1> HIDE DEF x
  <1> QED
    BY <1>1, <1>2, <1>3, Step

LEMMA StillTyped ==
    ASSUME IInv
    PROVE  /\ session \in SessionType /\ strategy \in {NULL} \cup Positions
           /\ faults \in 0..MaxFaults /\ \A t \in Threads : th[t] \in Thread
           /\ \A t \in Threads : th[t].job = "history" => th[t].shape \in Positions
  BY DEF IInv, Typed, Shaped

LEMMA FaultTyped ==
    ASSUME IInv, faults' = faults \/ Fault
    PROVE  faults' \in 0..MaxFaults
  BY SessionAssumption, StillTyped DEF Fault

LEMMA BeginKeeps ==
    ASSUME IInv, NEW t \in Threads, Begin(t)
    PROVE  IInv'
  <1>1. ASSUME BeginConfig(t)
        PROVE  IInv'
    <2> DEFINE x == [Idle EXCEPT !.job = "config",
                                 !.pc = IF session.config THEN "give" ELSE "ensure"]
    <2>1. /\ x \in Thread /\ x.job = "config" /\ x.pc \in {"give", "ensure"}
          /\ x.pc = "give" => session.config
      BY DEF Idle, Thread, Labels
    <2>2. th' = [th EXCEPT ![t] = x] /\ UNCHANGED <<session, strategy, faults>>
      BY <1>1 DEF BeginConfig
    <2> HIDE DEF x
    <2> QED
      BY <2>1, <2>2, StillTyped, ThreadStep
  <1>2. ASSUME BeginHistory(t)
        PROVE  IInv'
    <2> DEFINE x == [Idle EXCEPT !.job = "history", !.pc = "ensure",
                                 !.shape = IF strategy = NULL THEN 1 ELSE strategy,
                                 !.probing = strategy = NULL]
    <2>1. x \in Thread /\ x.job = "history" /\ x.pc = "ensure" /\ x.shape \in Positions
      BY Facts, StillTyped DEF Idle, Thread, Labels
    <2>2. th' = [th EXCEPT ![t] = x] /\ UNCHANGED <<session, strategy, faults>>
      BY <1>2 DEF BeginHistory
    <2> HIDE DEF x
    <2> QED
      BY <2>1, <2>2, StillTyped, ThreadStep
  <1>3. ASSUME BeginWrite(t)
        PROVE  IInv'
    <2> DEFINE x == [Idle EXCEPT !.job = "write", !.pc = "ensure"]
    <2>1. x \in Thread /\ x.job = "write" /\ x.pc = "ensure"
      BY DEF Idle, Thread, Labels
    <2>2. th' = [th EXCEPT ![t] = x] /\ UNCHANGED <<session, strategy, faults>>
      BY <1>3 DEF BeginWrite
    <2> HIDE DEF x
    <2> QED
      BY <2>1, <2>2, StillTyped, ThreadStep
  <1> QED
    BY <1>1, <1>2, <1>3 DEF Begin

\* A login takes the account number and the trade config from every other thread,
\* and whoever is past the look is marked as having lost a race.
LEMMA LoginKeeps ==
    ASSUME IInv, NEW t \in Threads, LoginAnswered(t)
    PROVE  IInv'
  <1>1. session' \in SessionType /\ strategy' = strategy /\ faults' = faults
    BY DEF LoginAnswered, SessionType, Tokens
  <1>2. /\ [th[t] EXCEPT !.pc = AfterLogin(t)] \in Thread
        /\ [th[t] EXCEPT !.pc = AfterLogin(t)].job = th[t].job
        /\ [th[t] EXCEPT !.pc = AfterLogin(t)].shape = th[t].shape
        /\ [th[t] EXCEPT !.pc = AfterLogin(t)].pc \in {"resolve", "account"}
    BY StillTyped DEF Thread, AfterLogin, Labels
  <1>3. \A u \in Threads \ {t} :
            /\ th'[u] = [th[u] EXCEPT !.raced = @ \/ th[u].pc \in {"send", "give"}]
            /\ th'[u] \in Thread /\ th'[u].job = th[u].job /\ th'[u].shape = th[u].shape
            /\ th'[u].pc = th[u].pc
    <2> SUFFICES ASSUME NEW u \in Threads \ {t}
                 PROVE  /\ th'[u] = [th[u] EXCEPT !.raced = @ \/ th[u].pc \in {"send", "give"}]
                        /\ th'[u] \in Thread /\ th'[u].job = th[u].job
                        /\ th'[u].shape = th[u].shape /\ th'[u].pc = th[u].pc
      OBVIOUS
    <2>1. th'[u] = [th[u] EXCEPT !.raced = @ \/ th[u].pc \in {"send", "give"}]
      BY DEF LoginAnswered
    <2>2. th[u] \in Thread
      BY StillTyped
    <2> QED
      BY <2>1, <2>2 DEF Thread
  <1>4. \A u \in Threads \ {t} : th[u].pc \in {"send", "give"} => th'[u].raced
    BY <1>3, StillTyped DEF Thread
  <1>5. th'[t] = [th[t] EXCEPT !.pc = AfterLogin(t)]
    BY DEF LoginAnswered
  <1>6. th' \in [Threads -> Thread]
    <2>1. th' = [u \in Threads |-> th'[u]]
      BY DEF LoginAnswered
    <2>2. \A u \in Threads : th'[u] \in Thread
      BY <1>2, <1>3, <1>5
    <2> QED
      BY <2>1, <2>2
  <1>7. Typed'
    BY <1>1, <1>6, StillTyped DEF Typed
  <1>8. Shaped'
    BY <1>2, <1>3, <1>5, StillTyped DEF Shaped
  <1>9. OnlyARaceHurts'
    BY <1>2, <1>3, <1>4, <1>5 DEF OnlyARaceHurts
  <1> QED
    BY <1>7, <1>8, <1>9 DEF IInv

LEMMA SessionStepKeeps ==
    ASSUME IInv, NEW t \in Threads, SessionStep(t)
    PROVE  IInv'
  <1>1. ASSUME Ensure(t)
        PROVE  IInv'
    <2>1. PICK p \in {"login", "account", "refresh"} : To(t, p)
      BY <1>1 DEF Ensure
    <2>2. p \in Labels \ {"send", "give"}
      BY DEF Labels
    <2> QED
      BY <1>1, <2>1, <2>2, ToStep, StillTyped DEF Ensure
  <1>2. ASSUME RefreshAnswered(t)
        PROVE  IInv'
    <2>1. /\ session' \in SessionType
          /\ session'.account = session.account /\ session'.config = session.config
      BY <1>2, StillTyped DEF RefreshAnswered, SessionType, Tokens
    <2> QED
      BY <1>2, <2>1, ToStep, StillTyped DEF RefreshAnswered, Labels
  <1>3. ASSUME RefreshFails(t)
        PROVE  IInv'
    <2>1. faults' \in 0..MaxFaults
      BY <1>3, FaultTyped DEF RefreshFails
    <2> QED
      BY <1>3, <2>1, ToStep, StillTyped DEF RefreshFails, Labels
  <1>4. ASSUME Account(t)
        PROVE  IInv'
    <2> DEFINE x == [th[t] EXCEPT !.pc = IF session.account THEN "send" ELSE "resolve",
                                  !.raced = FALSE]
    <2>1. /\ x \in Thread /\ x.pc \in {"send", "resolve"}
          /\ x.pc = "send" => session.account
          /\ x.job = th[t].job /\ x.shape = th[t].shape
      BY StillTyped DEF Thread, Labels
    <2>2. th' = [th EXCEPT ![t] = x] /\ UNCHANGED <<session, strategy, faults>>
      BY <1>4 DEF Account
    <2> HIDE DEF x
    <2> QED
      BY <2>1, <2>2, StillTyped, ThreadStep
  <1>5. ASSUME ResolveAnswered(t)
        PROVE  IInv'
    <2> DEFINE x == [th[t] EXCEPT !.pc = "send", !.raced = FALSE]
    <2>1. x \in Thread /\ x.pc = "send" /\ x.job = th[t].job /\ x.shape = th[t].shape
      BY StillTyped DEF Thread, Labels
    <2>2. th' = [th EXCEPT ![t] = x] /\ UNCHANGED <<strategy, faults>>
      BY <1>5 DEF ResolveAnswered
    <2>3. session' \in SessionType /\ session'.account /\ session'.config = session.config
      BY <1>5, StillTyped DEF ResolveAnswered, SessionType
    <2> HIDE DEF x
    <2> QED
      BY <2>1, <2>2, <2>3, StillTyped, Step
  <1>6. ASSUME ResolveUnauthorised(t)
        PROVE  IInv'
    BY <1>6, EndStep, StillTyped DEF ResolveUnauthorised
  <1>7. ASSUME RefreshLost(t)
        PROVE  IInv'
    <2>1. faults' \in 0..MaxFaults
      BY <1>7, FaultTyped DEF RefreshLost
    <2> QED
      BY <1>7, <2>1, EndStep, StillTyped DEF RefreshLost
  <1> QED
    BY <1>1, <1>2, <1>3, <1>4, <1>5, <1>6, <1>7, LoginKeeps DEF SessionStep

\* _discover goes on with a shape that exists, or is through.
LEMMA ProbeKeeps ==
    ASSUME IInv, NEW t \in Threads, NEW i, i \in Positions \/ i > Len(Shapes),
           ProbeFrom(t, i), session' = session, strategy' \in {NULL} \cup Positions,
           faults' = faults
    PROVE  IInv'
  <1> DEFINE x == [th[t] EXCEPT !.pc = "ensure", !.shape = i, !.probing = TRUE, !.again = FALSE]
  <1>1. CASE i > Len(Shapes)
    BY <1>1, EndStep, StillTyped DEF ProbeFrom
  <1>2. CASE i \in Positions /\ ~(i > Len(Shapes))
    <2>1. x \in Thread /\ x.pc = "ensure" /\ x.shape \in Positions
      BY <1>2, StillTyped DEF Thread, Labels
    <2>2. th' = [th EXCEPT ![t] = x]
      BY <1>2 DEF ProbeFrom
    <2> HIDE DEF x
    <2> QED
      BY <2>1, <2>2, StillTyped, Step
  <1> QED
    BY <1>1, <1>2

LEMMA SendStepKeeps ==
    ASSUME IInv, NEW t \in Threads, SendStep(t)
    PROVE  IInv'
  <1>1. ASSUME SendUnauthorised(t)
        PROVE  IInv'
    <2> DEFINE x == [th[t] EXCEPT !.pc = "login", !.again = TRUE]
    <2>1. x \in Thread /\ x.pc = "login" /\ x.job = th[t].job /\ x.shape = th[t].shape
      BY StillTyped DEF Thread, Labels
    <2>2. UNCHANGED <<session, strategy, faults>> /\ (End(t) \/ th' = [th EXCEPT ![t] = x])
      BY <1>1 DEF SendUnauthorised
    <2> HIDE DEF x
    <2> QED
      BY <2>1, <2>2, StillTyped, ThreadStep, EndStep
  <1>2. ASSUME SendOther(t)
        PROVE  IInv'
    <2> DEFINE x == [th[t] EXCEPT !.pc = "give", !.raced = FALSE]
    <2>1. CASE End(t) /\ UNCHANGED session
      BY <1>2, <2>1, EndStep, StillTyped DEF SendOther
    <2>2. CASE session' = [session EXCEPT !.config = TRUE] /\ th' = [th EXCEPT ![t] = x]
      <3>1. x \in Thread /\ x.pc = "give" /\ x.job = th[t].job /\ x.shape = th[t].shape
        BY StillTyped DEF Thread, Labels
      <3>2. session' \in SessionType /\ session'.config /\ session'.account = session.account
        BY <2>2, StillTyped DEF SessionType
      <3>3. UNCHANGED <<strategy, faults>> /\ th' = [th EXCEPT ![t] = x]
        BY <1>2, <2>2 DEF SendOther
      <3> HIDE DEF x
      <3> QED
        BY <3>1, <3>2, <3>3, StillTyped, Step
    <2> QED
      BY <1>2, <2>1, <2>2 DEF SendOther
  <1>3. ASSUME Lost(t) \/ Give(t)
        PROVE  IInv'
    <2>1. faults' \in 0..MaxFaults
      BY <1>3, FaultTyped DEF Lost, Give
    <2> QED
      BY <1>3, <2>1, EndStep, StillTyped DEF Lost, Give
  <1>4. ASSUME HistoryRows(t)
        PROVE  IInv'
    <2>1. "pin" \in Labels \ {"send", "give"}
      BY DEF Labels
    <2> QED
      BY <1>4, <2>1, ToStep, EndStep, StillTyped DEF HistoryRows
  <1>5. ASSUME Pin(t)
        PROVE  IInv'
    <2>1. strategy' \in {NULL} \cup Positions
      BY <1>5, StillTyped DEF Pin, Thread
    <2> QED
      BY <1>5, <2>1, EndStep, StillTyped DEF Pin
  <1>6. ASSUME HistoryEmpty(t)
        PROVE  IInv'
    <2>1. th[t].shape \in Positions
      BY <1>6, StillTyped DEF HistoryEmpty
    <2> QED
      BY <1>6, <2>1, Facts, ProbeKeeps, StillTyped DEF HistoryEmpty
  <1>7. ASSUME HistoryRejected(t)
        PROVE  IInv'
    <2>1. th[t].shape \in Positions
      BY <1>7, StillTyped DEF HistoryRejected
    <2> QED
      BY <1>7, <2>1, Facts, ProbeKeeps, EndStep, StillTyped DEF HistoryRejected
  <1> QED
    BY <1>1, <1>2, <1>3, <1>4, <1>5, <1>6, <1>7 DEF SendStep

LEMMA WorldKeeps ==
    ASSUME IInv, Revoke \/ Expire \/ Upgrade \/ UNCHANGED vars
    PROVE  IInv'
  <1>1. /\ session' \in SessionType
        /\ session'.account = session.account /\ session'.config = session.config
    BY StillTyped DEF Revoke, Expire, Upgrade, Dead, SessionType, Tokens, vars
  <1>2. th' = th /\ strategy' = strategy
    BY DEF Revoke, Expire, Upgrade, vars
  <1>3. faults' \in 0..MaxFaults
    BY FaultTyped DEF Revoke, Expire, Upgrade, vars
  <1>4. Typed' /\ Shaped'
    BY <1>1, <1>2, <1>3 DEF IInv, Typed, Shaped
  <1>5. OnlyARaceHurts'
    BY <1>1, <1>2 DEF IInv, OnlyARaceHurts
  <1> QED
    BY <1>4, <1>5 DEF IInv

LEMMA Inductive == Spec => []IInv
  <1>1. Init => IInv
    BY InitIInv
  <1>2. IInv /\ [Next]_vars => IInv'
    BY BeginKeeps, SessionStepKeeps, SendStepKeeps, WorldKeeps DEF Next
  <1> QED
    BY <1>1, <1>2, PTL DEF Spec

\* The session, the learned shape and the threads keep their types: the probe never
\* runs past the last shape, and what is remembered is a shape.
THEOREM SessionTypes == Spec => []TypeOK
  <1>1. IInv => TypeOK
    BY DEF IInv, Typed, TypeOK, SessionType, Thread, Positions
  <1> QED
    BY <1>1, Inductive, PTL

\* With any number of threads sharing the session, a request leaves without its
\* account number, and trade_config returns None, only to a thread that another
\* thread's login overtook between its look and its use.
THEOREM OnlyRacesHurt == Spec => []OnlyARaceHurts
  <1>1. IInv => OnlyARaceHurts
    BY DEF IInv
  <1> QED
    BY <1>1, Inductive, PTL

=============================================================================
