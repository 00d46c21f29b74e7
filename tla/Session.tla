------------------------------- MODULE Session -------------------------------
(***************************************************************************)
(* How a request reaches the broker: the session of                        *)
(* bot/broker/tradelocker.py (login, refresh, the account number, the      *)
(* cached trade config, one re-login for a read) and, above it, the        *)
(* discovery of the history endpoint in bot/broker/history.py.             *)
(*                                                                         *)
(* The scan and the position poll share both.  Each attribute is written   *)
(* under the lock and read outside it, one at a time: every read that      *)
(* decides something is a step.  The requests are those of Transport; here *)
(* one is answered, refused or lost.                                       *)
(***************************************************************************)
EXTENDS Integers, Sequences

CONSTANTS
    Threads,
    Scanner,      \* the thread whose every round reads history
    Shapes,       \* STRATEGIES: the endpoint shapes, in the order they are tried
    NULL,
    MaxFaults     \* bound: tokens the broker revokes, endpoints it changes and
                  \* requests that are lost

ASSUME SessionAssumption ==
    /\ Scanner \in Threads
    /\ Len(Shapes) \in Nat \ {0}
    /\ MaxFaults \in Nat

VARIABLES
    session,   \* _access_token, _refresh_token, now < _expires_at, _acc_num # None,
               \* _trade_config # None
    strategy,  \* HistoryFetcher._strategy: a position in Shapes, or NULL
    server,    \* the shape the broker serves, and how it answers the others
    th,        \* the threads
    faults     \* revoked tokens, changed endpoints and lost requests so far

vars == <<session, strategy, server, th, faults>>

Tokens == {NULL, "good", "dead"}

LoggedOut == [token |-> NULL, refresh |-> NULL, fresh |-> FALSE,
              account |-> FALSE, config |-> FALSE]

Idle == [pc |-> "idle", job |-> "none", shape |-> NULL, probing |-> FALSE,
         again |-> FALSE, raced |-> FALSE]

To(t, pc) == th' = [th EXCEPT ![t].pc = pc]

\* The job is over, with an answer or with an exception.
End(t) == th' = [th EXCEPT ![t] = Idle]

Fault == faults < MaxFaults /\ faults' = faults + 1

----------------------------------------------------------------------------
(* The jobs: trade_config, HistoryFetcher.fetch, a write.                  *)

\* trade_config looks for the cached one.
BeginConfig(t) ==
    /\ th[t].pc = "idle" /\ t # Scanner
    /\ th' = [th EXCEPT ![t] = [Idle EXCEPT !.job = "config",
                                            !.pc = IF session.config THEN "give" ELSE "ensure"]]
    /\ UNCHANGED <<session, strategy, server, faults>>

\* fetch uses the shape it knows, or probes from the first.
BeginHistory(t) ==
    /\ th[t].pc = "idle"
    /\ th' = [th EXCEPT ![t] = [Idle EXCEPT !.job = "history", !.pc = "ensure",
                                    !.shape = IF strategy = NULL THEN 1 ELSE strategy,
                                    !.probing = strategy = NULL]]
    /\ UNCHANGED <<session, strategy, server, faults>>

BeginWrite(t) ==
    /\ th[t].pc = "idle" /\ t # Scanner
    /\ th' = [th EXCEPT ![t] = [Idle EXCEPT !.job = "write", !.pc = "ensure"]]
    /\ UNCHANGED <<session, strategy, server, faults>>

\* trade_config returns the attribute, read once more.
Give(t) ==
    /\ th[t].pc = "give"
    /\ End(t)
    /\ UNCHANGED <<session, strategy, server, faults>>

----------------------------------------------------------------------------
(* ensure_session, login, _try_refresh, _resolve_account.                  *)

\* Mutant: the expiry is not looked at.
EnsureUnexpired(t) ==
    /\ th[t].pc = "ensure"
    /\ To(t, IF session.token = NULL THEN "login" ELSE "account")
    /\ UNCHANGED <<session, strategy, server, faults>>

\* ensure_session under the lock: is there a token, has it expired?
Ensure(t) ==
    /\ th[t].pc = "ensure"
    /\ To(t, IF session.token = NULL THEN "login"
             ELSE IF session.fresh THEN "account"
             ELSE IF session.refresh = NULL THEN "login" ELSE "refresh")
    /\ UNCHANGED <<session, strategy, server, faults>>

\* _try_refresh: a new token.  From an answer to its assignments no step of
\* another thread can tell the difference.
RefreshAnswered(t) ==
    /\ th[t].pc = "refresh"
    /\ session.refresh = "good"
    /\ session' = [session EXCEPT !.token = "good", !.fresh = TRUE]
    /\ To(t, "account")
    /\ UNCHANGED <<strategy, server, faults>>

\* A BrokerError (the token is refused, or the transport sheds the call: circuit
\* open, rate limited) goes on to the login.
RefreshFails(t) ==
    /\ th[t].pc = "refresh"
    /\ (session.refresh = "dead" /\ UNCHANGED faults) \/ Fault
    /\ To(t, "login")
    /\ UNCHANGED <<session, strategy, server>>

\* The refresh is a POST: an answer that is lost, unparseable or 5xx is an
\* AmbiguousExecution, no BrokerError, and leaves ensure_session without a login.
RefreshLost(t) ==
    /\ th[t].pc = "refresh"
    /\ Fault
    /\ End(t)
    /\ UNCHANGED <<session, strategy, server>>

\* Mutant: the second login of a read does not resolve the account again.
AfterLoginResend(t) == IF th[t].again THEN "send" ELSE "account"

\* After a login, ensure_session asks whether the account is known, and get
\* resolves it in any case.
AfterLogin(t) == IF th[t].again THEN "resolve" ELSE "account"

\* login clears what belonged to the old session, for every thread.
LoginAnswered(t) ==
    /\ th[t].pc = "login"
    /\ session' = [token |-> "good", refresh |-> "good", fresh |-> TRUE,
                   account |-> FALSE, config |-> FALSE]
    /\ th' = [u \in Threads |->
                IF u = t THEN [th[t] EXCEPT !.pc = AfterLogin(t)]
                ELSE [th[u] EXCEPT !.raced = @ \/ th[u].pc \in {"send", "give"}]]
    /\ UNCHANGED <<strategy, server, faults>>

\* ensure_session, outside the lock: is the account number known?
Account(t) ==
    /\ th[t].pc = "account"
    /\ th' = [th EXCEPT ![t].pc = IF session.account THEN "send" ELSE "resolve",
                        ![t].raced = FALSE]
    /\ UNCHANGED <<session, strategy, server, faults>>

ResolveAnswered(t) ==
    /\ th[t].pc = "resolve"
    /\ session.token = "good"
    /\ session' = [session EXCEPT !.account = TRUE]
    /\ th' = [th EXCEPT ![t].pc = "send", ![t].raced = FALSE]
    /\ UNCHANGED <<strategy, server, faults>>

\* The account list is refused, for the broker no longer accepts the token; it is
\* not replaced here.
ResolveUnauthorised(t) ==
    /\ th[t].pc = "resolve" /\ session.token = "dead"
    /\ End(t)
    /\ UNCHANGED <<session, strategy, server, faults>>

----------------------------------------------------------------------------
(* get, write, and what HistoryFetcher makes of the answer.                *)

\* The request leaves with the token and the account number of this moment.
Authentic == session.token = "good" /\ session.account

\* BrokerAuthError (a request without its account may be answered so too): a
\* read logs in once and is sent again, a write is not.
SendUnauthorised(t) ==
    /\ th[t].pc = "send" /\ ~Authentic
    /\ IF th[t].job = "write" \/ th[t].again THEN End(t)
       ELSE th' = [th EXCEPT ![t].pc = "login", ![t].again = TRUE]
    /\ UNCHANGED <<session, strategy, server, faults>>

\* A request that gets no answer the job can use (the transport's retries are
\* over): any other BrokerError, or for the login, a POST, an AmbiguousExecution.
Lost(t) ==
    /\ th[t].pc \in {"login", "resolve", "send"}
    /\ Fault
    /\ End(t)
    /\ UNCHANGED <<session, strategy, server>>

SendOther(t) ==
    /\ th[t].pc = "send" /\ Authentic
    /\ th[t].job \in {"config", "write"}
    /\ IF th[t].job = "write" THEN End(t) /\ UNCHANGED session
       ELSE /\ session' = [session EXCEPT !.config = TRUE]
            /\ th' = [th EXCEPT ![t].pc = "give", ![t].raced = FALSE]
    /\ UNCHANGED <<strategy, server, faults>>

\* Mutant: the probe does not stop after the last shape.
ProbeFromBeyond(t, i) ==
    th' = [th EXCEPT ![t].pc = "ensure", ![t].shape = i, ![t].probing = TRUE, ![t].again = FALSE]

\* _discover tries shape i, or has tried them all.
ProbeFrom(t, i) ==
    IF i > Len(Shapes) THEN End(t)
    ELSE th' = [th EXCEPT ![t].pc = "ensure", ![t].shape = i, ![t].probing = TRUE,
                          ![t].again = FALSE]

\* Bars: the known shape works, or a probed one is about to be remembered.
HistoryRows(t) ==
    /\ th[t].pc = "send" /\ Authentic
    /\ th[t].job = "history" /\ th[t].shape = server.serves
    /\ IF th[t].probing THEN To(t, "pin") ELSE End(t)
    /\ UNCHANGED <<session, strategy, server, faults>>

Pin(t) ==
    /\ th[t].pc = "pin"
    /\ strategy' = th[t].shape
    /\ End(t)
    /\ UNCHANGED <<session, server, faults>>

\* No bars: fetch forgets the shape it knew and probes, _discover goes on.
HistoryEmpty(t) ==
    /\ th[t].pc = "send" /\ Authentic
    /\ th[t].job = "history" /\ th[t].shape # server.serves /\ server.others = "empty"
    /\ IF th[t].probing THEN ProbeFrom(t, th[t].shape + 1) /\ UNCHANGED strategy
       ELSE ProbeFrom(t, 1) /\ strategy' = NULL
    /\ UNCHANGED <<session, server, faults>>

\* BrokerRejected: _discover goes on; in fetch it is an error like any other, and
\* the shape stays the known one.  A request without its account may get it too.
HistoryRejected(t) ==
    /\ th[t].pc = "send"
    /\ th[t].job = "history"
    /\ \/ Authentic /\ th[t].shape # server.serves /\ server.others = "rejected"
       \/ session.token = "good" /\ ~session.account
    /\ IF th[t].probing THEN ProbeFrom(t, th[t].shape + 1) ELSE End(t)
    /\ UNCHANGED <<session, strategy, server, faults>>

----------------------------------------------------------------------------
(* The broker and the clock.                                               *)

Dead(token) == IF token = NULL THEN NULL ELSE "dead"

\* Tokens are invalidated on the server, the refresh token with them or not.
Revoke ==
    /\ Fault
    /\ session.token = "good"
    /\ \E r \in {session.refresh, Dead(session.refresh)} :
        session' = [session EXCEPT !.token = Dead(@), !.refresh = r]
    /\ UNCHANGED <<strategy, server, th>>

\* Fifty minutes pass.
Expire ==
    /\ session.fresh
    /\ session' = [session EXCEPT !.fresh = FALSE]
    /\ UNCHANGED <<strategy, server, th, faults>>

\* The broker serves another shape.
Upgrade ==
    /\ Fault
    /\ server' \in [serves : (1..Len(Shapes)) \ {server.serves}, others : {"empty", "rejected"}]
    /\ UNCHANGED <<session, strategy, th>>

Init ==
    /\ session = LoggedOut
    /\ strategy = NULL
    /\ server \in [serves : 1..Len(Shapes), others : {"empty", "rejected"}]
    /\ th = [t \in Threads |-> Idle]
    /\ faults = 0

Begin(t) == BeginConfig(t) \/ BeginHistory(t) \/ BeginWrite(t)

SessionStep(t) ==
    \/ Ensure(t) \/ RefreshAnswered(t) \/ RefreshFails(t) \/ RefreshLost(t)
    \/ LoginAnswered(t) \/ Account(t) \/ ResolveAnswered(t) \/ ResolveUnauthorised(t)

SendStep(t) ==
    \/ SendUnauthorised(t) \/ SendOther(t) \/ Lost(t) \/ Give(t)
    \/ HistoryRows(t) \/ Pin(t) \/ HistoryEmpty(t) \/ HistoryRejected(t)

Next ==
    \/ \E t \in Threads : Begin(t) \/ SessionStep(t) \/ SendStep(t)
    \/ Revoke \/ Expire \/ Upgrade

\* The scheduler runs the scan and the poll again and again, a request ends, and
\* tokens expire.
Fairness ==
    /\ \A t \in Threads : WF_vars(SessionStep(t) \/ SendStep(t))
    /\ WF_vars(BeginHistory(Scanner))
    /\ WF_vars(Expire)

Spec == Init /\ [][Next]_vars /\ Fairness

----------------------------------------------------------------------------
(* Properties.                                                             *)

Labels == {"idle", "give", "ensure", "login", "refresh", "account", "resolve",
           "send", "pin"}

\* The types of the session, of the learned shape and of the threads.
TypeOK ==
    /\ session \in [token : Tokens, refresh : Tokens, fresh : BOOLEAN,
                    account : BOOLEAN, config : BOOLEAN]
    /\ strategy \in {NULL} \cup 1..Len(Shapes)
    /\ \A t \in Threads : /\ th[t].pc \in Labels
                          /\ th[t].shape \in {NULL} \cup 1..Len(Shapes)
    /\ faults \in 0..MaxFaults

\* A request leaves without its account number, and trade_config returns None,
\* only when another thread's login cleared them since this thread looked: on its
\* own, ensure_session, get and trade_config never do.
OnlyARaceHurts ==
    \A t \in Threads :
        /\ th[t].pc = "send" /\ ~session.account => th[t].raced
        /\ th[t].pc = "give" /\ ~session.config => th[t].raced

\* The broker refuses the shape that fetch knows.
Stuck == strategy # NULL /\ strategy # server.serves /\ server.others = "rejected"

\* Through revoked tokens, races, lost requests and changed endpoints the scan gets
\* its history again and again, unless it knows a shape that is refused.
HistoryKeepsComing == []<><<HistoryRows(Scanner)>>_vars \/ <>[]Stuck

\* history.py: a learned shape that stops working is discovered anew rather than
\* failing permanently.
HistoryRecovers == []<><<HistoryRows(Scanner)>>_vars
=============================================================================
