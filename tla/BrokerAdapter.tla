--------------------------- MODULE BrokerAdapter ---------------------------
(***************************************************************************)
(* AngelOneAdapter (market/angel_one.py): requests from concurrent tasks   *)
(* share one circuit breaker, one semaphore and one session.  A request    *)
(* retries on errors, and on a 401 refreshes the session with a request of *)
(* its own - nested in the first, through the same breaker - and retries.  *)
(* An answer whose body reports an error is raised at once.                *)
(*                                                                         *)
(* A step is the code between two awaits: waiting for the semaphore and    *)
(* waiting for the answer.  The broker's side is external: it answers a    *)
(* live token, refuses an expired or missing one, and may fail anyhow.     *)
(* Credentials are configured (without them connect() does nothing).       *)
(***************************************************************************)
EXTENDS CircuitBreaker, FiniteSets

CONSTANTS
    Tasks,         \* tasks calling the adapter at the same time
    MaxRetries,    \* settings.max_retry
    Permits        \* rate_limits.angel_one_per_second

ASSUME AdapterAssumption ==
    /\ MaxRetries \in Nat
    /\ Permits \in Nat \ {0}

\* What may go wrong at the broker, apart from sessions that expire.
Faults == {"error", "rejected", "no_token", "refresh_expires"}

VARIABLES
    breaker,
    jwt,       \* the adapter's session token, as the broker sees it
    refresh,   \* the adapter's refresh token, as the broker sees it
    call,      \* per task, the request it is making
    faults     \* the faults of this broker, which never change

vars == <<breaker, jwt, refresh, call, faults>>

Tokens == {"none", "live", "expired"}

\* Which request: what the task asked for, or the session call a 401 led to.
Kinds == {"data", "login", "refresh"}

Attempts == 0..(MaxRetries + 1)

\* outer and inner count the attempts of the request and of the nested one;
\* inner = 0 when there is none.  token is what the broker judges the request by: the
\* session token of the attempt, or the refresh token in the body of a refresh.
Idle == [pc |-> "idle", kind |-> "data", outer |-> 0, inner |-> 0, token |-> "none"]

TypeOK ==
    /\ breaker \in Breakers
    /\ jwt \in Tokens
    /\ refresh \in Tokens
    /\ call \in [Tasks -> [pc : {"idle", "ready", "sent"}, kind : Kinds,
                           outer : Attempts, inner : Attempts, token : Tokens]]
    /\ faults \subseteq Faults

Init ==
    /\ breaker = NewBreaker
    /\ jwt = "none"
    /\ refresh = "none"
    /\ call = [t \in Tasks |-> Idle]
    /\ faults \in SUBSET Faults

-----------------------------------------------------------------------------
Nested(t) == call[t].inner > 0

Attempt(t) == IF Nested(t) THEN call[t].inner ELSE call[t].outer

Finish(t) == call' = [call EXCEPT ![t] = Idle]

\* Fault: one attempt too many.
RetryOnceMore(t) ==
    /\ Attempt(t) <= MaxRetries + 1
    /\ call' = [call EXCEPT ![t].pc = "ready",
                            ![t].outer = IF Nested(t) THEN @ ELSE @ + 1,
                            ![t].inner = IF Nested(t) THEN @ + 1 ELSE @]

\* The loop goes on with the next attempt, if there is one left.
Retry(t) ==
    /\ Attempt(t) <= MaxRetries
    /\ call' = [call EXCEPT ![t].pc = "ready",
                            ![t].outer = IF Nested(t) THEN @ ELSE @ + 1,
                            ![t].inner = IF Nested(t) THEN @ + 1 ELSE @]

\* The retries are exhausted: the failure is recorded and BrokerError raised, out of
\* the nested request and of the request around it alike.
GiveUp(t) ==
    /\ Attempt(t) > MaxRetries
    /\ breaker' = RecordFailure(breaker)
    /\ Finish(t)

\* A data request, or connect(), enters _request: refused calls change nothing.
Start(t, kind) ==
    /\ call[t].pc = "idle"
    /\ kind = "login" => jwt = "none"
    /\ Allows(breaker)
    /\ breaker' = Allowed(breaker)
    /\ call' = [call EXCEPT ![t] = [Idle EXCEPT !.pc = "ready", !.kind = kind, !.outer = 1]]
    /\ UNCHANGED <<jwt, refresh, faults>>

\* Fault: the 401 is handled inside the async with of the semaphore.
SendNestedUnderPermit(t) ==
    /\ call[t].pc = "ready"
    /\ Cardinality({u \in Tasks : call[u].pc = "sent" \/ Nested(u)}) < Permits
    /\ call' = [call EXCEPT ![t].pc = "sent",
                            ![t].token = IF call[t].kind = "data" THEN jwt ELSE @]
    /\ UNCHANGED <<breaker, jwt, refresh, faults>>

\* The semaphore lets the attempt out, its headers with the token of this moment.
Send(t) ==
    /\ call[t].pc = "ready"
    /\ Cardinality({u \in Tasks : call[u].pc = "sent"}) < Permits
    /\ call' = [call EXCEPT ![t].pc = "sent",
                            ![t].token = IF call[t].kind = "data" THEN jwt ELSE @]
    /\ UNCHANGED <<breaker, jwt, refresh, faults>>

\* The session a login or a refresh answers with; an answer without tokens clears
\* the session at a login and leaves it at a refresh.
NewSession(kind) ==
    \/ jwt' = "live" /\ refresh' = "live"
    \/ "no_token" \in faults /\ kind = "login" /\ jwt' = "none" /\ refresh' = "none"
    \/ "no_token" \in faults /\ kind = "refresh" /\ UNCHANGED <<jwt, refresh>>

\* A good answer to the request the task made.
Answered(t) ==
    /\ call[t].pc = "sent" /\ ~ Nested(t)
    /\ IF call[t].kind = "data"
       THEN call[t].token = "live" /\ UNCHANGED <<jwt, refresh>>
       ELSE NewSession("login")
    /\ breaker' = RecordSuccess(breaker)
    /\ Finish(t)
    /\ UNCHANGED faults

\* A good answer to the nested request: the loop around it continues with its next
\* attempt, or ends and records a failure; a login without token raises.
SessionAnswered(t) ==
    /\ call[t].pc = "sent" /\ Nested(t)
    /\ call[t].kind = "refresh" => call[t].token = "live"
    /\ NewSession(call[t].kind)
    /\ \/ /\ call[t].kind = "login" /\ jwt' = "none"
          /\ breaker' = RecordSuccess(breaker)
          /\ Finish(t)
       \/ /\ call[t].kind = "refresh" \/ jwt' # "none"
          /\ call[t].outer <= MaxRetries
          /\ breaker' = RecordSuccess(breaker)
          /\ call' = [call EXCEPT ![t] = [Idle EXCEPT !.pc = "ready",
                                                      !.outer = call[t].outer + 1]]
       \/ /\ call[t].kind = "refresh" \/ jwt' # "none"
          /\ call[t].outer > MaxRetries
          /\ breaker' = RecordFailure(RecordSuccess(breaker))
          /\ Finish(t)
    /\ UNCHANGED faults

\* 401 on a data request: refresh_session(), which logs in when it has no refresh
\* token, enters _request again.
Unauthorized(t) ==
    /\ call[t].pc = "sent" /\ call[t].kind = "data"
    /\ call[t].token # "live" \/ jwt # "live"
    /\ IF Allows(breaker)
       THEN /\ breaker' = Allowed(breaker)
            /\ call' = [call EXCEPT ![t].pc = "ready", ![t].token = refresh,
                           ![t].kind = IF refresh = "none" THEN "login" ELSE "refresh",
                           ![t].inner = 1]
       ELSE UNCHANGED breaker /\ Finish(t)      \* BrokerError, out of both
    /\ UNCHANGED <<jwt, refresh, faults>>

\* A network error, an error status (a 401 on a session call included) or a body
\* that does not parse.
Errored(t) ==
    /\ call[t].pc = "sent"
    /\ \/ "error" \in faults
       \/ call[t].kind = "refresh" /\ call[t].token # "live"
    /\ \/ Retry(t) /\ UNCHANGED breaker
       \/ GiveUp(t)
    /\ UNCHANGED <<jwt, refresh, faults>>

\* Fault: an error in the body counts as a failure of the broker.
RejectedCounted(t) ==
    /\ call[t].pc = "sent"
    /\ "rejected" \in faults
    /\ Finish(t)
    /\ breaker' = RecordFailure(breaker)
    /\ UNCHANGED <<jwt, refresh, faults>>

\* The body says status or success is False: BrokerError leaves _request at once,
\* past both record_success and record_failure.
Rejected(t) ==
    /\ call[t].pc = "sent"
    /\ "rejected" \in faults
    /\ Finish(t)
    /\ UNCHANGED <<breaker, jwt, refresh, faults>>

\* The broker ends the session, or its refresh token too.
SessionExpires ==
    /\ jwt = "live"
    /\ jwt' = "expired"
    /\ \/ UNCHANGED <<refresh, call>>
       \/ /\ "refresh_expires" \in faults
          /\ refresh' = "expired"
          /\ call' = [t \in Tasks |-> IF call[t].kind = "refresh"
                                      THEN [call[t] EXCEPT !.token = "expired"]
                                      ELSE call[t]]
    /\ UNCHANGED <<breaker, faults>>

Tick ==
    /\ breaker.cooldown > 0
    /\ breaker' = Cool(breaker)
    /\ UNCHANGED <<jwt, refresh, call, faults>>

Reply(t) ==
    Answered(t) \/ SessionAnswered(t) \/ Unauthorized(t) \/ Errored(t) \/ Rejected(t)

Next ==
    \/ \E t \in Tasks : \/ \E kind \in {"data", "login"} : Start(t, kind)
                        \/ Send(t)
                        \/ Reply(t)
    \/ SessionExpires
    \/ Tick

Spec == Init /\ [][Next]_vars

\* Collectors request data on an interval, the semaphore serves its waiters in turn,
\* every request is answered or times out (15 s), and time passes.
FairSpec ==
    /\ Spec
    /\ \A t \in Tasks : /\ WF_vars(Start(t, "data"))
                        /\ SF_vars(Send(t))
                        /\ WF_vars(Reply(t))
    /\ WF_vars(Tick)

-----------------------------------------------------------------------------
\* No request hangs: the permit is given back before the nested session request asks
\* for one, and the retries of both loops end.
CallsEnd == \A t \in Tasks : call[t].pc # "idle" ~> call[t].pc = "idle"

\* Answers that carry an error in their body, and sessions that need refreshing,
\* show a broker that works: they alone never open the circuit.
BodyErrorsKeepCircuitClosed ==
    faults \subseteq {"rejected"} => breaker.state = "closed"

\* "A successful probe closes the circuit; a failed probe re-opens it": while the
\* circuit is half-open its probe is still out.
HalfOpenAwaitsProbe == breaker.state = "half_open" => \E t \in Tasks : call[t].pc # "idle"

\* "TOTP login, automatic token refresh": at a broker that answers every request, a
\* session that expired is replaced, even when its refresh token expired with it.
SessionRenews == faults = {"refresh_expires"} /\ jwt = "expired" ~> jwt = "live"
=============================================================================
