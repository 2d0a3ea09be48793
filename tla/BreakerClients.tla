--------------------------- MODULE BreakerClients ---------------------------
(***************************************************************************)
(* Tasks that share one circuit breaker: each asks allow_request(), awaits *)
(* its dependency and records the outcome.  The answers come back in any   *)
(* order, so an outcome may belong to a call admitted in an earlier state  *)
(* of the circuit.                                                         *)
(***************************************************************************)
EXTENDS CircuitBreaker, FiniteSets

CONSTANT Clients      \* tasks calling the dependency

ASSUME ClientsAssumption == IsFiniteSet(Clients)

VARIABLES
    breaker,
    calling,   \* the clients whose call is in flight
    probing,   \* those admitted by the half-open circuit, in its current spell
    up         \* whether the dependency answers

vars == <<breaker, calling, probing, up>>

TypeOK ==
    /\ breaker \in Breakers
    /\ calling \subseteq Clients
    /\ probing \subseteq calling
    /\ up \in BOOLEAN

Init ==
    /\ breaker = NewBreaker
    /\ calling = {}
    /\ probing = {}
    /\ up \in BOOLEAN

\* allow_request() lets the call through (a refused caller just returns).
Admit(c) ==
    /\ c \notin calling
    /\ Allows(breaker)
    /\ breaker' = Allowed(breaker)
    /\ calling' = calling \cup {c}
    /\ probing' = IF breaker.state = "closed" THEN probing ELSE probing \cup {c}
    /\ UNCHANGED up

\* An outcome moves the circuit out of the half-open state, which ends the spell.
Record(c, b) ==
    /\ c \in calling
    /\ breaker' = b
    /\ calling' = calling \ {c}
    /\ probing' = IF breaker.state = "half_open" THEN {} ELSE probing
    /\ UNCHANGED up

Succeed(c) == up /\ Record(c, RecordSuccess(breaker))

Fail(c) == ~ up /\ Record(c, RecordFailure(breaker))

\* Time passes only while a circuit cools down.
Tick ==
    /\ breaker.cooldown > 0
    /\ breaker' = Cool(breaker)
    /\ UNCHANGED <<calling, probing, up>>

\* The dependency goes down or comes back.
Flip == up' = ~ up /\ UNCHANGED <<breaker, calling, probing>>

Next ==
    \/ \E c \in Clients : Admit(c) \/ Succeed(c) \/ Fail(c)
    \/ Tick
    \/ Flip

Spec == Init /\ [][Next]_vars

\* Clients keep calling (they are scheduled on an interval), every call returns,
\* and time passes; the dependency owes nothing.
FairSpec ==
    /\ Spec
    /\ \A c \in Clients : WF_vars(Admit(c)) /\ WF_vars(Succeed(c) \/ Fail(c))
    /\ WF_vars(Tick)

-----------------------------------------------------------------------------
\* A closed circuit has not reached its threshold, whatever late outcomes came in
\* while it was open: it opens on the failure that reaches it, not one later.
ClosedBelowThreshold ==
    breaker.state = "closed" => breaker.failures < FailureThreshold

\* A half-open circuit is waiting for the probes it let through, all of them and no
\* more than its limit: no spell leaks a probe or hands out its places twice.
HalfOpenAwaitsProbes ==
    /\ breaker.state = "half_open" => /\ probing # {}
                                      /\ Cardinality(probing) = breaker.probes
    /\ breaker.state # "half_open" => probing = {}

\* Open and half-open are entered and left on time, whatever answers come late.
CircuitSound == ClosedBelowThreshold /\ HalfOpenAwaitsProbes

\* Once the dependency stays up, the circuit closes for good.
Recovers == <>[]up => <>[](breaker.state = "closed")

\* "once a dependency fails failure_threshold times in a row, the circuit opens and
\* subsequent calls fail fast (no network attempt) until recovery_timeout elapses":
\* an open circuit stays open until then.
FailsFastUntilTimeout ==
    [][breaker.state = "open" /\ breaker.cooldown > 0 => breaker'.state = "open"]_vars
=============================================================================
