--------------------------- MODULE CircuitBreaker ---------------------------
(***************************************************************************)
(* core/circuit_breaker.py as operators on a breaker record, for the       *)
(* modules that guard a dependency with one.  `cooldown' is what is left   *)
(* of recovery_timeout since opened_at; last_error and total_opens, which  *)
(* only to_dict() reads, are left out.                                     *)
(***************************************************************************)
EXTENDS Naturals

CONSTANTS
    FailureThreshold,   \* consecutive failures that open the circuit
    RecoveryTimeout,    \* ticks the circuit stays open before a probe
    HalfOpenMaxCalls,   \* probes let through while half-open
    MaxFailures         \* bound: the failure count stops there

ASSUME BreakerAssumption ==
    /\ FailureThreshold \in Nat \ {0}
    /\ RecoveryTimeout \in Nat \ {0}
    /\ HalfOpenMaxCalls \in Nat \ {0}
    /\ MaxFailures \in Nat /\ MaxFailures >= FailureThreshold

CircuitStates == {"closed", "open", "half_open"}

Breakers ==
    [state : CircuitStates, failures : 0..MaxFailures, cooldown : 0..RecoveryTimeout,
     probes : 0..HalfOpenMaxCalls]

NewBreaker == [state |-> "closed", failures |-> 0, cooldown |-> 0, probes |-> 0]

\* Fault: the comparison with recovery_timeout is reversed.
ElapsedReversed(b) == b.state = "open" /\ b.cooldown > 0

\* The recovery timeout of an open circuit has elapsed.
Elapsed(b) == b.state = "open" /\ b.cooldown = 0

\* Fault: half_open_max_calls is not enforced.
AllowsEveryProbe(b) == b.state \in {"closed", "half_open"} \/ Elapsed(b)

\* allow_request() returns True.
Allows(b) ==
    \/ b.state = "closed"
    \/ Elapsed(b)
    \/ b.state = "half_open" /\ b.probes < HalfOpenMaxCalls

\* Fault: the call that half-opens the circuit is not counted as a probe.
AllowedUncounted(b) ==
    IF b.state = "closed" THEN b
    ELSE [b EXCEPT !.state = "half_open",
                   !.probes = IF b.state = "open" THEN 0 ELSE @ + 1]

\* What an allow_request() that returns True leaves behind; one that returns
\* False changes nothing.
Allowed(b) ==
    IF b.state = "closed" THEN b
    ELSE [b EXCEPT !.state = "half_open",
                   !.probes = IF b.state = "open" THEN 1 ELSE @ + 1]

RecordSuccess(b) == NewBreaker

Open(b) == [b EXCEPT !.state = "open", !.cooldown = RecoveryTimeout]

\* Fault: the circuit opens one failure late.
RecordFailureLate(b) ==
    IF b.state = "half_open" THEN Open(b)
    ELSE LET counted == [b EXCEPT !.failures = IF @ < MaxFailures THEN @ + 1 ELSE @]
         IN  IF counted.failures > FailureThreshold /\ b.state = "closed"
             THEN Open(counted) ELSE counted

\* Fault: only a closed circuit opens, so a failed probe is ignored.
RecordFailureIgnoringProbes(b) ==
    LET counted == [b EXCEPT !.failures = IF @ < MaxFailures THEN @ + 1 ELSE @]
    IN  IF counted.failures >= FailureThreshold /\ b.state = "closed"
        THEN Open(counted) ELSE counted

\* A failure re-opens a half-open circuit uncounted; any other is counted, and the
\* one that reaches the threshold opens a closed circuit.
RecordFailure(b) ==
    IF b.state = "half_open" THEN Open(b)
    ELSE LET counted == [b EXCEPT !.failures = IF @ < MaxFailures THEN @ + 1 ELSE @]
         IN  IF counted.failures >= FailureThreshold /\ b.state = "closed"
             THEN Open(counted) ELSE counted

\* One tick of time.monotonic().
Cool(b) == [b EXCEPT !.cooldown = IF @ > 0 THEN @ - 1 ELSE 0]
=============================================================================
