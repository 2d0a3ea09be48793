---------------------------- MODULE CollectorRun ----------------------------
(***************************************************************************)
(* One collector (collectors/base.py) run by the scheduler and by manual   *)
(* requests, through CollectorRegistry.run_collector, its circuit breaker, *)
(* its run lock and the default pipeline (collectors/pipeline.py).         *)
(*                                                                         *)
(* The gates and the breaker are asked before the lock is: a run admitted  *)
(* by a closed circuit may execute long after, with the circuit open.      *)
(***************************************************************************)
EXTENDS CircuitBreaker, Sequences, FiniteSets

CONSTANTS
    Scheduled,       \* the interval job (max_instances = 1)
    Manual,          \* POST /collectors/{name}/run requests
    Gate,            \* "always", "market_hours" or "after_hours"
    RetryAttempts    \* settings.collector_retry_attempts

FailedCutoff == 3     \* consecutive failures from which status is "failed"

\* Requests are finitely many; collectors take the breaker's default threshold.
ASSUME RunAssumption ==
    /\ Scheduled \notin Manual /\ IsFiniteSet(Manual)
    /\ FailureThreshold = FailedCutoff
    /\ Gate \in {"always", "market_hours", "after_hours"}
    /\ RetryAttempts \in Nat

Runs == {Scheduled} \cup Manual

VARIABLES
    breaker,
    run,           \* per run, where it is suspended and what it has seen
    queue,         \* the run lock: its holder first, then its waiters
    health,        \* CollectorHealthStatus
    env            \* the market is open, the source gives usable answers, the database answers

vars == <<breaker, run, queue, health, env>>

Environments == [market : BOOLEAN, source : BOOLEAN, storage : BOOLEAN]

Idle == [pc |-> "idle", tries |-> 0, stored |-> TRUE]

\* Suspended inside the lock.
Executing == {"starting", "collecting", "processing", "reporting"}

Statuses == {"idle", "ok", "degraded", "failed", "disabled", "circuit_open"}

TypeOK ==
    /\ breaker \in Breakers
    /\ run \in [Runs -> [pc : Executing \cup {"idle", "waiting"},
                         tries : 0..(RetryAttempts + 1), stored : BOOLEAN]]
    /\ queue \in Seq(Runs)
    /\ health \in [enabled : BOOLEAN, status : Statuses, failures : 0..MaxFailures,
                   waiting : 0..Cardinality(Runs), inFlight : BOOLEAN]
    /\ env \in Environments

Init ==
    /\ breaker = NewBreaker
    /\ run = [r \in Runs |-> Idle]
    /\ queue = <<>>
    /\ health = [enabled |-> TRUE, status |-> "idle", failures |-> 0,
                 waiting |-> 0, inFlight |-> FALSE]
    /\ env \in Environments

-----------------------------------------------------------------------------
\* Scheduled runs respect the market-hours gates; manual ones force their way.
GateOpen(r) ==
    \/ r \in Manual
    \/ Gate = "always"
    \/ Gate = "market_hours" /\ env.market
    \/ Gate = "after_hours" /\ ~ env.market

\* Fault: run_collector does not look at enabled.
AsksUnlessGated(r) == run[r].pc = "idle" /\ GateOpen(r)

\* run_collector and run_once up to the breaker.
Asks(r) == run[r].pc = "idle" /\ health.enabled /\ GateOpen(r)

Enqueue(r) ==
    /\ Asks(r)
    /\ Allows(breaker)
    /\ breaker' = Allowed(breaker)
    /\ health' = [health EXCEPT !.waiting = @ + 1]
    /\ queue' = Append(queue, r)
    /\ run' = [run EXCEPT ![r].pc = "waiting"]
    /\ UNCHANGED env

\* The open circuit skips the run.
Skip(r) ==
    /\ Asks(r)
    /\ ~ Allows(breaker)
    /\ health' = [health EXCEPT !.status = "circuit_open"]
    /\ UNCHANGED <<breaker, run, queue, env>>

\* Fault: queue_length is decremented when the run ends, and then only.
BeginStillQueued(r) ==
    /\ run[r].pc = "waiting" /\ Head(queue) = r
    /\ health' = [health EXCEPT !.inFlight = TRUE]
    /\ run' = [run EXCEPT ![r].pc = "starting"]
    /\ UNCHANGED <<breaker, queue, env>>

\* async with self._run_lock.
Begin(r) ==
    /\ run[r].pc = "waiting" /\ Head(queue) = r
    /\ health' = [health EXCEPT !.waiting = @ - 1, !.inFlight = TRUE]
    /\ run' = [run EXCEPT ![r].pc = "starting"]
    /\ UNCHANGED <<breaker, queue, env>>

\* The except branch of _execute: the failure is counted, then reported.
Failed(r) ==
    LET n == IF health.failures < MaxFailures THEN health.failures + 1
             ELSE health.failures
    IN  /\ health' = [health EXCEPT !.failures = n,
                         !.status = IF n >= FailedCutoff THEN "failed" ELSE "degraded"]
        /\ breaker' = RecordFailure(breaker)
        /\ run' = [run EXCEPT ![r].pc = "reporting"]
        /\ UNCHANGED queue

\* initialize() and authenticate(): not retried.
Setup(r) ==
    /\ run[r].pc = "starting"
    /\ \/ /\ env.source
          /\ run' = [run EXCEPT ![r].pc = "collecting", ![r].tries = 1]
          /\ UNCHANGED <<breaker, queue, health>>
       \/ ~ env.source /\ Failed(r)
    /\ UNCHANGED env

\* Fault: one attempt too many.
MayRetryOnceMore(r) == run[r].tries <= RetryAttempts + 1

MayRetry(r) == run[r].tries <= RetryAttempts

\* One attempt of _collect_with_retry.  The run fails when the last one raises, or when
\* validate() finds the records of any of them unusable.
Collect(r) ==
    /\ run[r].pc = "collecting"
    /\ \/ /\ env.source
          /\ run' = [run EXCEPT ![r].pc = "processing"]
          /\ UNCHANGED <<breaker, queue, health>>
       \/ /\ ~ env.source /\ MayRetry(r)
          /\ run' = [run EXCEPT ![r].tries = @ + 1]
          /\ UNCHANGED <<breaker, queue, health>>
       \/ ~ env.source /\ Failed(r)
    /\ UNCHANGED env

\* pipeline._persist: a storage failure is absorbed, and shown in the status.
StorageFails(r) ==
    /\ run[r].pc = "processing" /\ run[r].stored
    /\ ~ env.storage
    /\ health' = [health EXCEPT !.status = "degraded"]
    /\ run' = [run EXCEPT ![r].stored = FALSE]
    /\ UNCHANGED <<breaker, queue, env>>

\* Fault: the success resets the collector's count and not the breaker's.
SucceedUnrecorded(r) ==
    /\ run[r].pc = "processing"
    /\ health' = [health EXCEPT !.status = "ok", !.failures = 0]
    /\ run' = [run EXCEPT ![r].pc = "reporting"]
    /\ UNCHANGED <<breaker, queue, env>>

\* The pipeline has published every record: the run succeeded.
Succeed(r) ==
    /\ run[r].pc = "processing"
    /\ health' = [health EXCEPT !.status = "ok", !.failures = 0]
    /\ breaker' = RecordSuccess(breaker)
    /\ run' = [run EXCEPT ![r].pc = "reporting"]
    /\ UNCHANGED <<queue, env>>

\* Fault: the lock is not released.
LeaveLocked(r) ==
    /\ run[r].pc = "reporting"
    /\ health' = [health EXCEPT !.inFlight = FALSE]
    /\ run' = [run EXCEPT ![r] = Idle]
    /\ UNCHANGED <<breaker, queue, env>>

\* The alert and the failure event are out; the run leaves the lock.
Leave(r) ==
    /\ run[r].pc = "reporting"
    /\ health' = [health EXCEPT !.inFlight = FALSE]
    /\ run' = [run EXCEPT ![r] = Idle]
    /\ queue' = Tail(queue)
    /\ UNCHANGED <<breaker, env>>

\* registry.enable and registry.disable, at any moment.
Enable ==
    /\ health' = [health EXCEPT !.enabled = TRUE, !.status = "idle"]
    /\ UNCHANGED <<breaker, run, queue, env>>

Disable ==
    /\ health' = [health EXCEPT !.enabled = FALSE, !.status = "disabled"]
    /\ UNCHANGED <<breaker, run, queue, env>>

Tick ==
    /\ breaker.cooldown > 0
    /\ breaker' = Cool(breaker)
    /\ UNCHANGED <<run, queue, health, env>>

\* The market, the source or the database changes.
Environment ==
    /\ \E what \in {"market", "source", "storage"} : env' = [env EXCEPT ![what] = ~ @]
    /\ UNCHANGED <<breaker, run, queue, health>>

Step(r) ==
    Begin(r) \/ Setup(r) \/ Collect(r) \/ StorageFails(r) \/ Succeed(r) \/ Leave(r)

Next ==
    \/ \E r \in Runs : Enqueue(r) \/ Skip(r) \/ Step(r)
    \/ Enable \/ Disable
    \/ Tick
    \/ Environment

Spec == Init /\ [][Next]_vars

\* The interval job fires for ever, the event loop runs every ready task, the source
\* and the database answer or time out, and time passes.
FairSpec ==
    /\ Spec
    /\ WF_vars(Enqueue(Scheduled) \/ Skip(Scheduled))
    /\ \A r \in Runs : WF_vars(Step(r))
    /\ WF_vars(Tick)

-----------------------------------------------------------------------------
\* queue_length and in_flight tell what the lock does, and one run executes at a
\* time whatever was admitted together.
HealthTellsQueue ==
    LET executing == {r \in Runs : run[r].pc \in Executing}
    IN  /\ health.waiting = Cardinality({r \in Runs : run[r].pc = "waiting"})
        /\ health.inFlight = (executing # {})
        /\ Cardinality(executing) <= 1

\* "Threshold mirrors the existing 'failed' status cutoff": the collector's own count
\* of failures and the breaker's, kept apart and reset apart, always agree, through
\* late outcomes, half-open probes and operators who disable and enable.
StatusMirrorsCircuit ==
    /\ (breaker.state = "closed") = (health.failures < FailedCutoff)
    /\ health.status = "ok" => health.failures = 0
    /\ health.status \in {"failed", "circuit_open"} => breaker.state # "closed"

\* What GET /collectors shows is true: of the queue, and of the circuit.
HealthTrue == HealthTellsQueue /\ StatusMirrorsCircuit

\* Every run that waits for the lock executes and leaves it.
RunsEnd == \A r \in Runs : run[r].pc = "waiting" ~> run[r].pc = "idle"

\* Once its source and storage stay up and its gate open, an enabled collector gets
\* back to "ok", however long its circuit was open and whatever operators click.
Recovers ==
    <>[](health.enabled /\ env.source /\ env.storage /\ GateOpen(Scheduled))
       => []<>(health.status = "ok")

\* A disabled collector comes to rest: the runs already admitted end, and no other
\* is let in, forced ones included.
DisabledDrains == <>[](~ health.enabled) => <>[](queue = <<>>)

\* "A storage failure degrades the run": the run whose records were not stored does
\* not end as a success.
StorageFailureDegrades ==
    [][\A r \in Runs :
          /\ run[r].pc = "processing" /\ ~ run[r].stored
          /\ run'[r].pc = "reporting"
          => health'.status = "degraded"]_vars
=============================================================================
