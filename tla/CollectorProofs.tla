-------------------------- MODULE CollectorProofs ---------------------------
(***************************************************************************)
(* Proofs about CollectorRun for any number of forced runs, any gate, any  *)
(* number of retries and any breaker timeout: what GET /collectors shows   *)
(* is true of the run lock and of the circuit.                             *)
(***************************************************************************)
EXTENDS CollectorRun, FiniteSetTheorems, SequenceTheorems, TLAPS

USE BreakerAssumption, RunAssumption

-----------------------------------------------------------------------------
(* The circuit.                                                            *)

\* Every operation of the breaker keeps its record well formed.
LEMMA BreakerOperations ==
    ASSUME NEW b \in Breakers
    PROVE  /\ NewBreaker \in Breakers
           /\ RecordFailure(b) \in Breakers
           /\ Cool(b) \in Breakers
           /\ Allows(b) => Allowed(b) \in Breakers
  <1>1. NewBreaker \in Breakers
    BY DEF NewBreaker, Breakers, CircuitStates
  <1>2. RecordFailure(b) \in Breakers
    <2>1. ASSUME NEW x \in Breakers PROVE Open(x) \in Breakers
      <3>1. RecoveryTimeout \in 0..RecoveryTimeout /\ "open" \in CircuitStates
        BY DEF CircuitStates
      <3> QED BY <3>1 DEF Open, Breakers
    <2>2. [b EXCEPT !.failures = IF @ < MaxFailures THEN @ + 1 ELSE @] \in Breakers
      <3>1. (IF b.failures < MaxFailures THEN b.failures + 1 ELSE b.failures)
              \in 0..MaxFailures
        BY DEF Breakers
      <3> QED BY <3>1 DEF Breakers
    <2> QED BY <2>1, <2>2 DEF RecordFailure
  <1>3. Cool(b) \in Breakers
    BY DEF Cool, Breakers
  <1>4. Allows(b) => Allowed(b) \in Breakers
    <2>1. CASE b.state = "closed"
      BY <2>1 DEF Allowed
    <2>2. CASE b.state = "open"
      <3>1. Allowed(b) = [b EXCEPT !.state = "half_open", !.probes = 1]
        BY <2>2 DEF Allowed
      <3>2. 1 \in 0..HalfOpenMaxCalls /\ "half_open" \in CircuitStates
        BY DEF CircuitStates
      <3> QED BY <3>1, <3>2 DEF Breakers
    <2>3. ASSUME b.state = "half_open", b.probes < HalfOpenMaxCalls
          PROVE  Allowed(b) \in Breakers
      <3>1. Allowed(b) = [b EXCEPT !.state = "half_open", !.probes = b.probes + 1]
        BY <2>3 DEF Allowed
      <3>2. b.probes + 1 \in 0..HalfOpenMaxCalls
        BY <2>3 DEF Breakers
      <3> QED BY <3>1, <3>2 DEF Breakers, CircuitStates
    <2> QED BY <2>1, <2>2, <2>3 DEF Allows, Elapsed, Breakers
  <1> QED BY <1>1, <1>2, <1>3, <1>4

\* A failure counts in a closed circuit, which opens at the threshold; it never closes
\* another.
LEMMA FailureCounts ==
    ASSUME NEW b \in Breakers
    PROVE  LET n == IF b.failures < MaxFailures THEN b.failures + 1 ELSE b.failures
           IN  /\ b.state # "closed" => RecordFailure(b).state # "closed"
               /\ b.state = "closed" =>
                    /\ RecordFailure(b).failures = n
                    /\ RecordFailure(b).state = IF n >= FailureThreshold THEN "open" ELSE "closed"
  <1> DEFINE n == IF b.failures < MaxFailures THEN b.failures + 1 ELSE b.failures
             counted == [b EXCEPT !.failures = n]
  <1>1. b.state # "closed" => RecordFailure(b).state # "closed"
    BY DEF RecordFailure, Open, Breakers
  <1>2. CASE b.state = "closed"
    <2>1. RecordFailure(b) = IF counted.failures >= FailureThreshold THEN Open(counted) ELSE counted
      BY <1>2 DEF RecordFailure
    <2>2. counted.failures = n /\ counted.state = "closed"
      BY <1>2 DEF Breakers
    <2>3. Open(counted).failures = counted.failures /\ Open(counted).state = "open"
      BY DEF Open, Breakers
    <2> QED BY <1>1, <2>1, <2>2, <2>3
  <1> QED BY <1>1, <1>2

\* Letting a call through leaves a closed circuit as it is, and closes no other.
LEMMA AllowedKeepsClosed ==
    ASSUME NEW b \in Breakers
    PROVE  /\ b.state = "closed" => Allowed(b) = b
           /\ b.state # "closed" => Allowed(b).state # "closed"
  BY DEF Allowed, Breakers

-----------------------------------------------------------------------------
(* The run lock.                                                           *)

RunStates == [pc : Executing \cup {"idle", "waiting"}, tries : 0..(RetryAttempts + 1),
              stored : BOOLEAN]

\* The queue is the runs that are not idle, once each; only its head executes.
Locked ==
    /\ queue \in Seq(Runs)
    /\ \A i, j \in 1..Len(queue) : queue[i] = queue[j] => i = j
    /\ \A r \in Runs : run[r].pc # "idle" <=> \E i \in 1..Len(queue) : queue[i] = r
    /\ \A i \in 1..Len(queue) : i # 1 => run[queue[i]].pc = "waiting"
    /\ run \in [Runs -> RunStates]

Waiting == {r \in Runs : run[r].pc = "waiting"}

Healths == [enabled : BOOLEAN, status : Statuses, failures : 0..MaxFailures,
            waiting : Nat, inFlight : BOOLEAN]

\* The collector's own count of the lock.
Counted ==
    /\ health \in Healths
    /\ health.waiting = Cardinality(Waiting)
    /\ health.inFlight = (\E r \in Runs : run[r].pc \in Executing)

LEMMA RunsFinite == IsFiniteSet(Runs)
  <1>1. IsFiniteSet(Manual)
    OBVIOUS
  <1> QED BY <1>1, FS_AddElement DEF Runs

\* A run that executes heads the queue.
LEMMA ExecutingIsHead ==
    ASSUME Locked, NEW r \in Runs, run[r].pc \in Executing
    PROVE  queue # <<>> /\ r = queue[1] /\ r = Head(queue)
  <1>1. PICK i \in 1..Len(queue) : queue[i] = r
    BY DEF Locked, Executing
  <1>2. i = 1
    BY <1>1 DEF Locked, Executing
  <1> QED BY <1>1, <1>2 DEF Locked

\* A run that moves on inside the lock leaves the queue alone.
LEMMA MovesLocked ==
    ASSUME Locked, NEW r \in Runs, run[r].pc \in Executing \cup {"waiting"}, UNCHANGED queue,
           run' \in [Runs -> RunStates],
           \A q \in Runs \ {r} : run'[q] = run[q], run'[r].pc \in Executing,
           queue[1] = r
    PROVE  Locked'
  <1>1. \A i \in 1..Len(queue) : queue[i] \in Runs /\ (i # 1 => queue[i] # r)
    BY DEF Locked
  <1>2. \A q \in Runs : run'[q].pc # "idle" <=> run[q].pc # "idle"
    BY DEF Executing
  <1> QED BY <1>1, <1>2 DEF Locked

LEMMA EnqueuesLocked == ASSUME Locked, NEW r \in Runs, Enqueue(r) PROVE Locked'
  <1>1. /\ run[r].pc = "idle" /\ queue' = Append(queue, r)
        /\ run' = [run EXCEPT ![r].pc = "waiting"]
    BY DEF Enqueue, Asks
  <1>2. /\ queue' \in Seq(Runs) /\ Len(queue) \in Nat /\ Len(queue') = Len(queue) + 1
        /\ queue'[Len(queue) + 1] = r
        /\ \A i \in 1..Len(queue) : queue'[i] = queue[i] /\ queue[i] \in Runs
    BY <1>1 DEF Locked
  <1>3. \A i \in 1..Len(queue) : queue[i] # r
    BY <1>1 DEF Locked
  <1>4. /\ run'[r].pc = "waiting" /\ \A q \in Runs \ {r} : run'[q] = run[q]
        /\ run' \in [Runs -> RunStates]
    <2>1. run \in [Runs -> RunStates] /\ run[r] \in RunStates
      BY DEF Locked
    <2>2. [run[r] EXCEPT !.pc = "waiting"] \in RunStates
      BY <2>1 DEF RunStates
    <2> QED BY <1>1, <2>1, <2>2
  <1>5. \A i \in 1..Len(queue') : i = Len(queue) + 1 \/ i \in 1..Len(queue)
    BY <1>2
  <1>6. \A i, j \in 1..Len(queue') : queue'[i] = queue'[j] => i = j
    <2>1. \A i, j \in 1..Len(queue) : queue[i] = queue[j] => i = j
      BY DEF Locked
    <2>2. \A i \in 1..Len(queue) : queue'[i] = queue[i] /\ queue'[i] # r
      BY <1>2, <1>3
    <2> QED BY <1>2, <1>5, <2>1, <2>2
  <1>7. ASSUME NEW q \in Runs
        PROVE  run'[q].pc # "idle" <=> \E i \in 1..Len(queue') : queue'[i] = q
    <2>1. CASE q = r
      <3>1. Len(queue) + 1 \in 1..Len(queue')
        BY <1>2
      <3> QED BY <1>2, <1>4, <2>1, <3>1
    <2>2. CASE q # r
      <3>1. run'[q].pc # "idle" <=> \E i \in 1..Len(queue) : queue[i] = q
        BY <1>4, <2>2 DEF Locked
      <3>2. (\E i \in 1..Len(queue') : queue'[i] = q) <=> \E i \in 1..Len(queue) : queue[i] = q
        <4>1. \A i \in 1..Len(queue) : i \in 1..Len(queue')
          BY <1>2
        <4> QED BY <1>2, <1>5, <2>2, <4>1
      <3> QED BY <3>1, <3>2
    <2> QED BY <2>1, <2>2
  <1>8. \A i \in 1..Len(queue') : i # 1 => run'[queue'[i]].pc = "waiting"
    <2>1. \A i \in 1..Len(queue) : i # 1 => run[queue[i]].pc = "waiting"
      BY DEF Locked
    <2>2. \A i \in 1..Len(queue) : i # 1 => run'[queue'[i]].pc = "waiting"
      BY <1>2, <1>3, <1>4, <2>1
    <2>3. run'[queue'[Len(queue) + 1]].pc = "waiting"
      BY <1>2, <1>4
    <2> QED BY <1>5, <2>2, <2>3
  <1> QED BY <1>2, <1>4, <1>6, <1>7, <1>8 DEF Locked

LEMMA LeavesLocked ==
    ASSUME Locked, NEW r \in Runs, Leave(r) PROVE Locked'
  <1>1. run[r].pc = "reporting" /\ queue' = Tail(queue) /\ run' = [run EXCEPT ![r] = Idle]
    BY DEF Leave
  <1>2. queue # <<>> /\ r = queue[1]
    BY <1>1, ExecutingIsHead DEF Executing
  <1>3. /\ queue' \in Seq(Runs) /\ Len(queue) \in Nat /\ Len(queue') = Len(queue) - 1
        /\ \A i \in 1..Len(queue') : queue'[i] = queue[i + 1] /\ queue[i + 1] \in Runs
    BY <1>1, <1>2, HeadTailProperties DEF Locked
  <1>4. /\ \A i \in 1..Len(queue') : i + 1 \in 1..Len(queue) /\ i + 1 # 1
        /\ 1 \in 1..Len(queue)
        /\ \A i, j \in 1..Len(queue) : queue[i] = queue[j] => i = j
        /\ \A i \in 1..Len(queue) : i # 1 => run[queue[i]].pc = "waiting"
    BY <1>2, <1>3 DEF Locked
  <1>5. \A i \in 1..Len(queue') : queue'[i] # r
    BY <1>4, <1>2, <1>3
  <1>6. /\ run'[r].pc = "idle" /\ \A q \in Runs \ {r} : run'[q] = run[q]
        /\ run' \in [Runs -> RunStates]
    BY <1>1 DEF Locked, Idle, RunStates
  <1>7. \A i, j \in 1..Len(queue') : queue'[i] = queue'[j] => i = j
    <2> SUFFICES ASSUME NEW i \in 1..Len(queue'), NEW j \in 1..Len(queue'), queue'[i] = queue'[j]
                 PROVE  i = j
      OBVIOUS
    <2>1. queue[i + 1] = queue[j + 1]
      BY <1>3
    <2>2. i + 1 = j + 1
      BY <1>4, <2>1
    <2> QED BY <1>3, <2>2
  <1>8. ASSUME NEW q \in Runs \ {r}
        PROVE  run[q].pc # "idle" <=> \E i \in 1..Len(queue') : queue'[i] = q
    <2>1. run[q].pc # "idle" <=> \E i \in 1..Len(queue) : i # 1 /\ queue[i] = q
      BY <1>2 DEF Locked
    <2>2. \A i \in 1..Len(queue) : i # 1 => i - 1 \in 1..Len(queue') /\ queue'[i - 1] = queue[i]
      BY <1>3
    <2>3. \A i \in 1..Len(queue') : i + 1 \in 1..Len(queue) /\ i + 1 # 1
      BY <1>3
    <2> QED BY <1>3, <2>1, <2>2, <2>3
  <1>9. \A i \in 1..Len(queue') : run'[queue'[i]].pc = "waiting"
    <2>1. \A i \in 1..Len(queue') : run[queue'[i]].pc = "waiting" /\ queue'[i] \in Runs \ {r}
      BY <1>4, <1>3, <1>5
    <2> QED BY <1>6, <2>1
  <1>10. \A q \in Runs : run'[q].pc # "idle" <=> \E i \in 1..Len(queue') : queue'[i] = q
    BY <1>5, <1>6, <1>8
  <1> QED BY <1>3, <1>6, <1>7, <1>9, <1>10 DEF Locked

Becomes(r, state) == run' = [run EXCEPT ![r] = state]

\* A step inside the lock moves one run, to where it executes.
LEMMA InsideStep ==
    ASSUME Locked, NEW r \in Runs,
           Begin(r) \/ Setup(r) \/ Collect(r) \/ StorageFails(r) \/ Succeed(r)
    PROVE  /\ run[r].pc \in Executing \cup {"waiting"} /\ UNCHANGED queue
           /\ \A q \in Runs \ {r} : run'[q] = run[q]
           /\ run'[r].pc \in Executing /\ run' \in [Runs -> RunStates]
  <1>1. run[r] \in RunStates /\ run \in [Runs -> RunStates]
    BY DEF Locked
  <1>2. ASSUME NEW s \in RunStates, s.pc \in Executing, Becomes(r, s)
        PROVE  /\ \A q \in Runs \ {r} : run'[q] = run[q]
               /\ run'[r].pc \in Executing /\ run' \in [Runs -> RunStates]
    BY <1>1, <1>2 DEF Becomes
  <1>3. run[r].pc \in Executing \cup {"waiting"} /\ UNCHANGED queue
    BY DEF Begin, Setup, Collect, Failed, StorageFails, Succeed, Executing
  <1>4. CASE \E pc \in Executing : run' = [run EXCEPT ![r].pc = pc]
    <2>1. PICK pc \in Executing : run' = [run EXCEPT ![r].pc = pc]
      BY <1>4
    <2> DEFINE now == [run[r] EXCEPT !.pc = pc]
    <2>2. now \in RunStates /\ now.pc \in Executing
      BY <1>1 DEF RunStates
    <2>3. Becomes(r, now)
      BY <1>1, <2>1 DEF Becomes
    <2> HIDE DEF now
    <2> QED BY <1>2, <1>3, <2>2, <2>3
  <1>5. CASE run' = [run EXCEPT ![r].pc = "collecting", ![r].tries = 1]
    <2> DEFINE now == [run[r] EXCEPT !.pc = "collecting", !.tries = 1]
    <2>1. now \in RunStates /\ now.pc \in Executing
      <3>1. 1 \in 0..(RetryAttempts + 1) /\ "collecting" \in Executing
        BY DEF Executing
      <3> QED BY <1>1, <3>1 DEF RunStates
    <2>2. Becomes(r, now)
      BY <1>1, <1>5 DEF Becomes
    <2> HIDE DEF now
    <2> QED BY <1>2, <1>3, <2>1, <2>2
  <1>6. CASE run' = [run EXCEPT ![r].tries = @ + 1] /\ MayRetry(r) /\ run[r].pc \in Executing
    <2> DEFINE now == [run[r] EXCEPT !.tries = @ + 1]
    <2>1. run[r].tries + 1 \in 0..(RetryAttempts + 1)
      BY <1>1, <1>6 DEF MayRetry, RunStates
    <2>2. now \in RunStates /\ now.pc \in Executing
      BY <1>1, <1>6, <2>1 DEF RunStates
    <2>3. Becomes(r, now)
      BY <1>1, <1>6 DEF Becomes
    <2> HIDE DEF now
    <2> QED BY <1>2, <1>3, <2>2, <2>3
  <1>7. CASE run' = [run EXCEPT ![r].stored = FALSE] /\ run[r].pc \in Executing
    <2> DEFINE now == [run[r] EXCEPT !.stored = FALSE]
    <2>1. now \in RunStates /\ now.pc \in Executing
      BY <1>1, <1>7 DEF RunStates
    <2>2. Becomes(r, now)
      BY <1>1, <1>7 DEF Becomes
    <2> HIDE DEF now
    <2> QED BY <1>2, <1>3, <2>1, <2>2
  <1>8. \/ \E pc \in Executing : run' = [run EXCEPT ![r].pc = pc]
        \/ run' = [run EXCEPT ![r].pc = "collecting", ![r].tries = 1]
        \/ run' = [run EXCEPT ![r].tries = @ + 1] /\ MayRetry(r) /\ run[r].pc \in Executing
        \/ run' = [run EXCEPT ![r].stored = FALSE] /\ run[r].pc \in Executing
    BY DEF Begin, Setup, Collect, Failed, StorageFails, Succeed, Executing
  <1> QED BY <1>4, <1>5, <1>6, <1>7, <1>3, <1>8

\* Every step keeps the lock.
LEMMA StepLocked == Locked /\ [Next]_vars => Locked'
  <1> SUFFICES ASSUME Locked, [Next]_vars PROVE Locked'
    OBVIOUS
  <1>1. ASSUME UNCHANGED <<run, queue>> PROVE Locked'
    BY <1>1 DEF Locked
  <1>2. ASSUME NEW r \in Runs, Enqueue(r) PROVE Locked'
    BY <1>2, EnqueuesLocked
  <1>3. ASSUME NEW r \in Runs, Leave(r) PROVE Locked'
    BY <1>3, LeavesLocked
  <1>4. ASSUME NEW r \in Runs, Begin(r) \/ Setup(r) \/ Collect(r) \/ StorageFails(r) \/ Succeed(r)
        PROVE  Locked'
    <2>1. /\ run[r].pc \in Executing \cup {"waiting"} /\ UNCHANGED queue
          /\ \A q \in Runs \ {r} : run'[q] = run[q]
          /\ run'[r].pc \in Executing /\ run' \in [Runs -> RunStates]
      BY <1>4, InsideStep
    <2>2. queue[1] = r
      <3>1. CASE run[r].pc \in Executing
        BY <3>1, ExecutingIsHead
      <3>2. CASE Begin(r)
        <4>1. \E i \in 1..Len(queue) : queue[i] = r
          BY <3>2 DEF Begin, Locked
        <4> QED BY <3>2, <4>1 DEF Begin, Locked
      <3> QED BY <1>4, <3>1, <3>2 DEF Setup, Collect, StorageFails, Succeed, Executing
    <2> QED BY <2>1, <2>2, MovesLocked
  <1> QED BY <1>1, <1>2, <1>3, <1>4
          DEF Next, Step, Skip, Enable, Disable, Tick, Environment, vars

-----------------------------------------------------------------------------
(* The health record and the queue.                                        *)

\* A failure counts, up to the bound, and shows in the status.
LEMMA FailedHealth ==
    ASSUME Counted, NEW r \in Runs, Failed(r)
    PROVE  LET n == IF health.failures < MaxFailures THEN health.failures + 1 ELSE health.failures
           IN  /\ health' \in Healths /\ health'.waiting = health.waiting
               /\ health'.inFlight = health.inFlight
               /\ health.failures \in 0..MaxFailures /\ health'.failures = n /\ n \in 0..MaxFailures
               /\ health'.status = IF n >= FailedCutoff THEN "failed" ELSE "degraded"
               /\ breaker' = RecordFailure(breaker)
  <1> DEFINE n == IF health.failures < MaxFailures THEN health.failures + 1 ELSE health.failures
             s == IF n >= FailedCutoff THEN "failed" ELSE "degraded"
  <1>1. /\ health' = [health EXCEPT !.failures = n, !.status = s]
        /\ breaker' = RecordFailure(breaker)
    BY DEF Failed
  <1>2. health \in Healths /\ health.failures \in 0..MaxFailures
    BY DEF Counted, Healths
  <1>3. n \in 0..MaxFailures
    BY <1>2
  <1>4. s \in Statuses
    BY DEF Statuses
  <1> HIDE DEF n, s
  <1>5. /\ health' \in Healths /\ health'.waiting = health.waiting
        /\ health'.inFlight = health.inFlight /\ health'.failures = n /\ health'.status = s
    BY <1>1, <1>2, <1>3, <1>4 DEF Healths
  <1> QED BY <1>1, <1>2, <1>3, <1>5 DEF n, s

LEMMA StepCounted == Locked /\ Counted /\ [Next]_vars => Counted'
  <1> SUFFICES ASSUME Locked, Counted, [Next]_vars PROVE Counted'
    OBVIOUS
  <1>1. Waiting \subseteq Runs /\ IsFiniteSet(Waiting)
    BY RunsFinite, FS_Subset DEF Waiting
  <1>2. ASSUME UNCHANGED run, health' \in Healths, health'.waiting = health.waiting,
               health'.inFlight = health.inFlight
        PROVE  Counted'
    BY <1>2 DEF Counted, Waiting
  <1>3. ASSUME NEW r \in Runs, Enqueue(r) PROVE Counted'
    <2>1. /\ run[r].pc = "idle" /\ run' = [run EXCEPT ![r].pc = "waiting"]
          /\ health' = [health EXCEPT !.waiting = @ + 1]
      BY <1>3 DEF Enqueue, Asks
    <2>2. Waiting' = Waiting \cup {r} /\ r \notin Waiting
      BY <2>1 DEF Waiting, Locked
    <2>3. Cardinality(Waiting') = Cardinality(Waiting) + 1
      BY <1>1, <2>2, FS_AddElement
    <2>4. health' \in Healths /\ health'.waiting = health.waiting + 1
      BY <2>1 DEF Counted, Healths
    <2>5. health'.inFlight = health.inFlight
      BY <2>1 DEF Counted, Healths
    <2>6. \A q \in Runs : run'[q].pc \in Executing <=> run[q].pc \in Executing
      BY <2>1 DEF Executing, Locked
    <2> QED BY <2>3, <2>4, <2>5, <2>6 DEF Counted
  <1>4. ASSUME NEW r \in Runs, Begin(r) PROVE Counted'
    <2>1. /\ run[r].pc = "waiting" /\ run' = [run EXCEPT ![r].pc = "starting"]
          /\ health' = [health EXCEPT !.waiting = @ - 1, !.inFlight = TRUE]
      BY <1>4 DEF Begin
    <2>2. Waiting' = Waiting \ {r} /\ r \in Waiting
      BY <2>1 DEF Waiting, Locked
    <2>3. Cardinality(Waiting') = Cardinality(Waiting) - 1 /\ Cardinality(Waiting') \in Nat
      <3>1. IsFiniteSet(Waiting') /\ Cardinality(Waiting') = Cardinality(Waiting) - 1
        BY <1>1, <2>2, FS_RemoveElement
      <3> QED BY <3>1, FS_CardinalityType
    <2>4. health.waiting = Cardinality(Waiting) /\ health \in Healths
      BY DEF Counted
    <2>5. health'.waiting = Cardinality(Waiting') /\ health'.inFlight = TRUE /\ health' \in Healths
      BY <2>1, <2>3, <2>4 DEF Healths
    <2>6. run'[r].pc \in Executing
      BY <2>1 DEF Executing, Locked
    <2> QED BY <2>5, <2>6 DEF Counted
  <1>5. ASSUME NEW r \in Runs, Setup(r) \/ Collect(r) \/ StorageFails(r) \/ Succeed(r)
        PROVE  Counted'
    <2>1. /\ run[r].pc \in Executing /\ run'[r].pc \in Executing
          /\ \A q \in Runs \ {r} : run'[q] = run[q]
      <3>1. run[r].pc \in Executing
        BY <1>5 DEF Setup, Collect, StorageFails, Succeed, Executing
      <3> QED BY <1>5, <3>1, InsideStep
    <2>2. /\ health' \in Healths /\ health'.waiting = health.waiting
          /\ health'.inFlight = health.inFlight
      <3>1. CASE Failed(r)
        BY <3>1, FailedHealth
      <3>2. CASE UNCHANGED health
        BY <3>2 DEF Counted
      <3>3. CASE StorageFails(r) \/ Succeed(r)
        <4>1. health \in Healths /\ 0 \in 0..MaxFailures /\ {"ok", "degraded"} \subseteq Statuses
          BY DEF Counted, Statuses
        <4> QED BY <3>3, <4>1 DEF StorageFails, Succeed, Healths
      <3> QED BY <1>5, <3>1, <3>2, <3>3 DEF Setup, Collect
    <2>3. Waiting' = Waiting
      BY <2>1 DEF Waiting, Executing
    <2>4. \A q \in Runs : run'[q].pc \in Executing <=> run[q].pc \in Executing
      BY <2>1
    <2> QED BY <2>2, <2>3, <2>4 DEF Counted
  <1>6. ASSUME NEW r \in Runs, Leave(r) PROVE Counted'
    <2>1. /\ run[r].pc = "reporting" /\ run' = [run EXCEPT ![r] = Idle]
          /\ health' = [health EXCEPT !.inFlight = FALSE]
      BY <1>6 DEF Leave
    <2>2. Waiting' = Waiting
      BY <2>1 DEF Waiting, Idle, Locked
    <2>3. \A q \in Runs : run'[q].pc \notin Executing
      <3>1. ASSUME NEW q \in Runs, run[q].pc \in Executing PROVE q = r
        BY <2>1, <3>1, ExecutingIsHead DEF Executing
      <3> QED BY <2>1, <3>1 DEF Idle, Executing, Locked
    <2>4. health' \in Healths /\ health'.waiting = health.waiting /\ health'.inFlight = FALSE
      BY <2>1 DEF Counted, Healths
    <2> QED BY <2>2, <2>3, <2>4 DEF Counted
  <1>7. ASSUME Environment \/ Tick \/ Enable \/ Disable \/ UNCHANGED vars PROVE Counted'
    BY <1>2, <1>7 DEF Environment, Tick, Enable, Disable, vars, Counted, Healths, Statuses
  <1>8. ASSUME NEW r \in Runs, Skip(r) PROVE Counted'
    BY <1>2, <1>8 DEF Skip, Counted, Healths, Statuses
  <1> QED BY <1>3, <1>4, <1>5, <1>6, <1>7, <1>8 DEF Next, Step

-----------------------------------------------------------------------------
(* The health record and the circuit.                                      *)

\* While the circuit is closed, the two counts are the same.
Mirrored ==
    /\ breaker \in Breakers
    /\ breaker.state = "closed" => breaker.failures = health.failures
    /\ StatusMirrorsCircuit

\* A failure moves both counts, and opens the circuit at the cutoff.
LEMMA FailedMirrored ==
    ASSUME Counted, Mirrored, NEW r \in Runs, Failed(r) PROVE Mirrored'
  <1> DEFINE n == IF health.failures < MaxFailures THEN health.failures + 1 ELSE health.failures
  <1>1. breaker' = RecordFailure(breaker) /\ breaker \in Breakers
    BY FailedHealth DEF Mirrored
  <1>2. n \in 0..MaxFailures /\ health.failures \in 0..MaxFailures
    BY FailedHealth
  <1>3. /\ health'.failures = n
        /\ health'.status = IF n >= FailedCutoff THEN "failed" ELSE "degraded"
    BY FailedHealth
  <1>4. CASE breaker.state = "closed"
    <2>1. breaker.failures = health.failures
      BY <1>4 DEF Mirrored
    <2>2. /\ breaker' \in Breakers
          /\ breaker'.state = IF n >= FailureThreshold THEN "open" ELSE "closed"
          /\ breaker'.failures = n
      BY <1>1, <1>4, <2>1, BreakerOperations, FailureCounts
    <2> QED BY <1>2, <1>3, <2>2 DEF Mirrored, StatusMirrorsCircuit, FailedCutoff
  <1>5. CASE breaker.state # "closed"
    <2>1. breaker' \in Breakers /\ breaker'.state # "closed"
      BY <1>1, <1>5, BreakerOperations, FailureCounts
    <2>2. ~(health.failures < FailedCutoff) /\ n >= FailedCutoff
      BY <1>2, <1>5 DEF Mirrored, StatusMirrorsCircuit, FailedCutoff
    <2> QED BY <1>2, <1>3, <2>1, <2>2 DEF Mirrored, StatusMirrorsCircuit
  <1> QED BY <1>4, <1>5

LEMMA StepMirrored == Counted /\ Mirrored /\ [Next]_vars => Mirrored'
  <1> SUFFICES ASSUME Counted, Mirrored, [Next]_vars PROVE Mirrored'
    OBVIOUS
  <1>1. ASSUME UNCHANGED <<breaker, health>> PROVE Mirrored'
    BY <1>1 DEF Mirrored, StatusMirrorsCircuit
  <1>2. ASSUME NEW r \in Runs, Enqueue(r) PROVE Mirrored'
    <2>1. /\ Allows(breaker) /\ breaker' = Allowed(breaker)
          /\ health'.failures = health.failures /\ health'.status = health.status
          /\ breaker \in Breakers
      BY <1>2 DEF Enqueue, Counted, Healths, Mirrored
    <2>2. /\ breaker' \in Breakers
          /\ (breaker'.state = "closed") = (breaker.state = "closed")
          /\ breaker'.state = "closed" => breaker' = breaker
      BY <2>1, BreakerOperations, AllowedKeepsClosed
    <2> QED BY <2>1, <2>2 DEF Mirrored, StatusMirrorsCircuit
  <1>3. ASSUME NEW r \in Runs, Skip(r) PROVE Mirrored'
    <2>1. /\ breaker.state # "closed" /\ breaker' = breaker
          /\ health'.failures = health.failures /\ health'.status = "circuit_open"
      BY <1>3 DEF Skip, Allows, Counted, Healths
    <2> QED BY <2>1 DEF Mirrored, StatusMirrorsCircuit
  <1>4. ASSUME NEW r \in Runs, Succeed(r) PROVE Mirrored'
    <2>1. breaker' = NewBreaker /\ health'.failures = 0 /\ health'.status = "ok"
      BY <1>4 DEF Succeed, RecordSuccess, Counted, Healths
    <2>2. breaker' \in Breakers /\ breaker'.state = "closed" /\ breaker'.failures = 0
      BY <2>1 DEF NewBreaker, Breakers, CircuitStates
    <2> QED BY <2>1, <2>2 DEF Mirrored, StatusMirrorsCircuit, FailedCutoff
  <1>5. ASSUME NEW r \in Runs, Setup(r) \/ Collect(r) PROVE Mirrored'
    BY <1>1, <1>5, FailedMirrored DEF Setup, Collect
  <1>6. ASSUME breaker' = breaker, health'.failures = health.failures,
               \/ health'.status = health.status
               \/ health'.status \in {"idle", "disabled", "degraded"}
        PROVE  Mirrored'
    BY <1>6 DEF Mirrored, StatusMirrorsCircuit
  <1>7. ASSUME NEW r \in Runs, Begin(r) \/ StorageFails(r) \/ Leave(r) PROVE Mirrored'
    BY <1>6, <1>7 DEF Begin, StorageFails, Leave, Counted, Healths
  <1>8. CASE Enable \/ Disable
    BY <1>6, <1>8 DEF Enable, Disable, Counted, Healths
  <1>9. CASE Tick
    <2>1. /\ breaker' \in Breakers /\ breaker'.state = breaker.state
          /\ breaker'.failures = breaker.failures /\ health' = health
      BY <1>9 DEF Tick, Cool, Mirrored, Breakers
    <2> QED BY <2>1 DEF Mirrored, StatusMirrorsCircuit
  <1> QED BY <1>1, <1>2, <1>3, <1>4, <1>5, <1>7, <1>8, <1>9 DEF Next, Step, Environment, vars

(* What GET /collectors shows is true, of the queue and of the circuit,    *)
(* whatever is admitted, fails or is clicked meanwhile.                    *)
THEOREM HealthSafe == Spec => []HealthTrue
  <1>1. Init => Locked /\ Counted /\ Mirrored
    <2> SUFFICES ASSUME Init PROVE Locked /\ Counted /\ Mirrored
      OBVIOUS
    <2>1. Locked
      <3>1. Idle \in RunStates
        BY DEF Idle, RunStates
      <3>2. run \in [Runs -> RunStates]
        BY <3>1 DEF Init
      <3> QED BY <3>2 DEF Init, Idle, Locked
    <2>2. Waiting = {}
      BY DEF Init, Idle, Waiting
    <2>3. Counted
      BY <2>2, FS_EmptySet DEF Init, Idle, Counted, Healths, Statuses, Executing
    <2>4. Mirrored
      BY DEF Init, NewBreaker, Breakers, CircuitStates, Mirrored, StatusMirrorsCircuit, FailedCutoff
    <2> QED BY <2>1, <2>3, <2>4
  <1>2. Locked /\ Counted /\ Mirrored /\ [Next]_vars => (Locked /\ Counted /\ Mirrored)'
    BY StepLocked, StepCounted, StepMirrored
  <1>3. Locked /\ Counted /\ Mirrored => HealthTrue
    <2> SUFFICES ASSUME Locked, Counted, Mirrored PROVE HealthTrue
      OBVIOUS
    <2> DEFINE executing == {r \in Runs : run[r].pc \in Executing}
    <2>1. \A q, r \in executing : q = r
      BY ExecutingIsHead
    <2>2. Cardinality(executing) <= 1
      <3> HIDE DEF executing
      <3>1. CASE executing = {}
        BY <3>1, FS_EmptySet
      <3>2. ASSUME NEW r \in executing PROVE Cardinality(executing) <= 1
        <4>1. executing = {r}
          BY <2>1, <3>2
        <4>2. Cardinality({r}) = 1
          BY FS_Singleton
        <4> QED BY <4>1, <4>2
      <3> QED BY <3>1, <3>2
    <2>3. health.inFlight = (executing # {})
      BY DEF Counted
    <2>4. HealthTellsQueue
      BY <2>2, <2>3 DEF Counted, Waiting, HealthTellsQueue
    <2> QED BY <2>4 DEF HealthTrue, Mirrored
  <1> QED BY <1>1, <1>2, <1>3, PTL DEF Spec
=============================================================================
