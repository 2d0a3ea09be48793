----------------------------- MODULE Lifecycle -----------------------------
(***************************************************************************)
(* OpportunityLifecycleManager (prediction/lifecycle.py): concurrent calls *)
(* that advance an opportunity read its append-only ledger, validate the   *)
(* transition, announce it on the event bus and append one row.  Each step *)
(* below is the code between two awaits; calls interleave at the awaits.   *)
(*                                                                         *)
(* The database may fail a read, fail a commit, or apply a commit whose    *)
(* acknowledgement is lost; the process may crash and restart.             *)
(***************************************************************************)
EXTENDS LifecycleStages, FiniteSets

CONSTANTS
    Calls,       \* tasks that may call the manager at the same time
    Ids,         \* lifecycle ids
    LegacyLogs,  \* ledgers written before the per-id lock was introduced
    MaxTime      \* bound on the clock

Row == [stage : Stages, at : 0..MaxTime]

\* Legacy rows are stamped 0, and the clock starts at 1.  A legacy ledger may
\* repeat a row ("duplicate-consecutive-stage"), the one corruption get() heals.
ASSUME LegacyAssumption ==
    /\ MaxTime \in Nat \ {0}
    /\ LegacyLogs \subseteq Seq([stage : Stages, at : {0}])
    /\ \A rows \in LegacyLogs : Readable(rows)

VARIABLES
    log,        \* per id, the MarketEvent rows in id order
    minted,     \* ids handed out by uuid4, never reused
    queue,      \* per id, the asyncio.Lock: its holder first, then its waiters
    pc,         \* per call, where it is suspended
    req,        \* per call, the lifecycle and the stage it asks for
    at,         \* per call, the timestamp of the transition it writes
    heard,      \* per id, the stage last published on the bus
    acked,      \* <<id, stage>> pairs a call returned successfully
    clock

vars == <<log, minted, queue, pc, req, at, heard, acked, clock>>

Requests == [id : Ids, stage : Stages]

NoRequest == [id |-> "none", stage |-> NoStage]     \* of an idle call

PCs == {"idle", "waiting", "publishing", "committing"}

TypeOK ==
    /\ log \in [Ids -> Seq(Row)]
    /\ minted \in SUBSET Ids
    /\ queue \in [Ids -> Seq(Calls)]
    /\ pc \in [Calls -> PCs]
    /\ req \in [Calls -> Requests \cup {NoRequest}]
    /\ \A c \in Calls : pc[c] # "idle" => req[c] \in Requests
    /\ at \in [Calls -> 0..MaxTime]
    /\ heard \in [Ids -> Stages \cup {NoStage}]
    /\ acked \in SUBSET (Ids \X Stages)
    /\ clock \in 1..MaxTime

Init ==
    /\ log \in [Ids -> LegacyLogs \cup {<<>>}]
    /\ minted = {i \in Ids : log[i] # <<>>}
    /\ queue = [i \in Ids |-> <<>>]
    /\ pc = [c \in Calls |-> "idle"]
    /\ req = [c \in Calls |-> NoRequest]
    /\ at = [c \in Calls |-> 0]
    /\ heard = [i \in Ids |-> CurrentStage(log[i])]
    /\ acked = {}
    /\ clock = 1

-----------------------------------------------------------------------------
Id(c) == req[c].id

IsDetect(c) == req[c].stage = "detected"

\* Fault: no lock, or one per call.
HoldsLockUnlocked(c) == TRUE

\* async with self._lock_for(id): the first of the queue is inside.
HoldsLock(c) == queue[Id(c)] # <<>> /\ Head(queue[Id(c)]) = c

\* Leaving the async with block; detect() never took the lock.
Leave(c) ==
    /\ pc' = [pc EXCEPT ![c] = "idle"]
    /\ req' = [req EXCEPT ![c] = NoRequest]
    /\ at' = [at EXCEPT ![c] = 0]
    /\ queue' = IF IsDetect(c) THEN queue
                ELSE [queue EXCEPT ![Id(c)] = Tail(@)]

\* Fault: the state returned is the one read before the transition.
AcknowledgeStale(c) == acked' = acked \cup {<<Id(c), CurrentStage(log[Id(c)])>>}

\* The caller gets a state back rather than an exception.
Acknowledge(c) == acked' = acked \cup {<<Id(c), req[c].stage>>}

\* detect(): mint an id and stamp the first transition; no lock, no read.
Detect(c, i) ==
    /\ pc[c] = "idle"
    /\ i \notin minted
    /\ minted' = minted \cup {i}
    /\ req' = [req EXCEPT ![c] = [id |-> i, stage |-> "detected"]]
    /\ at' = [at EXCEPT ![c] = clock]
    /\ pc' = [pc EXCEPT ![c] = "publishing"]
    /\ UNCHANGED <<log, queue, heard, acked, clock>>

\* confirm() ... fail(): _advance queues on the lock of that lifecycle.
Request(c, i, s) ==
    /\ pc[c] = "idle"
    /\ req' = [req EXCEPT ![c] = [id |-> i, stage |-> s]]
    /\ queue' = [queue EXCEPT ![i] = Append(@, c)]
    /\ pc' = [pc EXCEPT ![c] = "waiting"]
    /\ UNCHANGED <<log, minted, at, heard, acked, clock>>

\* Under the lock, get() finds the stage already reached: nothing is written.
AlreadyThere(c) ==
    /\ pc[c] = "waiting" /\ HoldsLock(c)
    /\ CurrentStage(log[Id(c)]) = req[c].stage
    /\ Leave(c)
    /\ Acknowledge(c)
    /\ UNCHANGED <<log, minted, heard, clock>>

\* Under the lock, the id is unknown, the replay raises or apply_transition does.
Refuse(c) ==
    /\ pc[c] = "waiting" /\ HoldsLock(c)
    /\ CurrentStage(log[Id(c)]) # req[c].stage
    /\ ~ CanFollow(CurrentStage(log[Id(c)]), req[c].stage)
    /\ Leave(c)
    /\ UNCHANGED <<log, minted, heard, acked, clock>>

\* Fault: acquire() and release() without try/finally.
ReadFailsHoldingLock(c) ==
    /\ pc[c] = "waiting" /\ HoldsLock(c)
    /\ pc' = [pc EXCEPT ![c] = "idle"]
    /\ req' = [req EXCEPT ![c] = NoRequest]
    /\ UNCHANGED <<log, minted, queue, at, heard, acked, clock>>

\* Under the lock, the database read of get() raises.
ReadFails(c) ==
    /\ pc[c] = "waiting" /\ HoldsLock(c)
    /\ Leave(c)
    /\ UNCHANGED <<log, minted, heard, acked, clock>>

\* Fault: the timestamp is a default argument, evaluated once at import.
ValidateStampedAtImport(c) ==
    /\ pc[c] = "waiting" /\ HoldsLock(c)
    /\ CanFollow(CurrentStage(log[Id(c)]), req[c].stage)
    /\ pc' = [pc EXCEPT ![c] = "publishing"]
    /\ UNCHANGED <<log, minted, queue, req, at, heard, acked, clock>>

\* Under the lock, the transition is valid: it is stamped now.
Validate(c) ==
    /\ pc[c] = "waiting" /\ HoldsLock(c)
    /\ CanFollow(CurrentStage(log[Id(c)]), req[c].stage)
    /\ at' = [at EXCEPT ![c] = clock]
    /\ pc' = [pc EXCEPT ![c] = "publishing"]
    /\ UNCHANGED <<log, minted, queue, req, heard, acked, clock>>

\* Fault: a transition already announced by another call is not announced again,
\* nor is the one after it.
PublishOnce(c) ==
    /\ pc[c] = "publishing"
    /\ heard' = IF heard[Id(c)] = NoStage THEN [heard EXCEPT ![Id(c)] = req[c].stage]
                ELSE heard
    /\ pc' = [pc EXCEPT ![c] = "committing"]
    /\ UNCHANGED <<log, minted, queue, req, at, acked, clock>>

\* _persist, first half: the transition is announced before it is recorded.
Publish(c) ==
    /\ pc[c] = "publishing"
    /\ heard' = [heard EXCEPT ![Id(c)] = req[c].stage]
    /\ pc' = [pc EXCEPT ![c] = "committing"]
    /\ UNCHANGED <<log, minted, queue, req, at, acked, clock>>

AppendRow(c) ==
    log' = [log EXCEPT ![Id(c)] = Append(@, [stage |-> req[c].stage, at |-> at[c]])]

\* _persist, second half: the row is committed and the call returns.
Commit(c) ==
    /\ pc[c] = "committing"
    /\ AppendRow(c)
    /\ Leave(c)
    /\ Acknowledge(c)
    /\ UNCHANGED <<minted, heard, clock>>

\* Fault: the database error is logged and swallowed.
CommitFailsSilently(c) ==
    /\ pc[c] = "committing"
    /\ UNCHANGED log \/ AppendRow(c)
    /\ Leave(c)
    /\ Acknowledge(c)
    /\ UNCHANGED <<minted, heard, clock>>

\* The commit raises: the row is lost, or is there but not acknowledged.
CommitFails(c) ==
    /\ pc[c] = "committing"
    /\ UNCHANGED log \/ AppendRow(c)
    /\ Leave(c)
    /\ UNCHANGED <<minted, heard, acked, clock>>

\* Crash and restart: the locks and the calls are gone, the ledger stays.
Crash ==
    /\ pc' = [c \in Calls |-> "idle"]
    /\ req' = [c \in Calls |-> NoRequest]
    /\ at' = [c \in Calls |-> 0]
    /\ queue' = [i \in Ids |-> <<>>]
    /\ UNCHANGED <<log, minted, heard, acked, clock>>

Tick ==
    /\ clock < MaxTime
    /\ clock' = clock + 1
    /\ UNCHANGED <<log, minted, queue, pc, req, at, heard, acked>>

\* What the event loop runs of a call already made.
Step(c) ==
    \/ AlreadyThere(c) \/ Refuse(c) \/ ReadFails(c) \/ Validate(c)
    \/ Publish(c) \/ Commit(c) \/ CommitFails(c)

Next ==
    \/ \E c \in Calls, i \in Ids : Detect(c, i)
    \/ \E c \in Calls, i \in Ids, s \in Stages \ {"detected"} : Request(c, i, s)
    \/ \E c \in Calls : Step(c)
    \/ Crash
    \/ Tick

Spec == Init /\ [][Next]_vars
-----------------------------------------------------------------------------
(***************************************************************************)
(* Safety.                                                                 *)
(***************************************************************************)

\* "so no record is permanently unreadable": get() never raises on a ledger,
\* whatever calls raced, failed, were retried or were cut by a crash.
LedgerReadable == \A i \in Ids : Readable(log[i])

\* "a race can never write two transitions off the same stale read": only legacy
\* rows (stamped 0) repeat the stage before them, though calls are duplicated and
\* retried after a commit whose outcome they never learned.
NoNewDuplicates ==
    \A i \in Ids : \A k \in 1..(Len(log[i]) - 1) :
        log[i][k + 1].stage = log[i][k].stage => log[i][k + 1].at = 0

\* The delays derived from stage_timestamps are never negative: rows are in the
\* order of their stamps, although a call may wait long for the lock.
StampsOrdered ==
    \A i \in Ids : \A k \in 1..(Len(log[i]) - 1) : log[i][k].at <= log[i][k + 1].at

\* The ledger is sound: it replays, repeats nothing of its own, and is in time order.
LedgerSound == LedgerReadable /\ NoNewDuplicates /\ StampsOrdered

\* A transition the caller was told about is in the ledger for good.
AckedIsDurable ==
    \A a \in acked : \E k \in DOMAIN log[a[1]] : log[a[1]][k].stage = a[2]

\* Subscribers are never behind the ledger: what they last heard is its current
\* stage or, after a commit that failed or is under way, one transition ahead.
SubscribersNotBehind ==
    \A i \in Ids : \/ heard[i] = CurrentStage(log[i])
                   \/ CanFollow(CurrentStage(log[i]), heard[i])

\* Seen through get(), the ledger implements the abstract stage machine: no
\* interleaving, failure or crash skips a stage, goes back or leaves a terminal one.
Abstract == INSTANCE OpportunityStages
              WITH stage <- [i \in Ids |-> CurrentStage(log[i])]
ImplementsStages == Abstract!Spec

\* The queue of a lifecycle's lock is exactly the calls suspended on that lifecycle,
\* each once: whatever a call runs into, it gives up its place and no other's, so no
\* exit path leaves callers waiting for a call that is gone.
LockAccounted ==
    \A i \in Ids :
        /\ \A j, k \in DOMAIN queue[i] : queue[i][j] = queue[i][k] => j = k
        /\ {queue[i][k] : k \in DOMAIN queue[i]}
             = {c \in Calls : pc[c] # "idle" /\ Id(c) = i /\ ~ IsDetect(c)}
=============================================================================
