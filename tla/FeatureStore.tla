---------------------------- MODULE FeatureStore ----------------------------
(***************************************************************************)
(* features/base.py and features/store.py, for one symbol and timeframe:   *)
(* several engines compute features from the same candles, each on its own *)
(* interval job, and operators run them by hand.  A run upserts the values *)
(* it computed into the offline store, then reads, merges and writes the   *)
(* one online entry all engines share.  Each step is the code between two  *)
(* awaits.                                                                 *)
(*                                                                         *)
(* A value is its bar: recomputing a bar gives the same value.  The        *)
(* Parquet sink is written and never read, and is left out.                *)
(***************************************************************************)
EXTENDS Naturals, FiniteSetsExt, Functions

CONSTANTS
    Engines,      \* feature engines
    Runs,         \* interval jobs and POST /features/run requests under way
    Features,
    Owner,        \* the engine that computes a feature
    Referencing,  \* features that need the candles of a second symbol
    MaxBars       \* bound on the number of candles

ASSUME StoreAssumption ==
    /\ Owner \in [Features -> Engines]
    /\ Referencing \subseteq Features
    /\ MaxBars \in Nat \ {0, 1}

VARIABLES
    bars,        \* candles 1..bars are in the database
    referenced,  \* the candles of the reference symbol are there too
    offline,     \* feature_store rows: the bars stored for each feature
    online,      \* the Redis entry: the bar published for each feature
    run,         \* per run, where it is suspended
    disturbed    \* history: what has happened that the online entry suffers from

vars == <<bars, referenced, offline, online, run, disturbed>>

Bars == 1..MaxBars

Modes == {"incremental", "full", "range"}

\* An online entry maps a feature to a bar, or to 0 where it has none of it.
Entries == [Features -> 0..MaxBars]

\* No entry: get() returned nothing, or the payload is empty.
Absent == [f \in Features |-> 0]

NoBatch == [f \in Features |-> {}]

Idle == [pc |-> "idle", mode |-> "incremental", batch |-> NoBatch, payload |-> Absent]

TypeOK ==
    /\ bars \in 2..MaxBars
    /\ referenced \in BOOLEAN
    /\ offline \in [Features -> SUBSET (1..bars)]
    /\ online \in Entries
    /\ run \in [Runs -> [pc : {"idle", "computed", "storing", "merging", "refreshing",
                               "setting"},
                         mode : Modes,
                         batch : [Features -> SUBSET (1..bars)],
                         payload : Entries]]
    /\ disturbed \subseteq {"fault", "race", "range"}

Init ==
    /\ bars = 2
    /\ referenced = FALSE
    /\ offline = NoBatch
    /\ online = Absent
    /\ run = [r \in Runs |-> Idle]
    /\ disturbed = {}

-----------------------------------------------------------------------------
Newest(stored) == Max(stored \cup {0})

Finishes(r) == run' = [run EXCEPT ![r] = Idle]

\* Features a run of engine e computes: those whose inputs are there.
Computed(e) == {f \in Features : Owner[f] = e /\ (f \in Referencing => referenced)}

InProgress(r) == run[r].pc # "idle"

\* run(): load the candles of a range, here the whole history or two bars or more of
\* it, and compute the features in a thread.
Load(r, e, mode, first, last) ==
    /\ ~ InProgress(r)
    /\ first < last
    /\ run' = [run EXCEPT ![r] =
                 [pc |-> "computed", mode |-> mode, payload |-> Absent,
                  batch |-> [f \in Features |->
                               IF f \in Computed(e) THEN first..last ELSE {}]]]
    /\ disturbed' = disturbed
         \cup (IF mode = "range" THEN {"range"} ELSE {})
         \cup (IF \E q \in Runs \ {r} : \E f \in Computed(e) : run[q].batch[f] # {}
               THEN {"race"} ELSE {})
    /\ UNCHANGED <<bars, referenced, offline, online>>

\* The interval job of an engine, or a request that asks for the same.
RunIncremental(r, e) == Load(r, e, "incremental", 1, bars)

\* POST /features/run with full, or with start and end.
RunFull(r, e) == Load(r, e, "full", 1, bars)

\* Fault: the range asked for is taken as it is, whether it has candles or not.
RunRangeUnclipped(r, e) == \E first, last \in Bars : Load(r, e, "range", first, last)

RunRange(r, e) == \E first, last \in 1..bars : Load(r, e, "range", first, last)

\* Fault: the watermark query does not filter by feature.
NewValuesAnyFeature(batch) ==
    [f \in Features |-> {b \in batch[f] : b > Newest(UNION Range(offline))}]

\* build_values_at() with the watermarks of latest_ts_map().
NewValues(batch) ==
    [f \in Features |-> {b \in batch[f] : b > Newest(offline[f])}]

\* _process_series(): unless full, drop what the watermarks say is stored.
Compare(r) ==
    /\ run[r].pc = "computed"
    /\ LET batch == IF run[r].mode = "incremental" THEN NewValues(run[r].batch)
                    ELSE run[r].batch
           next == IF batch # NoBatch THEN "storing"
                   ELSE IF run[r].mode = "incremental" THEN "refreshing" ELSE "idle"
       IN  run' = [run EXCEPT ![r] = IF next = "idle" THEN Idle
                                     ELSE [@ EXCEPT !.batch = batch, !.pc = next]]
    /\ UNCHANGED <<bars, referenced, offline, online, disturbed>>

\* The newest value of each feature of a batch, as a batch.
NewestOf(batch) == [f \in Features |-> {b \in batch[f] : b = Newest(batch[f])}]

Publishes(r) ==
    run' = [run EXCEPT ![r].pc = "merging", ![r].batch = NewestOf(@)]

Upserted(r) == [f \in Features |-> offline[f] \cup run[r].batch[f]]

\* _write_offline(): all chunks are upserted and committed in one transaction.  Of the
\* batch, _write_online() keeps the newest value of each feature.
WriteOffline(r) ==
    /\ run[r].pc = "storing"
    /\ offline' = Upserted(r)
    /\ Publishes(r)
    /\ UNCHANGED <<bars, referenced, online, disturbed>>

\* Fault: the database error is caught and the values are published all the same.
DatabaseFailsSilently(r) ==
    /\ run[r].pc = "storing"
    /\ Publishes(r)
    /\ UNCHANGED <<bars, referenced, offline, online, disturbed>>

\* The database raises: the run ends there.  The commit may have been applied.
DatabaseFails(r) ==
    /\ \/ run[r].pc \in {"computed", "storing"} /\ UNCHANGED offline
       \/ run[r].pc = "storing" /\ offline' = Upserted(r)
    /\ Finishes(r)
    /\ disturbed' = disturbed \cup {"fault"}
    /\ UNCHANGED <<bars, referenced, online>>

\* _write_online() and refresh_online_ttl(): get_safe() of the entry, which is nothing
\* when Redis is down.  refresh_online_ttl() returns when there is nothing.
ReadEntry(r) ==
    /\ run[r].pc \in {"merging", "refreshing"}
    /\ \E payload \in {online, Absent} :
        /\ run' = [run EXCEPT ![r] =
                     IF run[r].pc = "refreshing" /\ payload = Absent THEN Idle
                     ELSE [@ EXCEPT !.pc = "setting", !.payload = payload]]
        /\ disturbed' = IF payload = online THEN disturbed ELSE disturbed \cup {"fault"}
    /\ UNCHANGED <<bars, referenced, offline, online>>

\* Fault: a plain overwrite.
PublishedOverwriting(r) == [f \in Features |-> Newest(run[r].batch[f])]

\* What a run sets: the entry it read, updated with the newest value of its batch.
Published(r) ==
    [f \in Features |-> IF run[r].batch[f] # {} THEN Newest(run[r].batch[f])
                        ELSE run[r].payload[f]]

\* set_safe(), which stores nothing when Redis is down; then the run returns.
WriteEntry(r) ==
    /\ run[r].pc = "setting"
    /\ \/ /\ online' = Published(r)
          /\ disturbed' = IF run[r].payload = online THEN disturbed
                          ELSE disturbed \cup {"race"}
       \/ /\ UNCHANGED online
          /\ disturbed' = disturbed \cup {"fault"}
    /\ Finishes(r)
    /\ UNCHANGED <<bars, referenced, offline>>

\* The entry outlives its TTL, or Redis loses it.
Expire ==
    /\ online # Absent
    /\ online' = Absent
    /\ disturbed' = disturbed \cup {"fault"}
    /\ UNCHANGED <<bars, referenced, offline, run>>

\* The process dies and restarts: the runs are gone.
Crash ==
    /\ \E r \in Runs : InProgress(r)
    /\ run' = [r \in Runs |-> Idle]
    /\ disturbed' = disturbed \cup {"fault"}
    /\ UNCHANGED <<bars, referenced, offline, online>>

NewBar ==
    /\ bars < MaxBars
    /\ bars' = bars + 1
    /\ UNCHANGED <<referenced, offline, online, run, disturbed>>

ReferenceArrives ==
    /\ ~ referenced
    /\ referenced' = TRUE
    /\ UNCHANGED <<bars, offline, online, run, disturbed>>

Step(r) ==
    \/ Compare(r) \/ WriteOffline(r) \/ DatabaseFails(r) \/ ReadEntry(r) \/ WriteEntry(r)

Next ==
    \/ \E r \in Runs, e \in Engines : RunIncremental(r, e)
    \/ \E r \in Runs, e \in Engines : RunFull(r, e)
    \/ \E r \in Runs, e \in Engines : RunRange(r, e)
    \/ \E r \in Runs : Step(r)
    \/ Expire
    \/ Crash
    \/ NewBar
    \/ ReferenceArrives

Spec == Init /\ [][Next]_vars
-----------------------------------------------------------------------------
(***************************************************************************)
(* Properties.                                                             *)
(***************************************************************************)

\* latest(): the online entry, or the offline rows where there is no entry.
Latest(f) == IF online # Absent THEN online[f] ELSE Newest(offline[f])

Quiet == \A r \in Runs : ~ InProgress(r)

LatestIsNewest == \A f \in Features : Latest(f) = Newest(offline[f])

\* The online entry never shows a value the offline store, "the source of truth",
\* does not have, whatever fails and whichever runs overlap.
OnlineIsStored == \A f \in Features : online[f] # 0 => online[f] \in offline[f]

\* Between runs latest() serves the newest stored value of every feature of every
\* engine, although each run publishes its own only: what upsets that is a failure, a
\* write over an entry that changed since it was read, two runs of an engine at once,
\* or a run over a range of the past, and nothing else.
LatestServed == Quiet /\ disturbed = {} => LatestIsNewest

\* "Merges into the existing entry - several engines share one key per
\* symbol/timeframe, and a plain overwrite would drop every other engine's features":
\* while nothing fails and no entry expires, no write drops a feature.
NoneDropped ==
    [][\A f \in Features : online[f] # 0 /\ "fault" \notin disturbed' => online'[f] # 0]_vars

\* All bars up to the newest one.
Gapless(stored) == stored = 1..Newest(stored)

\* Watermarks are "per-feature (not per-engine) so a feature that starts producing
\* values later than its siblings still gets its full history stored": no incremental
\* run leaves a bar behind, whatever ran beside it or failed before it.
NoGaps ==
    [][\A r \in Runs, f \in Features :
         /\ run[r].mode = "incremental"
         /\ run[r].pc = "storing"
         /\ run'[r].pc # "storing"
         /\ Gapless(offline[f])
         => Gapless(offline'[f])]_vars
=============================================================================
