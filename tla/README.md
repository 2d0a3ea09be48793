# QuantStack in TLA+

A verification project for the backend of QuantStack (`src/backend/app`): TLA+
models of its stateful components and of its algorithms, TLC runs that check them
on small instances, and theorems that TLAPS proves for every instance.

QuantStack is one FastAPI process. Everything in it runs on one asyncio event
loop, so code between two `await`s is atomic and everything else interleaves:
scheduled collectors, HTTP requests, market-hours sweeps, event handlers. The
models of stateful components take one step per stretch of code between awaits.
The feature, intelligence and prediction engines are mostly pure functions; their
models are operators, checked on every input of a bounded set.

## 1. Inventory

| Component | State | Operations | Interacts with |
|---|---|---|---|
| Opportunity lifecycle (`prediction/lifecycle.py`) | append-only rows in `market_events`; one `asyncio.Lock` per id in memory | detect, confirm, qualify, mark_sent, monitor, expire, succeed, fail, get | publishes on the event bus, then commits to PostgreSQL |
| Circuit breaker (`core/circuit_breaker.py`) | state, consecutive failures, opened_at, half-open calls | allow_request, record_success, record_failure | owned by each collector and by the broker adapter |
| Broker adapter (`market/angel_one.py`) | session token, refresh token, semaphore, breaker | connect, refresh_session, quotes, candles, greeks | called by market-data collectors; SmartAPI over HTTP |
| Collector framework (`collectors/base.py`, `registry.py`, `pipeline.py`) | per collector: health record, run lock, breaker; registry: disabled set | run_once, run_collector, enable, disable, process | APScheduler jobs and POST /collectors; database, event bus |
| Event bus (`events/bus.py`) | subscribers, idempotency window, dead letters | subscribe, publish, replay_dead_letter | every module publishes; operators replay |
| WebSocket feed, tick aggregator, candle collectors (`market/angel_ws.py`, `collectors/tick_aggregator.py`, `market_data.py`) | connection flag, last ticks, open bars, `ohlcv` rows | connect loop, on_tick, ingest, flush, rollup, historical fetch | feed -> aggregator -> upserts, beside the historical collector's |
| Collectors of the domains (`collectors/domains/`) | articles seen; the cumulative breadth line; otherwise none | collect, validate | sources -> observations -> pipeline -> `market_events` |
| Sources (`collectors/sources/`) | answers in memory and in the cache service, sessions with cookies, warmed volumes, the events file | fetch | exchange sites, cache service |
| Feature store and registry (`features/base.py`, `store.py`) | offline rows, one online Redis entry per symbol and timeframe | run, write, latest, TTL refresh | an interval job per engine, POST /features/run, prediction engines |
| Feature engines (`features/*.py`) | none: computed from bars or collector runs | load, compute, normalise | the feature store |
| Intelligence engines (`intelligence/`) | regime belief, state cache per engine | analyse, update belief, compose | feature store, composite report |
| Prediction engines (`prediction/`) | trained ensembles, calibrations and registry tables; ranked signals | label, train, calibrate, predict, qualify, rank, suppress duplicates | feature store, intelligence, lifecycle |
| Start-up, sweeps, scheduler (`main.py`, `scheduler/`) | running sweeps, their lock and semaphore | lifespan, sweeps, shutdown | everything above |

What is hard, and what makes each part correct:

* **Lifecycle.** Calls race on a read-then-append over a log that is replayed on
  every read: one bad row makes an opportunity unreadable for ever. Correct
  means: the log stays readable, gains no duplicates, is in time order, holds
  what callers were told, and subscribers are never behind it.
* **Breaker.** Outcomes arrive in any order, from calls admitted in earlier
  states. Correct means: it opens when the threshold is reached and never loses
  track of a half-open probe.
* **Broker adapter.** A 401 nests a request in a request, through the same breaker
  and semaphore. Correct means: nothing hangs, and errors of the data or of the
  session are not held against the broker.
* **Collectors.** Admission is decided before the lock is taken, and operators
  act at any moment. Correct means: health tells the truth, the failure count
  and the circuit agree, runs end, a healthy source brings the collector back.
* **Event bus.** Retries, a bounded dead-letter queue, a bounded dedup window and
  replays meet. Correct means: a delivery has one fate, ids are deduplicated
  within the window, letters leave only for cause.
* **Candles.** Two collectors and a rollup write the same rows from a feed that
  stops without saying so. Correct means: no bar of the future, no prices older than
  the minute before, a rollup that is true to its minutes (the fold of the stored ones,
  or fetched of its window), live bars that grow and stay live.
* **Feature store.** The engines share one online entry per symbol and update it
  by reading, merging and setting it in separate awaits, after the offline
  commit. Correct means: the entry shows only stored values, `latest()` serves
  the newest of every feature, and incremental runs leave no gap behind their
  watermarks.
* **Training.** Requests and the nightly sweep train the same key; cache and
  registry are updated in separate awaits, each of which may fail. Correct means:
  the registry explains the ensemble that answers, and a calibrated answer is out
  of sample.
* **Sweeps and belief.** Scans and requests read, change and store one belief per
  symbol. Correct means: an engine feeds a reading once, the belief catches up
  with the newest reading, and no run holds the lock for ever.
* **Signals.** Requests rank and filter while others do. Correct means: nothing is
  delivered twice within the cooldown, nothing redundant is delivered together,
  and nothing is suppressed without a cause: a signal kept beside it, or a row that was
  ranked before, by whichever request (`GET /priority` ranks and delivers nothing).
* **Domains and sources.** Sources fail in parts, expire, and repeat themselves;
  what is remembered outlives or predates what is stored. Correct means: an
  article is stored once, the breadth line continues over restarts, answers are
  young and whole, trading freezes around events.
* **Engines.** Windows slide incrementally over values that may be missing, and
  boundaries and signs are easy to get wrong. Correct means: no hindsight, values
  within their declared ranges, and a market seen in a mirror is read the other
  way round.

## 2. Modules

| Module | Models | Composes |
|---|---|---|
| `LifecycleStages` | stages and `apply_transition` / `replay_transitions` in closed form | |
| `OpportunityStages` | abstract specification: one stage per id that moves along allowed transitions | `LifecycleStages` |
| `Lifecycle`, `MCLifecycle` | `OpportunityLifecycleManager`: locks, reads, publish, commit, failures, crash | `LifecycleStages`; refines `OpportunityStages` |
| `CircuitBreaker` | the breaker as operators on a record | |
| `BreakerClients` | tasks sharing one breaker | `CircuitBreaker` |
| `BrokerAdapter` | `AngelOneAdapter._request`, login, refresh | `CircuitBreaker` |
| `CollectorRun` | one collector under scheduler, forced runs, enable/disable | `CircuitBreaker` |
| `EventBus` | publish, deliver, dead letters, replay | |
| `Candles` | feed, aggregator, live and historical collectors, rollup, restart | |
| `FeatureStore`, `MCFeatureStore` | runs of feature engines, the offline upsert, the shared online entry | |
| `Training` | `EnsemblePredictionEngine`, calibration, agreement, the registry tables | |
| `Sweeps` | market-hours sweeps and requests, per-engine state cache, persisted regime belief | |
| `Algorithms` | every input of the pure algorithms, topic by topic | `Candidates`, `Intelligence`, `Observations`, `Features` |
| `LifecycleReplay` | the replay loop row by row, on arbitrary ledgers | `LifecycleStages` |
| `Labels` | triple-barrier labelling of a trade, bar by bar | |
| `Verdicts` | blend, calibration, market adjustment, qualification, conviction, priority | `Weighing` |
| `Candidates` | what becomes of a scan's results, and how long a signal has stood | |
| `Structure` | swings, breaks, gaps, order blocks, session profile | |
| `Intelligence` | what each intelligence engine says of its features, and the composite | `Weighing` |
| `Observations` | what each domain collector observes in a snapshot | `Weighing` |
| `Weighing` | weighted means of what is there | |
| `Features` | the feature engines, each on inputs of a bounded set | `RunFeatures`, `BarFeatures`, `SessionFeatures` |
| `Components`, `MCComponents` | components that share no state, one per behaviour | `Signals`, `NewsFeed`, `BreadthLine`, `Sources`, `EventSchedule`, `LifecycleReplay`, `Labels`, `Structure`, `Verdicts`, `BreakerClients`, `BrokerAdapter` |
| `Signals` | ranking and duplicate suppression under overlapping requests | |
| `NewsFeed` | what the news collectors remember and store | |
| `BreadthLine` | the cumulative advance/decline line over restarts and failing writes | |
| `Sources` | caches in memory and in Redis, cookies, required feeds, warmed volumes | |
| `EventSchedule` | the events file, its cache, recurring events, freeze windows | |
| `Normalization` | rolling transforms and their sliding state | |
| `RunFeatures` | engines of collector runs: snapshots, moments, watermark, values | `Normalization` |
| `BarFeatures`, `SessionFeatures` | engines of bars, of sessions, of the calendar | `Normalization` |
| `LifecycleProofs`, `CollectorProofs`, `EventBusProofs`, `FeatureStoreProofs`, `CandlesProofs`, `SweepsProofs`, `TrainingProofs` | proofs | the module each is named after |
| `ComponentsProofs` | proofs about every component of `Components` | `Components` |

How state and actions correspond to the code is named at each definition, and
`PROJECT.json` maps each to its lines. In short:

* `Lifecycle`: `log[i]` is the rows `get()` selects for lifecycle `i` in id
  order; `queue[i]` is that id's lock, holder first; `pc[c]` says at which await
  call `c` is suspended (`waiting` for the lock or in `get()`, `publishing`,
  `committing`). `CommitFails` is a commit that raises, with or without the row
  having reached the database. `Crash` drops calls and locks and keeps the log.
* `BreakerClients`: `calling` are the calls admitted and not yet answered,
  `probing` those admitted in the present half-open spell. The failure count
  saturates at `MaxFailures`, above every threshold it is compared with.
* `BrokerAdapter`: `call[t]` is the request task `t` makes, with the attempt of
  the request (`outer`) and of a nested session request (`inner`). A token is
  what the broker thinks of it: `none`, `live` or `expired`. `faults` is chosen
  at the start of a behaviour, so a property can speak of one kind of broker.
* `CollectorRun`: `run[r]` is where run `r` is suspended, `queue` the run lock.
  `env` is the market, the source and the database, which change at any moment.
* `EventBus`: `fanouts` is the history of fan-outs, `attempt[d]` the attempt a
  delivery is at; `handled` the deliveries whose handler returned.
* `Candles`: `truth` is the market minute by minute, `packet` the feed's last tick,
  `memory` the aggregator's bar, `live` and `history` the two collectors between
  their awaits, `stored` and `rollup` the rows of `ohlcv` with who wrote them last.
  `collect()` goes through the intervals one by one; of them the model has the minutes
  and one coarser interval, whose rows both collectors write: `Fetch` and `FetchCoarse`
  insert what a source tells of either, each after its own lookback, with DO NOTHING;
  `Commit` upserts the minute and the fold of its window.
  A feed is `closed` when its socket is gone and its flag still says connected.
  A bar is its low and its high.
* `FeatureStore`: one symbol and timeframe. `run[r].pc` is where a run is
  suspended (`computed`: before the watermark query, `storing`: in the offline
  upsert, `merging` and `refreshing`: in the read of the entry, `setting`: in its
  write), `batch` the values it has in hand, `payload` the entry it read. A value
  is its bar. `disturbed` is history: which of the causes that may upset the
  entry (a failure, a race, a ranged run) have occurred.
* `Training`: one key. `cached` and `calibrated` are the two dictionaries in
  memory, `datasets`, `versions` and `attempts` the three tables. A training row is
  the number of its label, a training the rows it took, a fit the pairs it was
  made of; `serial` tells trainings apart that are equal otherwise.
* `Sweeps`: `belief[s]` is the newest persisted update of a symbol's belief,
  reduced to its count and the readings blended into it; `fed` is
  `_last_fed_states` of either engine; `run[r].at[s]` is where run `r` is with
  symbol `s`. `overlapped` is history.
* `Signals`: `ranked` is the rows `rank()` stored, `delivered` what requests kept.
* `RunFeatures`, `BarFeatures`, `SessionFeatures`: the variables are inputs (rows of
  collector runs, bars, a day) that grow as the table does; the values the engines
  compute are operators of them, but for the rows `RunFeatures` has stored.

Data are reduced to what the properties tell apart. Prices are small integers,
scores and probabilities are whole percents, a deviation is kept as its square, an
article is a few words that are in the dictionaries of the code. Curves (`tanh`, the
entropy of topics) are straight lines between the same ends; no property depends
on their shape, only on their being monotone and on where they end.

Operators under a comment that starts with `Fault:` are variants of the
definition below them with one plausible bug. Each property is known to fail
under one of them (`mutants` in `PROJECT.json`).

## 3. Runs

| Run | Question | Bounds and why they suffice |
|---|---|---|
| `lifecycle` | do racing, failing, retried, crashed calls keep the ledger sound, does it refine the stage machine, is anybody left in the lock? | 2 calls on 1 id (ids share nothing), 2 clock values, 2 corrupted legacy ledgers. Two calls are the race the code documents; every ledger up to a terminal stage is reached because calls repeat. |
| `breaker` | does the breaker recover? | threshold 2, 2 probes, 3 clients: a late answer beside a full half-open spell. What it must never do is in `components`. |
| `adapter` | does every request end? | 2 tasks, 1 permit, 1 retry: a nested refresh against a competing request; every subset of the faults |
| `adapter_stuck_probe` | does a half-open circuit wait for a probe that is out? (violated) | as above |
| `collector` | do health, circuit and lock agree under racing runs; do runs end, does a collector come back, does a disabled one drain? | 1 scheduled and 2 forced runs, threshold 3 as in the code, 1 retry, the market-hours gate |
| `bus` | dedup, fate of each delivery, dead letters, publishers | 2 events, 2 handlers, window 1, queue of 1 letter, 3 fan-outs: an eviction and a replay of what is left both fit |
| `feature_store` | is the online entry sound and fresh, are there gaps? | 2 runs, 2 engines with a feature each, one of them waiting for a second symbol, 3 candles: a run over an old range, one over a new bar, and a feature that starts late all fit |
| `candles` | is every bar of the table true, does the rollup follow, do live bars grow? | 3 minutes in days of 2, rollups of 2 minutes, lookbacks of 1 and 2, 2 prices, one minute that both are traded in: a day's end, a rollup window cut short by it, a bar of either interval written by both collectors and over a restart |
| `training` | does the registry explain the cache, is a calibrated answer out of sample, do calls end? | 2 callers, 3 trainings, 3 labels of which 2 are enough to train: overlapping trainings of the same and of different rows, a row that is new to the dataset, a failing write |
| `sweeps` | is a reading fed once per engine, does the belief catch up, do runs end? | 2 runs of any kind, 1 symbol, 2 readings, 1 failure (before the belief is stored or after), 1 restart: both sweeps, or a sweep and a request, overlap at every await |
| `algorithms` | are the algorithms right on every bounded input? | see below |
| `components` | are the components that share no state right, each by itself? | see below |

`algorithms` takes up one topic in a behaviour and builds an input of it:

* `candidates`: results on both sides of every threshold, with each source missing;
  `assessments`: each intelligence engine on present, missing, opposed and equal
  signals. `AssessmentsSound`: even-handed, monotone in each signal, and docked for
  conflicts only; a candidate is what its results say.
* `observations`: chains around a spot that is or is not a strike, with legs and
  greeks missing; calendars with events before, in and at the edges of their
  windows; universes, sectors, factors; articles of up to 3 words that count.
  `ObservationsSound`: mirrored chains, breadth, flows and factors are observed the
  other way round (but for the ties and the missing values named in section 7); sectors
  are seen against their benchmark, so that a move of the whole market shows in none
  and a mirrored market turns each round (its score, too, where volumes are even, which
  have no mirror image); a missing input counts neither way, max pain balances, the
  calendar is cautious.
* `features`: each of the 7 engines of runs on up to 3 or 4 rows of 3-6 kinds, windows
  of 2 and 3, incremental and full runs and failing writes; `series`: up to 5 points, two
  columns, values missing; `bars`: up to 5 bars of 4 shapes (rising, falling, still,
  not traded), with and without benchmark and peers, windows 2 and 3, loaded from
  any bar on; `sessions`: 7 bars in sessions of 4, 6 of them loaded; `calendar`: a
  year of the real length beginning on any weekday, leap or not, two holidays.
  `FeaturesSound`.

`components` likewise takes up one component in a behaviour:

* `signals`: 2 overlapping requests, 3 symbols of which each pair is redundant for
  another reason, 3 scans, the 2 best ranked. `SignalsSound`.
* `feeds`: 4 articles, 2 alike, 2 remembered, failing writes and restarts; `line`: 4
  runs, 3 failures. `FeedsSound`.
* `sources`: one with a session, one with the cache service and volumes, answers
  that live 2 minutes of 5; `schedule`: entries inside, across the edge of and
  outside the windows of a rule, an edit while the file is cached. `SourcesSound`.
* `replay`: every ledger of up to 4 rows over 8 stages, with and without a reason;
  two repetitions and two transitions fit. `ReplaySound`: the row-by-row replay is
  the closed form the other proofs use, heals exactly what it should, and measures
  consistently.
* `labels`: trades of up to 3 bars at prices around the stop, the activation of the
  trail and the target, with an event barrier or not, after one gap.
  `ExitsExplained`: an exit is a price and a bar the trade could have ended at;
  `LabelsSettle`: a label good enough to train on is not changed by later bars.
* `charts`: series of up to 6 bars of 5 shapes, in sessions of 3.
  `ChartsSound`: a chart in a mirror reads the other way round, a level breaks once,
  the profile is the session's; `HindsightFree`: what is said of a bar is not changed by
  later ones.
* `verdicts`: readings on both sides of every threshold, with each source missing.
  `VerdictsSound`: a blend lies between its inputs, the market takes a probability
  towards one half and never past it, and a trade qualifies only with its models, its
  spread, the quality of its features and its analogs known, and four fifths of the
  ensemble behind it (the gates of liquidity and events are open, see section 7).
* `circuit`: 3 clients, threshold 2, 2 probes; `broker`: 2 tasks, 1 permit, 1 retry,
  every subset of the faults. `CallsGuarded`: the circuit opens on time and accounts
  for its probes, and body errors and expired sessions leave the broker's closed.

`CHECK_DEADLOCK FALSE` is said where the system may rest or an input is at its
bound: an idle bus, an adapter whose stuck circuit refuses everything, the inputs
of `algorithms` and `components`.

### What the violated run shows

`adapter_stuck_probe`: a half-open probe that meets an error in the body leaves
`_request` by `except BrokerError: raise`, and one that meets a 401 has its nested
refresh refused by the half-open circuit it is the probe of. Neither records an
outcome; the circuit stays half-open with its place used.

## 4. Fairness

* `Lifecycle`, `FeatureStore`, `Candles`, `Components`: none. That a queued call is
  not left behind is the safety property `LockAccounted`: the queue of a lock is
  exactly the calls suspended on it, so a lock is never held by a call that has gone.
* `BreakerClients`, `BrokerAdapter`, `CollectorRun`: interval jobs keep firing,
  requests are answered or time out (15 s in `httpx`), time passes. The
  semaphore of the adapter serves waiters in turn, hence strong fairness on
  `Send`. The dependency owes nothing: recovery is conditional on it staying up.
* `EventBus`: every delivery is run; handlers return or raise. No one is obliged
  to publish or to replay.
* `Training`: a call that has begun goes on: the database answers or raises, and
  fitting ends. No one is obliged to call.
* `Sweeps`: a run that has begun goes on; either sweep is started again and again by
  its interval job, which skips a turn while the lock is taken, hence strong fairness.
  Restarts and failures are bounded, so that they do not go on for ever.

## 5. Proofs

All proofs are by an inductive invariant, found by strengthening what the runs
check until each action preserves it; TLC checked the strengthenings on the bounds
above first.

`LifecycleProofs`, for any set of calls and ids, any legacy ledgers that satisfy
`LegacyAssumption` (they can be read, stamped before the clock) and any bound on
the clock. The inductive invariant `IInv` adds to the checked invariants what
they rest on: a call past validation heads the queue of its id (so two are
never past it: `OneWriter`), the stage it is about to append may follow the
ledger's current stage, its stamp is not older than any row and not newer than
the clock, an id that is being detected has an empty ledger, and a terminal
ledger has no writer. Without the second the append could break readability;
without the first the second would not survive another call's commit.
`TypeCorrect`, `LedgerSafe` and `AckedSafe` follow; `Refinement` maps each step to
a move of `OpportunityStages` or a stutter, using `CurrentStageFacts` and
`AppendReadable` on how one more row changes what a ledger reads as.
`LocksSafe` proves that every call is in the queue it waits in and nowhere else,
for any failure; `SubscribersSafe` that rows beyond the legacy ones were
announced, which rests on the event a call published being the row it appends.

`CollectorProofs`, for any number of forced runs, any gate, any number of retries
(`RunAssumption`: the breaker has its default threshold, which is the cutoff of
"failed"): `HealthSafe`. Three parts. `Locked`: the queue of the run lock is the runs
that are not idle, once each, and all but its head wait; so one run executes.
`Counted`: `queue_length` is the number that wait, `in_flight` whether one executes;
it rests on `Locked`, which says of the run that leaves that no other executes.
`Mirrored`: while the circuit is closed the breaker's count and the collector's
are the same; without that the two could reach the threshold at different times.

`EventBusProofs`, for any events, handlers, retries, window, queue and bound on
fan-outs. `DedupSafe` rests on `Windowed`: the window holds the ids of the latest
fan-outs, in order, and the id of a replay is its own. `FateSafe` rests on `Fates`: a
delivery that is a letter, or was one and is being replayed, is neither handled nor
being attempted, and letters are distinct. `LettersSafe` rests on `Addressed`: what is
attempted or is a letter belongs to a handler that still subscribes, so that a letter
can only leave by being replayed or by eviction.

`FeatureStoreProofs`, for any engines, features and runs and any number of candles
(`StoreAssumption`): `OnlineSafe`. The online entry shows stored values because
what a run has in hand past its commit is stored (`InHandIsStored`), both the
batch it publishes and the entry it read; offline rows are never removed, so
other runs cannot invalidate either. The batch has one bar at most for each
feature by then, which makes its newest bar that bar (`NewestOfOne`).
`GapsSafe` is the action property that no run leaves a bar behind: until it stores them,
the bars an incremental run computed reach down to the newest stored one (`GapsKnown`),
which overlapping runs preserve because they can only store more.
`LatestSafe` is about the shared online entry. Unless a failure, an overlap or a run over
the past touched the entry (the history variable `disturbed`), one run at most has
bars of an entry in hand (`Alone`), what it has in hand is no older than any stored
bar (`Ahead`), and the entry either shows the newest stored bar or that run has yet to
publish (`UpToDate`). Only the three together survive a step.

`CandlesProofs`, for any prices, length of a day, bucket width and lookbacks, however long
the market runs. `TableSafe` rests on what is on its way into the table: the feed's last
tick is a price of the minute it was received in (`PacketReal`), the bar in memory is of
prices of its minute or the one before (`MemoryReal`: a tick is stamped when it is
drained), and a run of the historical collector is held to the time it began
(`HistoryPast`). `LiveBarsSafe`, an action property, adds `LiveRowsKept`: a live row is of a
minute the aggregator has left, or its bar in memory covers it; so no flush narrows
one. `RollupSafe` adds `FoldKnown`: the fold a flush is about to commit is one of the rows
as its commit will leave them, although the historical collector may store rows
between the flush's read and its commit. It needs that buckets partition a session
(`BucketFacts`, `WindowFacts`: a bucket is its own bucket, and a minute is in the window
of its bucket only), and that folding a row again changes nothing, and folding one more
only widens (`FoldSame`, `FoldWidens`). Of a row the historical collector fetched it
says less, that it shows prices of its window (`RollupsShown`, `ToldCoarseFacts`): the
market goes on in a minute that has not ended (`StepWider`: a window only gains prices).
That a fetched row never becomes one of the other kind by itself is `StepLiveRollups`.

`SweepsProofs`, for any sweeps and requests, watchlist, width of a scan and number of
readings, failures and lives: `SweepsSafe`. `FedOnce` bounds a counter two engines
increment, each by a load and a later store, so that one may overwrite the other.
The argument is a credit per engine and symbol, a function of the state: the
number of times the engine may have fed the symbol by now - its last reading plus the
later lives, or one less than the reading it is feeding if it has fed none, and one
more once that is stored. A store raises the credit of its engine by one; only an
update that fails after its row is stored lowers one, by one, which the failure it
counts as makes up for; and the belief - as well as the prior a run has loaded - is
within the sum of the two and the failures (`Counted`). That rests on
`Fresh` (what is being fed is newer than what was fed in this life: a reading only
rises and an engine compares before it feeds) and on `Alone` (no other run of the
engine is at work, which is what `overlapped = {}` says).

`TrainingProofs`, for any number of callers, any lookbacks and any number of labels
and trainings. `RegistrySafe` rests on `Registered`: what a call that is about to cache
its training holds is already explained by rows, and rows are never removed.
`SampleSafe` rests on `Consistent`, of the trainings that are held (by a call past
fitting, or cached), the fits in use and the calls still labelling or fitting: a
serial names one training, a fit with the serial of a training is a fit of the
holdout rows of that training, and a call still fitting has a serial nobody holds
yet. It is stated of sets so that a step that moves a training from a call to the
cache needs one argument (a smaller set is as consistent), not one per action.

`ComponentsProofs` proves what the run `components` checks, but for `ChartsSound`, of `Components` itself:
`Spec` projects to the specification of each part (`SourcesProject`, `ReplayProjects` and
so on: every action moves one part or leaves it alone), and each part is proved there.

* `SourcesSafe`, for any sources, feeds, lifetimes and faults. `MemoryAged` and
  `CachedAged` say of a kept answer what the property says of a served one, but from
  the moment it was kept: it is of that moment, or came from the cache service within
  its term, hence the doubled bound where both are used. `MissesCool`: a session that
  missed is no longer warm, so the next request renews it. For the schedule,
  `ListTrue`: a list that was made after the last edit is of the file as it is, with
  the next recurrence; a list is younger than every window it could miss.
* `ReplaySafe`, for ledgers of any length and any content. The loop is a fold, the
  closed form quantifies over neighbours; `Accepted` says of a prefix what the closed
  form says, and one more row changes it in one place only. `Measured` holds what the
  stamps, the reason and the outcome are while the replay has not raised.
* `LabelsSafe` and `SettleSafe`, for paths of any length and any integer prices. A
  trade that runs knows of the bars before that none touched a barrier and that the
  stop is behind the trail of each of them (`Running`); one that has ended, which bar
  it ended in and why that bar allows it (`Finished`). `BarTurns` takes the loop body
  case by case. A label is final because a trade that ended never moves, and one that
  did not is good enough only once the holding period is over.
* `SignalsSafe`, for any number of overlapping requests, any signals, sectors and
  correlations. `Overlapping` says who may not have seen whose rows: requests in
  progress overlap each other, and whatever was delivered meanwhile. `Soundness`
  ties each request to the rows it stored. Two delivered signals are kept apart
  because the later request read the rows the earlier had stored, unless so many rows
  of the symbol came in between that it was out of sight (`Separate`). Rows are only
  appended, so what is out of sight stays so.
* `FeedsSafe`, for any articles and likenesses among them, any length of a feed and
  of the memory. `New` of a fetch is a fold over its articles;
  what it returns (nothing like another or like what is known, and everything like
  something that is) is proved by induction over the prefixes: the fold is a table over
  sets of positions (`Tabled`), which one more position extends (`TableExtends`).
  `Remembering` counts how many articles may have come after one that is still in
  memory; `FeedsOnce` is the property from that count; `FeedsCovered` accounts for
  what was dropped. `LineInv`: a line that has not been read gained nothing yet.
* `HindsightSafe`, for series of any length, any bars and settings: the structure of a
  bar is the same when bars are added. The loop is a fold over rounds, a round being
  what its bar reads of the series (`Round`); `RoundStands` is that a round reads no
  later bar, because a swing is not known before the bars on its right are there;
  `ChartsAgree` that folds of the same rounds are the same, by induction over the
  rounds, with the fold as a table like that of the news.
* `VerdictsSafe`, for any readings, with any of their sources missing. A weighted mean
  is a quotient of two sums over one set; both sums are folds that pick the same
  element next, so that `low * weights <= scores <= high * weights` holds of a set once
  it holds of the set without that element (`WeighedBetween`, by `FiniteSubsets`,
  induction about a family of subsets), and rounding towards zero leaves the quotient
  between the bounds (`OverBetween`). The lowest and the highest score that counts are
  such bounds (`Extremes`, `BetweenHolds`); what is left is that every blend is of a
  finite set of parts with weights that are not negative (`MarketWeighs`,
  `EvidenceWeighs`, `FactorsWeigh`). That is where `ReadingsAssumption` is
  needed: it says of a reading no more than the types of its fields, and that no
  confidence is below zero.
* `CallsSafe`. `CircuitSafe`, for any finite set of clients: the circuit opens on time and
  every half-open spell accounts for each of its probes, with the cardinality of the
  probes as the argument. `AdapterSafe`, for any tasks, retries and permits: `Quiet` says
  of a broker that answers every request, be it with an error in the body, that the
  breaker is new or counts one failure, that the refresh token is never stale, and that
  a refresh under way carries a live one - without the last the nested request could
  fail until its retries are used up, and count. One failure can still be counted: a
  session that expires on the last attempt is renewed, but the request ends. Hence
  `ThresholdAssumption`; `config.py:71` and the breaker's own default have three.

The least and the greatest of a set are CHOOSEs; that there is something to choose is
the least-number principle, which follows from `WFMin` and the order of Nat being well
founded (`LeastNatural`). `Induction` in `ComponentsProofs` is the same principle as
induction about a set of numbers: the library's induction theorems take the predicate
as a parameter, which the provers cannot instantiate, a set they can.

Assumptions on constants are the named ASSUMEs of each model, which TLC evaluates in the
runs: sizes are natural numbers, signals are of the symbols there are, thresholds are
positive, the list of events is kept no longer than the window after an event
(`ScheduleAssumption`; a quarter of an hour against hours in the code).

Model-checked only: liveness, which needs fairness and ENABLED (`Recovers`,
`CallsEnd`, `RunsEnd`, `CatchesUp`, `DisabledDrains`, `PublishersReturn`), the topics
of `algorithms` (`AssessmentsSound`, `ObservationsSound`, `FeaturesSound`), and
`ChartsSound`: curves and windows on inputs of a bounded set, mirrored inputs, and
reference definitions of the same. Their state only builds an input, so an inductive
invariant would say nothing that the property does not; what they compute would have
to be proved operator by operator, as the means are for `VerdictsSafe`, through nested
folds over rows, dictionaries and tables. Every other invariant and action property of a
passing run is a theorem.

## 6. Not modelled

* **Cache service** (`core/cache.py`): `get_or_set` and `rate_limited` have no callers
  outside the tests; the read-change-write sequences of callers are modelled where
  they are (`FeatureStore`, `Sources`, `Sweeps`). Two things seen while reading it:
  the counter of the rate limiter never expires if `EXPIRE` fails after `INCR`, and
  `invalidate` leaves the marker of freshness.
* **Data quality engine, feature quality, drift, selection, replay of features**:
  statistics with real-valued thresholds that report and decide nothing.
* **Analogs, multi-horizon blending, alpha research, explanations, report**: numeric
  summaries of what the modelled engines say.
* **Alerts and Telegram**: a bounded deque and notification I/O.
* **Parsing and HTTP of the sources, equity snapshots, company actions, retention**.
* **Container, configuration, logging, metrics, migrations, dashboards**: wiring and
  declarations. The endpoints that change state are inputs of the models.
* `Lifecycle.recent()`, the listings of the bus and the registry's metadata only read.

Two bounds are more than sizes: in `FeatureStore` a history is shorter than
`feature_candle_lookback`, so an engine that was down for longer is not covered by
`NoGaps`, features have one version, and the Parquet archive, which is written and
never read, is left out; in `Sources` an answer is its age and completeness.

## 7. What the code does not promise

Written down while modelling. Some have a definition beside the checked properties
that states what one might expect, which TLC refutes; no run lists them, except the
first.

*Concurrency and failure*

* A half-open circuit may wait for a probe that is gone (`HalfOpenAwaitsProbe`).
* A late success closes an open circuit at once, whatever its timeout
  (`FailsFastUntilTimeout` in `BreakerClients`; the docstring promises fail-fast).
* `refresh_session` never discards a refresh token the broker no longer accepts
  (`SessionRenews` in `BrokerAdapter`).
* A run whose records were not stored ends "ok": `_execute` sets it (base.py:247) after
  the pipeline set "degraded" (`StorageFailureDegrades` in `CollectorRun`). The row of
  `collector_health` shows the status of the run before (pipeline.py:150).
* Two engines read the online entry, each sets it with its own features: the second
  drops what the first published (`NoneDropped` in `FeatureStore`). A full run over an
  old range sets the entry to old values (store.py:201). Between runs `latest()` is
  wrong after a cause `LatestServed` names, and never otherwise.
* Two overlapping scans read the same belief; one update is lost, and the next reading is
  fed again. The count is no count of "genuinely new evidence", as opportunity.py has it
  (`NoInflation` in `Sweeps`): each engine feeds a reading by itself.
* A calibration may be fitted on pairs later trainings are fitted on
  (`CalibrationUnseen` in `Training`); `OutOfSample` holds of the training it is of.
* tick_aggregator.py:15-18 leaves the gaps of the feed to the historical collector, which
  resumes after the newest stored bar (market_data.py:537), live ones included: an
  inner gap is never filled (`GapsFilled` in `Candles`).
* A coarse bar need not be whole. The historical collector stores the one in progress,
  with DO NOTHING (market_data.py:568-593), and resumes after it: unless the aggregator
  folds the bucket later, it stays partial. The fold replaces it (DO UPDATE), also by a
  narrower bar where minutes are missing. Hence `RollupIsFold` asks of a fetched row
  only that it shows prices of its window, and of a live one the fold of what is stored.
* Bars of 30m and 1H from the exchange's fallback start on the clock's half-hours and
  hours (candle_aggregate.py:49-53), those of the aggregator and the broker at 09:15,
  09:45, 10:15 (tick_aggregator.py:46-51): two rows for overlapping times. 3m, 5m and 15m
  agree. `Candles` stands for intervals that do; rows on the clock are not modelled.
* An update of a belief that is stored and then fails, in the answer of its commit or in
  publishing, is not remembered as fed and is fed again (opportunity.py:345,
  composite.py:351): the bound of `FedOnce` has one more for each failure.
* A collector run whose observations are persisted in two transactions gives two rows of
  one bucket (snapshots.py:13); the watermark `ts <= cutoff` (features/base.py:112) then
  freezes the values of a snapshot that was read in part.
* Forming bars are updated live (tick_aggregator.py:19-22), while their features are stored at
  first sight. A full run rewrites the scores of the oldest loaded bars from a shorter
  window; OBV and the accumulation line restart at the first loaded bar
  (volume.py:142-155); a session cut by the lookback has a wrong open and elapsed share.
* `run_all` of the market-wide engines ignores `full`, `start` and `end` of the request
  (api/features.py:419, 478-483).
* EMAs of breadth may be two lifetimes of the cache old: what is restored from the cache
  service is stamped anew in memory (nse_breadth.py:150).

*Decisions*

* A missing liquidity score and a missing reading of the events behind a trade pass the
  qualification, although qualification.py:13 says all its seven checks fail closed
  (`FailsClosed` in `Verdicts`); `LosingDataNeverQualifies` holds of the sources that do.
* A bar that touches target and trailing stop is a "loss" with a positive return.
* A "neutral" candidate is labelled as a short trade (labeling.py:191), and scored as a
  long one (conviction.py:144, historical_similarity.py:67).
* `signal_since` looks back 1000 rows of all instruments together (candidates.py:44).
* The put/call ratio is read as bullish by the collector (domains/options.py:360) and
  bearish by the engine (intelligence/options.py:18-19); its thresholds 1.2 and 0.8
  are not reciprocal, so a mirrored chain is not always mirrored.
* Ties of max pain and of the strike at the money go to the lower strike; unchanged open
  interest counts as short covering; a deal without a side as a sale; a market where
  nothing moves as bearish.
* Momentum and flow count a signal of zero with one side; an intraday move that turns the
  direction of the trend may raise its confidence.
* "de-escalation" is never matched and counts as "escalation" (`TermsSpeak` in
  `Observations`).
* The window after a recurring event is never frozen (`FreezeThroughWindow` in
  `EventSchedule`), and `event_risk_window` ignores windows after events
  (features/events.py:9 and 165).
* Declared ranges are exceeded by `news_momentum` (24 of 20), by the trend of volume for
  windows below 5, and by its spike and skew at windows of 200; those of changes of open
  interest and of max pain are estimates.
* The basket of peers jumps when a peer lacks a bar (relative.py:174-179), the return of the
  benchmark spans the bars it lacks, and clock and expiry ignore holidays
  (timefeat.py:113 and 192).
