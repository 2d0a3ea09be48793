----------------------------- MODULE Components -----------------------------
(***************************************************************************)
(* Components with a state of their own that share none with the others:   *)
(* the signals a request delivers, what a news collector remembers, the    *)
(* cumulative line of breadth, the caches and sessions of the sources, the *)
(* schedule of events, the replay of a ledger, the labels of a trade, the  *)
(* structure of a chart, the verdict on a candidate, and the circuit       *)
(* breaker with its clients and with the broker's adapter.                 *)
(* A behaviour is one of a single component.                               *)
(***************************************************************************)
EXTENDS Integers, Sequences, FiniteSets

CONSTANT Topics

\* Of Signals.
CONSTANTS Requests, Symbols, Signal, Breakouts, Correlated, Sector, MaxPerSector, TopN, Cooldown,
          HistoryLimit, SignalsEnd

ASSUME SignalsAssumption ==
    /\ Signal \subseteq [symbol : Symbols, direction : {"long", "short", "neutral"}]
    /\ MaxPerSector \in Nat \ {0}
    /\ {TopN, Cooldown, HistoryLimit, SignalsEnd} \subseteq Nat

\* Of NewsFeed and BreadthLine.
CONSTANTS Articles, Alike, FeedLength, SeenMax, MaxPublished, MaxKept, Deltas, MaxRuns, MaxFaults

ASSUME FeedsAssumption ==
    /\ FeedLength \in Nat \ {0}
    /\ {SeenMax, MaxPublished, MaxKept, MaxRuns, MaxFaults} \subseteq Nat

\* Of Sources.
CONSTANTS Sources, Feeds, Required, Minimum, Ttl, InCache, WithCookies, Volumes, VolumeTtl, SourcesEnd

ASSUME SourcesAssumption ==
    /\ Ttl \in [Sources -> Nat] /\ {VolumeTtl, SourcesEnd} \subseteq Nat
    /\ Required \in [Sources -> SUBSET Feeds] /\ Minimum \in [Sources -> Nat]

\* Of EventSchedule.
CONSTANTS EventDates, Recurrences, Before, After, CacheTtl, ScheduleEnd

\* The list is kept for a quarter of an hour, the shortest window is one of hours.
ASSUME ScheduleAssumption ==
    /\ EventDates \subseteq Nat /\ Recurrences \subseteq Nat
    /\ {Before, After, CacheTtl, ScheduleEnd} \subseteq Nat
    /\ CacheTtl <= After + 1

\* Of LifecycleReplay and Labels.
CONSTANTS MaxRows, MaxHolding, MaxPath, Prices, BarDates

ASSUME LoopsAssumption ==
    /\ MaxRows \in Nat /\ MaxPath \in Nat /\ MaxHolding \in Nat \ {0}
    /\ Prices \subseteq Int
    /\ BarDates \subseteq {"ordinary", "event_barrier", "liquidity_barrier"}

\* Of Structure.
CONSTANTS Candles, MaxCandles, Fractal, AtrWindow, DecayBars, Levels,
          OpeningBars, BalanceBars, SessionBars, Bins

ASSUME ChartsAssumption == Fractal \in Nat /\ AtrWindow \in Nat \ {0}

\* Of Verdicts.
CONSTANT Readings

\* Percentages, amounts and returns are numbers, and no confidence is below zero.
ASSUME ReadingsAssumption ==
    /\ Readings \subseteq
         [models : Seq([probability : Int, accuracy : Int]), calibration : Int,
          analogs : SUBSET [return : Int, drawdown : Int, runup : Int], similarity : Int,
          event : [sensitivity : Int, urgency : Int, volatility : Int, freeze : BOOLEAN],
          flow : [score : Int, confidence : Nat],
          dataQuality : Int, featureQuality : Int, correlation : Int,
          transition : Int, breadth : Int, volatility : Int, liquidity : Int, spread : Int,
          risk : Int, leadership : Int, trigger : Int, lifetime : Int,
          structure : Int, relative : Int, options : Int]
    /\ \A r \in Readings : IsFiniteSet(r.analogs)

\* Of CircuitBreaker, BreakerClients and BrokerAdapter.
CONSTANTS FailureThreshold, RecoveryTimeout, HalfOpenMaxCalls, MaxFailures, Clients, Tasks, MaxRetries, Permits

ASSUME CircuitAssumption ==
    /\ {FailureThreshold, RecoveryTimeout, HalfOpenMaxCalls} \subseteq Nat \ {0}
    /\ MaxFailures \in Nat /\ MaxFailures >= FailureThreshold
    /\ IsFiniteSet(Clients)

\* broker_failure_threshold (core/config.py) is three.
ASSUME ThresholdAssumption == FailureThreshold > 1

VARIABLES topic,
          asOf, ranked, call, delivered,
          served, published, seen, fetched, kept, pc, stored, lost, taken, since,
          line, ready, pending, lines, gained, broken, runs, faults,
          now, memory, cached, volumes, warmed, honoured, misses, answered,
          hour, entries, editing, edited, cache, run,
          rows, replayed, healed,
          path, walked,
          candles,
          reading,
          breaker, calling, probing, reachable,
          guard, jwt, refresh, request, brokerFaults

signals == <<asOf, ranked, call, delivered>>
feed == <<served, published, seen, fetched, kept, pc, stored, lost, taken, since>>
cumulative == <<line, ready, pending, lines, gained, broken, runs, faults>>
sources == <<now, memory, cached, volumes, warmed, honoured, misses, answered>>
schedule == <<hour, entries, editing, edited, cache, run>>
ledger == <<rows, replayed, healed>>
labelled == <<path, walked>>
circuit == <<breaker, calling, probing, reachable>>
broker == <<guard, jwt, refresh, request, brokerFaults>>

vars == <<topic, signals, feed, cumulative, sources, schedule, ledger, labelled, candles, reading,
          circuit, broker>>

-----------------------------------------------------------------------------
Signalling == INSTANCE Signals WITH now <- asOf, MaxTime <- SignalsEnd
Feeding == INSTANCE NewsFeed
Cumulating == INSTANCE BreadthLine

\* An advance less a decline is no larger than the universe.
ASSUME DeltasAssumption == Deltas \subseteq Int /\ Cumulating!NoRun \notin Deltas

Sourcing == INSTANCE Sources WITH MaxTime <- SourcesEnd
Scheduling == INSTANCE EventSchedule WITH Dates <- EventDates, MaxTime <- ScheduleEnd, now <- hour
Replay == INSTANCE LifecycleReplay
Labelling == INSTANCE Labels WITH bars <- path, MaxBars <- MaxPath, Dates <- BarDates
Structuring == INSTANCE Structure
Deciding == INSTANCE Verdicts
Guarding == INSTANCE BreakerClients WITH up <- reachable
Adapting == INSTANCE BrokerAdapter WITH breaker <- guard, call <- request, faults <- brokerFaults

Init ==
    /\ topic \in Topics
    /\ Signalling!Init /\ Feeding!Init /\ Cumulating!Init /\ Sourcing!Init /\ Scheduling!Init
    /\ Replay!Init /\ Labelling!Init /\ Structuring!Init /\ Deciding!Init
    /\ Guarding!Init /\ (topic # "circuit" => reachable)
    /\ Adapting!Init /\ (topic # "broker" => brokerFaults = {})

DeliverSignals ==
    /\ topic = "signals" /\ Signalling!Next
    /\ UNCHANGED <<topic, feed, cumulative, sources, schedule, ledger, labelled, candles, reading,
                   circuit, broker>>

FollowTheNews ==
    /\ topic = "feeds" /\ Feeding!Next
    /\ UNCHANGED <<topic, signals, cumulative, sources, schedule, ledger, labelled, candles, reading,
                   circuit, broker>>

DrawTheLine ==
    /\ topic = "line" /\ Cumulating!Next
    /\ UNCHANGED <<topic, signals, feed, sources, schedule, ledger, labelled, candles, reading,
                   circuit, broker>>

AskTheSources ==
    /\ topic = "sources" /\ Sourcing!Next
    /\ UNCHANGED <<topic, signals, feed, cumulative, schedule, ledger, labelled, candles, reading,
                   circuit, broker>>

KeepTheSchedule ==
    /\ topic = "schedule" /\ Scheduling!Next
    /\ UNCHANGED <<topic, signals, feed, cumulative, sources, ledger, labelled, candles, reading,
                   circuit, broker>>

ReplayALedger ==
    /\ topic = "replay" /\ Replay!Next
    /\ UNCHANGED <<topic, signals, feed, cumulative, sources, schedule, labelled, candles, reading,
                   circuit, broker>>

LabelATrade ==
    /\ topic = "labels" /\ Labelling!Next
    /\ UNCHANGED <<topic, signals, feed, cumulative, sources, schedule, ledger, candles, reading,
                   circuit, broker>>

ReadAChart ==
    /\ topic = "charts" /\ Structuring!Next
    /\ UNCHANGED <<topic, signals, feed, cumulative, sources, schedule, ledger, labelled, reading,
                   circuit, broker>>

DecideOnACandidate ==
    /\ topic = "verdicts" /\ Deciding!Next
    /\ UNCHANGED <<topic, signals, feed, cumulative, sources, schedule, ledger, labelled, candles,
                   circuit, broker>>

CallADependency ==
    /\ topic = "circuit" /\ Guarding!Next
    /\ UNCHANGED <<topic, signals, feed, cumulative, sources, schedule, ledger, labelled, candles, reading,
                   broker>>

CallTheBroker ==
    /\ topic = "broker" /\ Adapting!Next
    /\ UNCHANGED <<topic, signals, feed, cumulative, sources, schedule, ledger, labelled, candles, reading,
                   circuit>>

Next ==
    \/ DeliverSignals \/ FollowTheNews \/ DrawTheLine \/ AskTheSources \/ KeepTheSchedule
    \/ ReplayALedger \/ LabelATrade \/ ReadAChart \/ DecideOnACandidate
    \/ CallADependency \/ CallTheBroker

Spec == Init /\ [][Next]_vars

-----------------------------------------------------------------------------
(* No signal is delivered twice within the cooldown by requests that do    *)
(* not overlap, and none is suppressed but for another                     *)
(* (prediction/duplicate.py).                                              *)
SignalsSound == Signalling!KeptApart /\ Signalling!BatchSound

(* News is stored once and dropped for cause (domains/news.py), and the    *)
(* line of breadth continues (domains/breadth.py).                         *)
FeedsSound == Feeding!StoredOnce /\ Feeding!DroppedForCause /\ Cumulating!LineContinues

(* What sources answer is young and whole, a session that is refused is    *)
(* renewed (collectors/sources/), and trading is frozen around the events  *)
(* of the schedule (sources/nse_events.py, domains/events.py).             *)
SourcesSound ==
    /\ Sourcing!AgeBounded /\ Sourcing!CachesUsable /\ Sourcing!SessionRenewed
    /\ Scheduling!WindowsKept

(* The replay of a ledger reads, heals and measures as it should           *)
(* (prediction/lifecycle.py).                                              *)
ReplaySound ==
    Replay!ReplayMatchesClosedForm /\ Replay!HealingIsExact /\ Replay!MeasuresConsistent

(* Exits are prices and bars the trade could have ended at (labeling.py).  *)
ExitsExplained == Labelling!ExitsExplained

(* Labels good enough to train on are final (prediction/labeling.py).      *)
LabelsSettle == [][path' # path => Labelling!Settled]_path

(* A feature of a bar stays what it was as bars follow                     *)
(* (features/structure.py).                                                *)
HindsightFree == [][Structuring!NoLookAhead]_candles

(* What is read off a chart is what is there (features/structure.py).      *)
ChartsSound == Structuring!Symmetric /\ Structuring!BreaksOnce /\ Structuring!SessionProfiled

(* What is blended lies between what it is blended of, the market takes a  *)
(* probability towards one half and never past it, and a candidate         *)
(* qualifies only with its models, spread, feature quality and analogs     *)
(* known (prediction/).                                                    *)
VerdictsSound == Deciding!BlendsWithinInputs /\ Deciding!LosingDataNeverQualifies

(* The circuit is opened, probed and closed on time, whatever answers come *)
(* late (core/circuit_breaker.py), and the broker's opens for failures of  *)
(* the broker only (market/angel_one.py).                                  *)
CallsGuarded == Guarding!CircuitSound /\ Adapting!BodyErrorsKeepCircuitClosed
=============================================================================
