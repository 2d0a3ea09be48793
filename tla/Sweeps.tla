------------------------------- MODULE Sweeps -------------------------------
(***************************************************************************)
(* The background sweeps of main.py and the requests beside them: scans of *)
(* the watchlist by OpportunityDetectionEngine (prediction/opportunity.py, *)
(* under CandidateGenerationEngine) and assessments by                     *)
(* CompositeMarketIntelligenceEngine (intelligence/composite.py).  Both    *)
(* feed what a component reads to one regime belief per symbol             *)
(* (intelligence/regime.py), each remembering what it fed last.  A step is *)
(* the code between two awaits.                                            *)
(*                                                                         *)
(* Of the components the model has one, "trend"; a reading is its number.  *)
(* Of a belief it keeps the number of observations and which are blended   *)
(* into it.                                                                *)
(***************************************************************************)
EXTENDS Naturals, FiniteSets, FiniteSetsExt

CONSTANTS
    Runs,            \* sweeps and requests under way at a time
    Symbols,         \* the watchlist
    Width,           \* MAX_CONCURRENT_SYMBOL_DETECTIONS
    MaxReadings,     \* bound on the readings of a symbol
    Moving,          \* bound: the symbols whose reading changes
    MaxCount,        \* observation counts from here on are not told apart
    MaxLives,        \* bound on the lives of the process
    MaxFaults        \* bound on failed statements

ASSUME SweepsAssumption ==
    /\ {Width, MaxReadings, MaxCount, MaxLives} \subseteq Nat \ {0}
    /\ MaxFaults \in Nat
    /\ Moving \subseteq Symbols

VARIABLES
    reading,     \* per symbol, the present reading of the component
    belief,      \* per symbol, the newest regime_belief.update row
    fed,         \* _last_fed_states of each engine; 0 for none
    run,         \* sweeps and requests
    overlapped,  \* history: engines two runs of which have overlapped
    lives,
    faults

vars == <<reading, belief, fed, run, overlapped, lives, faults>>

Engines == {"opportunity", "composite"}

\* composite_intelligence_sweep, candidate_generation_sweep, GET /candidates or
\* /opportunities.
Kinds == {"composite sweep", "candidate sweep", "request"}

EngineOf(kind) == IF kind = "composite sweep" THEN "composite" ELSE "opportunity"

Readings == 1..MaxReadings

NoBelief == [count |-> 0, evidence |-> {}]

Beliefs == [count : 0..MaxCount, evidence : SUBSET Readings]

Todo == [pc |-> "todo", reading |-> 0, prior |-> NoBelief]

\* open: the sweep or request itself has not returned.
Idle == [kind |-> "request", open |-> FALSE, at |-> [s \in Symbols |-> [Todo EXCEPT !.pc = "done"]]]

TypeOK ==
    /\ reading \in [Symbols -> Readings]
    /\ belief \in [Symbols -> Beliefs]
    /\ fed \in [Engines -> [Symbols -> 0..MaxReadings]]
    /\ run \in [Runs -> [kind : Kinds, open : BOOLEAN,
                         at : [Symbols -> [pc : {"todo", "loading", "storing", "marking", "done"},
                                           reading : 0..MaxReadings,
                                           prior : Beliefs]]]]
    /\ overlapped \subseteq Engines
    /\ lives \in 1..MaxLives
    /\ faults \in 0..MaxFaults

Init ==
    /\ reading = [s \in Symbols |-> 1]
    /\ belief = [s \in Symbols |-> NoBelief]
    /\ fed = [e \in Engines |-> [s \in Symbols |-> 0]]
    /\ run = [r \in Runs |-> Idle]
    /\ overlapped = {}
    /\ lives = 1
    /\ faults = 0

-----------------------------------------------------------------------------
\* Symbols a run is working on; they may outlive the run, which gather() leaves at the
\* first exception.
Active(r) == {s \in Symbols : run[r].at[s].pc \notin {"todo", "done"}}

Busy(r) == run[r].open \/ \E s \in Symbols : run[r].at[s].pc # "done"

Sweeping(r) == run[r].open /\ run[r].kind # "request"

\* background_sweep_lock; requests do not take it.
Start(r, kind) ==
    /\ ~ Busy(r)
    /\ kind # "request" => \A q \in Runs : ~ Sweeping(q)
    /\ run' = [run EXCEPT ![r] = [kind |-> kind, open |-> TRUE,
                                  at |-> [s \in Symbols |-> Todo]]]
    /\ overlapped' = overlapped \cup {EngineOf(run[q].kind) : q \in {p \in Runs :
                                        Busy(p) /\ EngineOf(run[p].kind) = EngineOf(kind)}}
    /\ UNCHANGED <<reading, belief, fed, lives, faults>>

\* The composite sweep takes one symbol after the other, a scan up to Width at a time.
Slots(r) == IF run[r].kind = "composite sweep" THEN 1 ELSE Width

At(r, s, record) == run' = [run EXCEPT ![r].at[s] = record]

\* Fault: the last reading fed is kept for all symbols together.
ChangedForAny(e, s, value) == \A t \in Symbols : fed[e][t] # value

\* _states_changed()
Changed(e, s, value) == fed[e][s] # value

\* The components are assessed, the component of the model among them, unless it fails:
\* safe() makes that None.
Assess(r, s) ==
    /\ run[r].at[s].pc = "todo"
    /\ Cardinality(Active(r)) < Slots(r)
    /\ \E ok \in BOOLEAN :
         /\ ok \/ faults < MaxFaults
         /\ faults' = IF ok THEN faults ELSE faults + 1
         /\ At(r, s, IF ok /\ Changed(EngineOf(run[r].kind), s, reading[s])
                     THEN [Todo EXCEPT !.pc = "loading", !.reading = reading[s]]
                     ELSE [Todo EXCEPT !.pc = "done"])
    /\ UNCHANGED <<reading, belief, fed, overlapped, lives>>

\* update(): read the newest row.
LoadBelief(r, s) ==
    /\ run[r].at[s].pc = "loading"
    /\ At(r, s, [run[r].at[s] EXCEPT !.pc = "storing", !.prior = belief[s]])
    /\ UNCHANGED <<reading, belief, fed, overlapped, lives, faults>>

\* Blend it with the reading, and append a row.
StoreBelief(r, s) ==
    /\ run[r].at[s].pc = "storing"
    /\ LET prior == run[r].at[s].prior
       IN  belief' = [belief EXCEPT ![s] =
                        [count |-> Min({prior.count + 1, MaxCount}),
                         evidence |-> prior.evidence \cup {run[r].at[s].reading}]]
    /\ At(r, s, [run[r].at[s] EXCEPT !.pc = "marking", !.prior = NoBelief])
    /\ UNCHANGED <<reading, fed, overlapped, lives, faults>>

\* Fault: what was fed is not remembered.
MarkNothing(r, s) ==
    /\ run[r].at[s].pc = "marking"
    /\ At(r, s, [Todo EXCEPT !.pc = "done"])
    /\ UNCHANGED <<reading, belief, fed, overlapped, lives, faults>>

\* Fault: what was to be fed is remembered even if storing it failed.
MarkAlways(r, s) ==
    /\ run[r].at[s].pc \in {"loading", "marking"}
    /\ fed' = [fed EXCEPT ![EngineOf(run[r].kind)][s] = run[r].at[s].reading]
    /\ At(r, s, IF run[r].at[s].pc = "marking" THEN [Todo EXCEPT !.pc = "done"]
                ELSE [run[r].at[s] EXCEPT !.pc = "storing", !.prior = belief[s]])
    /\ UNCHANGED <<reading, belief, overlapped, lives, faults>>

\* The update has returned: remember what was fed.  Then the transitions are assessed and
\* the triggers evaluated, which reads the state of no other run.
Mark(r, s) ==
    /\ run[r].at[s].pc = "marking"
    /\ fed' = [fed EXCEPT ![EngineOf(run[r].kind)][s] = run[r].at[s].reading]
    /\ At(r, s, [Todo EXCEPT !.pc = "done"])
    /\ UNCHANGED <<reading, belief, overlapped, lives, faults>>

\* Fault: the slot of a failed detection is not given back.
UpdateFailsHoldingSlot(r, s) ==
    /\ run[r].at[s].pc \in {"loading", "storing"}
    /\ faults < MaxFaults
    /\ faults' = faults + 1
    /\ run' = [run EXCEPT ![r].open = run[r].kind = "composite sweep" /\ @,
                          ![r].at[s].pc = "held"]
    /\ UNCHANGED <<reading, belief, fed, overlapped, lives>>

\* The update fails: reading the belief or appending the row raises, or, the row being
\* appended, the commit whose answer is lost or the publishing of the belief does.  assess()
\* goes on; detect() raises, and gather() with it, while the other detections of the scan
\* go on.
UpdateFails(r, s) ==
    /\ run[r].at[s].pc \in {"loading", "storing", "marking"}
    /\ faults < MaxFaults
    /\ faults' = faults + 1
    /\ run' = IF run[r].kind = "composite sweep"
              THEN [run EXCEPT ![r].at[s] = [Todo EXCEPT !.pc = "done"]]
              ELSE [run EXCEPT ![r].open = FALSE, ![r].at[s] = [Todo EXCEPT !.pc = "done"]]
    /\ UNCHANGED <<reading, belief, fed, overlapped, lives>>

\* All symbols are done: the candidates are sorted, captured and stored, and the run
\* returns.
Return(r) ==
    /\ run[r].open
    /\ \A s \in Symbols : run[r].at[s].pc = "done"
    /\ run' = [run EXCEPT ![r] = Idle]
    /\ UNCHANGED <<reading, belief, fed, overlapped, lives, faults>>

NewReading(s) ==
    /\ s \in Moving /\ reading[s] < MaxReadings
    /\ reading' = [reading EXCEPT ![s] = @ + 1]
    /\ UNCHANGED <<belief, fed, run, overlapped, lives, faults>>

\* The beliefs are in the database, what was fed last is not.
Restart ==
    /\ lives < MaxLives
    /\ lives' = lives + 1
    /\ fed' = [e \in Engines |-> [s \in Symbols |-> 0]]
    /\ run' = [r \in Runs |-> Idle]
    /\ UNCHANGED <<reading, belief, overlapped, faults>>

Step(r) ==
    \/ \E s \in Symbols :
         Assess(r, s) \/ LoadBelief(r, s) \/ StoreBelief(r, s) \/ Mark(r, s)
    \/ Return(r)

Next ==
    \/ \E r \in Runs :
         \/ \E kind \in Kinds : Start(r, kind)
         \/ Step(r)
         \/ \E s \in Symbols : UpdateFails(r, s)
    \/ \E s \in Symbols : NewReading(s)
    \/ Restart

Fairness ==
    /\ \A r \in Runs : WF_vars(Step(r))
    /\ SF_vars(\E r \in Runs : Start(r, "composite sweep"))
    /\ SF_vars(\E r \in Runs : Start(r, "candidate sweep"))

Spec == Init /\ [][Next]_vars /\ Fairness

-----------------------------------------------------------------------------
(* The dedup of both engines: as long as no two runs of an engine overlap, *)
(* it feeds a reading once, and once more in each later life of the        *)
(* process ("a fresh process re-feeding once after restart is correct",    *)
(* composite.py) and for an update that was stored but reported failed.    *)
FedOnce ==
    overlapped = {} =>
        \A s \in Symbols :
            belief[s].count <= Cardinality(Engines) * (reading[s] + lives - 1) + faults

(* Although updates read and append in two steps, those of one engine      *)
(* overlap those of the other, fail, and are cut off by restarts: unless   *)
(* two runs of one engine overlap, the newest reading of every symbol is   *)
(* in the belief sooner or later, a lost or failed update made up for by a *)
(* later sweep.                                                            *)
CatchesUp ==
    \A s \in Symbols : []<>(reading[s] \in belief[s].evidence \/ overlapped # {})

(* No sweep, request or detection left behind by a failed scan hangs.      *)
RunsEnd == \A r \in Runs : []<>~ Busy(r)

(* "A lock shared by these three background sweeps ... serializes them     *)
(* against each other" (main.py): no two are at work at the same time.     *)
SweepsSerialized ==
    \A r, q \in Runs :
        /\ r # q
        /\ run[r].kind # "request" /\ run[q].kind # "request"
        => Active(r) = {} \/ Active(q) = {}

(* observation_count counts "genuinely new evidence", not "repetition"     *)
(* (opportunity.py).                                                       *)
NoInflation ==
    lives = 1 => \A s \in Symbols : belief[s].count <= reading[s]
=============================================================================
