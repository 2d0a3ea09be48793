-------------------------- MODULE LifecycleReplay --------------------------
(***************************************************************************)
(* replay_transitions (prediction/lifecycle.py): a loop over the rows of a *)
(* ledger, a step for each turn, compared with the closed form             *)
(* LifecycleStages gives of it.  The ledger here is arbitrary: its next    *)
(* row may be any, as in a damaged one.                                    *)
(***************************************************************************)
EXTENDS LifecycleStages

CONSTANT MaxRows      \* bound on the length of the ledgers

VARIABLES
    rows,      \* the rows read so far
    replayed,  \* the state they replay to
    healed     \* and the one they replay to without the rows that repeat a stage

None == "none"

\* A ledger row: its stage, its stamp (here its position) and its reason.
RowAt(n) == [stage : Stages, at : {n}, reason : {None, "stale"}]

\* LifecycleState as replayed; no state yet, and a replay that raised.
State(s, stamps, reason, outcome) ==
    [stage |-> s, stamps |-> stamps, reason |-> reason, outcome |-> outcome]

NoState == State(NoStage, <<>>, None, None)

Raised == State(Unreadable, <<>>, None, None)

StageIndex(s) == CHOOSE k \in 1..5 : NonTerminal[k] = s

\* apply_transition raises LifecycleTransitionError.
Raises(state, row) ==
    \/ state.stage = NoStage /\ row.stage # "detected"
    \/ state.stage \in Terminal
    \/ /\ state.stage \in Open
       /\ row.stage \in Open
       /\ StageIndex(row.stage) # StageIndex(state.stage) + 1
    \/ row.stage = "expired" /\ row.reason = None

Stamped(stamps, s, at) == [t \in DOMAIN stamps \cup {s} |-> IF t = s THEN at ELSE stamps[t]]

\* Fault: any terminal stage sets the outcome.
ApplyTransitionAnyOutcome(state, row) ==
    IF Raises(state, row) THEN Raised
    ELSE State(row.stage,
               Stamped(state.stamps, row.stage, row.at),
               IF row.stage = "expired" THEN row.reason ELSE state.reason,
               IF row.stage \in Terminal THEN row.stage ELSE state.outcome)

\* apply_transition on a row.
ApplyTransition(state, row) ==
    IF Raises(state, row) THEN Raised
    ELSE State(row.stage,
               Stamped(state.stamps, row.stage, row.at),
               IF row.stage = "expired" THEN row.reason ELSE state.reason,
               IF row.stage \in {"succeeded", "failed"} THEN row.stage
               ELSE state.outcome)

\* Fault: a repeated row is not skipped.
ReplayRowStrict(state, row) ==
    IF state = Raised THEN Raised ELSE ApplyTransition(state, row)

\* Fault: a repeated row overwrites the stamp of the first.
ReplayRowRestamping(state, row) ==
    IF state = Raised THEN Raised
    ELSE IF row.stage = state.stage
         THEN [state EXCEPT !.stamps = Stamped(@, row.stage, row.at)]
    ELSE ApplyTransition(state, row)

\* One turn of the loop of replay_transitions.
ReplayRow(state, row) ==
    IF state = Raised THEN Raised
    ELSE IF row.stage = state.stage THEN state
    ELSE ApplyTransition(state, row)

Repeats(row) == rows # <<>> /\ rows[Len(rows)].stage = row.stage

Init == rows = <<>> /\ replayed = NoState /\ healed = NoState

Next ==
    /\ Len(rows) < MaxRows
    /\ \E row \in RowAt(Len(rows) + 1) :
         /\ rows' = Append(rows, row)
         /\ replayed' = ReplayRow(replayed, row)
         /\ healed' = IF Repeats(row) THEN healed ELSE ReplayRow(healed, row)

vars == <<rows, replayed, healed>>

Spec == Init /\ [][Next]_vars

-----------------------------------------------------------------------------
\* The first row of a run of equal stages is the one apply_transition sees.
ExpiryExplained ==
    \A k \in DOMAIN rows :
        /\ rows[k].stage = "expired"
        /\ k = 1 \/ rows[k - 1].stage # "expired"
        => rows[k].reason # None

\* The replay loop reads a ledger, and finds the stage, exactly as the closed form
\* the concurrent model and its proofs use says.
ReplayMatchesClosedForm ==
    replayed.stage = IF ExpiryExplained THEN CurrentStage(rows) ELSE Unreadable

\* A ledger that repeats rows replays to the same state, stamps included, as the
\* ledger without the repetitions: healing restores what the first write recorded.
HealingIsExact == healed = replayed

\* On a ledger whose stamps do not decrease, detection delay and signal lifetime
\* are not negative, and the reason and the outcome are set for the stage that
\* needs them and no other.
MeasuresConsistent ==
    replayed \notin {NoState, Raised} =>
        /\ \A s \in DOMAIN replayed.stamps : replayed.stamps["detected"] <= replayed.stamps[s]
        /\ \A s \in DOMAIN replayed.stamps : replayed.stamps[s] <= replayed.stamps[replayed.stage]
        /\ (replayed.reason # None) = (replayed.stage = "expired")
        /\ (replayed.outcome # None) = (replayed.stage \in {"succeeded", "failed"})
=============================================================================
