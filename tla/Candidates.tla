----------------------------- MODULE Candidates -----------------------------
(***************************************************************************)
(* What a scan makes of the intelligence results of a symbol               *)
(* (prediction/opportunity.py and candidates.py): its triggers, the        *)
(* direction and lifetime of the candidate, and since when the candidate   *)
(* has been there.                                                         *)
(*                                                                         *)
(* results has an entry for each component that answered: the metric its   *)
(* direction is read from, in percent or None, its confidence, and the     *)
(* trigger conditions it is past the threshold of.                         *)
(***************************************************************************)
EXTENDS SequencesExt, Weighing

CONSTANTS
    Components,       \* the components of the results considered
    Results,          \* what a component may answer
    Hours,            \* hours until the next event, None where there is none
    Instruments, MaxGap, HistoryLimit, MaxHistory, MaxTime

VARIABLES
    results,          \* component_results of a symbol
    hours,            \* the metric hours_until_event of "events"
    history           \* trade_candidate.generated rows, oldest first

NewResult ==
    /\ history = <<>>
    /\ \E c \in Components \ DOMAIN results, r \in Results, h \in Hours :
          /\ results' = [x \in DOMAIN results \cup {c} |-> IF x = c THEN r ELSE results[x]]
          /\ hours' = h
    /\ UNCHANGED history

NewRow ==
    /\ results = <<>> /\ Len(history) < MaxHistory
    /\ \E i \in Instruments, d \in {"long", "short"}, t \in 0..MaxTime :
          /\ \A k \in DOMAIN history : history[k].at <= t
          /\ history' = Append(history, [instrument |-> i, direction |-> d, at |-> t])
    /\ UNCHANGED <<results, hours>>

Init == results = <<>> /\ hours = None /\ history = <<>>

Next == NewResult \/ NewRow

-----------------------------------------------------------------------------
\* evaluate_triggers(), in its order, and TRIGGER_LIFETIME_MINUTES in hours.
Trigger(component, condition, lifetime) ==
    [component |-> component, condition |-> condition, lifetime |-> lifetime]

Conditions ==
    <<Trigger("market_structure", "significant_breakout_probability", 4),
      Trigger("market_structure", "liquidity_sweep_detected", 2),
      Trigger("trend_transition", "structural_trend_change", 24),
      Trigger("market_structure_transition", "regime_transition", 24),
      Trigger("institutional_flow", "institutional_accumulation", 72),
      Trigger("institutional_flow", "institutional_distribution", 72),
      Trigger("relative_strength", "exceptional_relative_strength", 48),
      Trigger("volatility", "high_volatility_expansion", 3),
      Trigger("events", "event_driven_opportunity", 4)>>

Triggers == SelectSeq(Conditions, LAMBDA t : /\ t.component \in DOMAIN results
                                            /\ t.condition \in results[t.component].past)

Sum(numbers) == FoldSeq(LAMBDA x, y : x + y, 0, numbers)

PriorityScore == Sum([k \in DOMAIN Triggers |-> results[Triggers[k].component].confidence])

\* infer_direction(): the mean of the directional metrics there are, by confidence,
\* against DIRECTION_EPSILON.
Directional == <<"trend", "market_structure", "institutional_flow", "relative_strength">>

Saying(answers) ==
    SelectSeq(Directional, LAMBDA c : c \in DOMAIN answers /\ answers[c].value # None)

Direction(answers) ==
    LET say == Saying(answers)
        weighted == Sum([k \in DOMAIN say |-> answers[say[k]].value * answers[say[k]].confidence])
        total == Sum([k \in DOMAIN say |-> answers[say[k]].confidence])
    IN  IF total <= 0 THEN "neutral"
        ELSE IF weighted > 5 * total THEN "long"
        ELSE IF weighted < -5 * total THEN "short"
        ELSE "neutral"

\* Fault: the first trigger says how long.
LifetimeOfFirst ==
    LET Estimate(t) == IF t.condition = "event_driven_opportunity" /\ hours > 0
                       THEN Min({hours, 48}) ELSE t.lifetime
    IN  IF Triggers = <<>> THEN 4 ELSE Estimate(Triggers[1])

\* estimate_lifetime_minutes(), in hours: the trigger that lapses first.
Lifetime ==
    LET Estimate(t) == IF t.condition = "event_driven_opportunity" /\ hours > 0
                       THEN Min({hours, 48}) ELSE t.lifetime
    IN  IF Triggers = <<>> THEN 4 ELSE Min({Estimate(t) : t \in ToSet(Triggers)})

-----------------------------------------------------------------------------
\* enrich_with_signal_since(): one query for all instruments, newest first.
Fetched(instrument) ==
    SelectSeq(SubSeq(history, Max({1, Len(history) - HistoryLimit + 1}), Len(history)),
              LAMBDA row : row.instrument = instrument)

\* _streak_start(): walked backwards, to a change of direction or a gap.
StreakStart(rows, direction) ==
    LET Walk(streak, row) ==
            IF \/ streak.over \/ row.direction # direction
               \/ streak.since # None /\ streak.since - row.at > MaxGap
            THEN [streak EXCEPT !.over = TRUE]
            ELSE [streak EXCEPT !.since = row.at]
    IN  FoldRight(LAMBDA row, streak : Walk(streak, row), rows, [since |-> None, over |-> FALSE]).since

-----------------------------------------------------------------------------
(* The candidate follows its readings: what it is dated by does not        *)
(* outlive the event it was raised for, nor any other trigger, and turning *)
(* every directional reading over turns it over.                           *)
Mirrored == [c \in DOMAIN results |->
               [results[c] EXCEPT !.value = IF @ = None THEN None ELSE -@]]

CandidateFollowsResults ==
    /\ \A t \in ToSet(Triggers) :
          IF t.condition = "event_driven_opportunity" /\ hours > 0
          THEN Lifetime <= hours ELSE Lifetime <= t.lifetime
    /\ Direction(Mirrored) = CASE Direction(results) = "long" -> "short"
                               [] Direction(results) = "short" -> "long"
                               [] OTHER -> "neutral"
    /\ Direction(results) = "long" => \E c \in DOMAIN results : results[c].value > 5
    /\ PriorityScore > 0 => Triggers # <<>>

(* "When the current continuous run of this exact (instrument, direction)  *)
(* started": the oldest row since which the instrument has been seen       *)
(* without a change or a gap, as far as the rows fetched reach.            *)
SinceIsStreak ==
    history # <<>> =>
        LET now == Last(history)
            fetched == Fetched(now.instrument)
            Unbroken(k) == \A j \in k..Len(fetched) :
                              /\ fetched[j].direction = now.direction
                              /\ j > k => fetched[j].at - fetched[j - 1].at <= MaxGap
        IN  StreakStart(fetched, now.direction)
              = Min({fetched[k].at : k \in {j \in DOMAIN fetched : Unbroken(j)}})
=============================================================================
