------------------------------ MODULE Verdicts ------------------------------
(***************************************************************************)
(* What the prediction engines make of one candidate (prediction/): the    *)
(* blend of the models, its calibration, the adjustment to the market, the *)
(* qualification, the conviction and the priority.                         *)
(*                                                                         *)
(* A reading is a record of what the engines before them say of a symbol.  *)
(* Probabilities, scores and confidences are in percent, a spread and a    *)
(* value at risk in hundredths of a percent; None stands for a value that  *)
(* is not there.  The tanh curves of the priority are straight lines       *)
(* between the same ends, and rounding is downwards.                       *)
(***************************************************************************)
EXTENDS Sequences, Weighing

CONSTANT Readings

VARIABLE reading      \* the set of the one reading considered, empty before

Init == reading = {}

Next == reading = {} /\ \E r \in Readings : reading' = {r}

-----------------------------------------------------------------------------
\* train_models(): a model counts for what its holdout accuracy exceeds chance by,
\* and for 1e-6 whatever it is.
Weight(model) == 10000 * Max({model.accuracy - 50, 0}) + 1

\* predict_from_training() and blend_predictions(): no models, no opinion.
Blend(models) ==
    [probability |-> Mean({Part(k, Weight(models[k]), models[k].probability) : k \in DOMAIN models}, 50),
     confidence  |-> Mean({Part(k, Weight(models[k]), models[k].accuracy) : k \in DOMAIN models}, 0)]

\* apply_calibration(): shift is what the calibrator does to a probability, or None.
Calibrated(r) ==
    LET raw == Blend(r.models).probability
    IN  IF r.calibration = None THEN [probability |-> raw, confidence |-> 0]
        ELSE [probability |-> r.calibration, confidence |-> 60]

ModelDirection(probability) ==
    IF probability > 55 THEN "bullish" ELSE IF probability < 45 THEN "bearish" ELSE "neutral"

\* Fault: no models, no disagreement.
AgreementVacuous(models) ==
    LET with == {k \in DOMAIN models : ModelDirection(models[k].probability)
                                         = ModelDirection(Blend(models).probability)}
    IN  IF models = <<>> THEN 100 ELSE (100 * Cardinality(with)) \div Len(models)

\* evaluate_agreement(): the share of the models that point where the blend does.
Agreement(models) ==
    LET with == {k \in DOMAIN models : ModelDirection(models[k].probability)
                                         = ModelDirection(Blend(models).probability)}
    IN  IF models = <<>> THEN 0 ELSE (100 * Cardinality(with)) \div Len(models)

Proceed(models) == Agreement(models) >= 80

-----------------------------------------------------------------------------
\* MarketConfidenceEngine: the mean of the inputs there are.  The certainty of the
\* regime is read from the score of a transition result, which is 0 where no regime
\* history is known.
ConfidenceInputs(r) ==
    Plain({<<"regime_certainty", Clamp(100 - r.transition)>>, <<"breadth", r.breadth>>,
           <<"institutional_agreement", r.flow.confidence>>})
      \cup Present(r.dataQuality, Part("data_quality", 1, r.dataQuality))
      \cup Present(r.featureQuality, Part("feature_quality", 1, r.featureQuality))
      \cup Present(r.correlation, Part("correlation_stability", 1, r.correlation))

MarketConfidence(r) == Mean(ConfidenceInputs(r), 50)

\* assess_event_risk(): with no signal of an event, no risk.
EventRisk(r) ==
    Mean(Present(r.event.sensitivity, Part("sensitivity", 50, r.event.sensitivity))
           \cup Present(r.event.urgency, Part("urgency", 30, r.event.urgency))
           \cup Present(r.event.volatility, Part("expected_volatility", 20, r.event.volatility)),
         0)

\* assess_liquidity(): in the middle where nothing is known.
Liquidity(r) == IF r.liquidity = None THEN 50 ELSE Clamp(r.liquidity)

\* The dimensions of market_context.py, each weighted by its own confidence.
Dimensions(r) ==
    {Part("market_confidence", 60, Clamp(MarketConfidence(r))),
     Part("liquidity", 50, Liquidity(r)),
     Part("event_risk", 50, Clamp(100 - EventRisk(r))),
     Part("regime_stability", 50, Clamp(100 - r.transition)),
     Part("institutional_participation", r.flow.confidence, Clamp(2 * Max({r.flow.score - 50, 50 - r.flow.score}))),
     Part("volatility", 50, Clamp(100 - r.volatility))}

MarketQuality(r) == Mean(Dimensions(r), None)

\* Fault: the market lifts what it agrees with.
AdjustedUpwards(probability, quality) ==
    IF quality = None THEN probability ELSE 50 + ((probability - 50) * (50 + quality)) \div 100

\* apply_market_context(): towards one half, by what the market lacks.
Adjusted(probability, quality) ==
    IF quality = None THEN probability
    ELSE 50 + (IF probability >= 50 THEN ((probability - 50) * quality) \div 100
               ELSE -(((50 - probability) * quality) \div 100))

-----------------------------------------------------------------------------
\* evaluate_similarity(): analogs as this direction would have lived them.
Lived(analog, direction) ==
    IF direction = "short"
    THEN [return |-> -analog.return, drawdown |-> -analog.runup, runup |-> -analog.drawdown]
    ELSE analog

WinRate(r, direction) ==
    IF r.analogs = {} THEN None
    ELSE (100 * Cardinality({a \in r.analogs : Lived(a, direction).return > 0}))
           \div Cardinality(r.analogs)

AverageReturn(r, direction) ==
    Tally([a \in r.analogs |-> Lived(a, direction).return]) \div Cardinality(r.analogs)

WorstDrawdown(r, direction) == Min({Lived(a, direction).drawdown : a \in r.analogs})

MeanSimilarity(r) == IF r.analogs = {} THEN None ELSE r.similarity

-----------------------------------------------------------------------------
\* Fault: a reading that is not there is not held against the trade.
RejectionsOfKnown(r) ==
    {c \in {"liquidity", "spread", "event_risk", "agreement", "feature_quality",
            "market_confidence", "analogs"} :
       CASE c = "liquidity"         -> Liquidity(r) < 30
         [] c = "spread"            -> r.spread > 50
         [] c = "event_risk"        -> r.event.freeze \/ EventRisk(r) > 70
         [] c = "agreement"         -> r.models # <<>> /\ ~ Proceed(r.models)
         [] c = "feature_quality"   -> r.featureQuality # None /\ r.featureQuality < 50
         [] c = "market_confidence" -> MarketConfidence(r) < 35
         [] c = "analogs"           -> MeanSimilarity(r) # None /\ MeanSimilarity(r) < 50}

\* qualify_trade(): each check has its say.
Rejections(r) ==
    {c \in {"liquidity", "spread", "event_risk", "agreement", "feature_quality",
            "market_confidence", "analogs"} :
       CASE c = "liquidity"         -> Liquidity(r) < 30
         [] c = "spread"            -> r.spread = None \/ r.spread > 50
         [] c = "event_risk"        -> r.event.freeze \/ EventRisk(r) > 70
         [] c = "agreement"         -> ~ Proceed(r.models)
         [] c = "feature_quality"   -> r.featureQuality = None \/ r.featureQuality < 50
         [] c = "market_confidence" -> MarketConfidence(r) < 35
         [] c = "analogs"           -> MeanSimilarity(r) = None \/ MeanSimilarity(r) < 50}

Qualified(r) == Rejections(r) = {}

-----------------------------------------------------------------------------
\* directional_score(): bullish scores, turned over for a short.
Directional(score, direction) == IF direction = "short" THEN 100 - score ELSE score

\* build_evidence(), with EVIDENCE_WEIGHTS.
Evidence(r, direction) ==
    {Part("calibrated_probability", 35, Calibrated(r).probability),
     Part("market_context", 20, Adjusted(Calibrated(r).probability, MarketQuality(r))),
     Part("institutional_flow", 10, Directional(r.flow.score, direction)),
     Part("market_structure", 10, Directional(r.structure, direction)),
     Part("liquidity", 5, Liquidity(r)),
     Part("sector_strength", 5, Directional(r.relative, direction)),
     Part("model_agreement", 5, Agreement(r.models)),
     Part("options_positioning", 10, Directional(r.options, direction))}
      \cup Present(WinRate(r, direction),
                   Part("historical_analog", 10, WinRate(r, direction)))

Conviction(r, direction) == Mean(Evidence(r, direction), 50)

\* build_priority_factors(): what is not known does not count.
Factors(r, direction) ==
    Plain({<<"conviction", Conviction(r, direction)>>, <<"opportunity_quality", r.trigger>>,
           <<"liquidity", Liquidity(r)>>, <<"expected_opportunity_lifetime", r.lifetime>>})
      \cup Present(r.risk, Part("risk", 1, Clamp(100 - r.risk \div 5)))
      \cup Present(r.leadership, Part("sector_leadership", 1, r.leadership))
      \cup Present(MeanSimilarity(r), Part("historical_reliability", 1, MeanSimilarity(r)))
      \cup (IF r.analogs = {} THEN {}
            ELSE {Part("expected_reward", 1, Clamp(50 + 10 * AverageReturn(r, direction)))})

Priority(r, direction) == Mean(Factors(r, direction), 0)

-----------------------------------------------------------------------------
Between(x, parts, otherwise) ==
    LET scores == {p.score : p \in {q \in parts : q.weight > 0}}
    IN  IF scores = {} THEN x = otherwise ELSE x \in Min(scores)..Max(scores)

(* What is blended lies between what it is blended of, whatever is missing; *)
(* and the market takes a probability towards one half, never past it.     *)
BlendsWithinInputs ==
    \A r \in reading : \A direction \in {"long", "short"} :
        LET probability == Calibrated(r).probability
            adjusted == Adjusted(probability, MarketQuality(r))
        IN  /\ Between(MarketConfidence(r), ConfidenceInputs(r), 50)
            /\ Between(MarketQuality(r), Dimensions(r), None)
            /\ Between(Conviction(r, direction), Evidence(r, direction), 50)
            /\ Between(Priority(r, direction), Factors(r, direction), 0)
            /\ adjusted \in 50..probability \/ adjusted \in probability..50

\* A reading with one of the gated sources unavailable.
Without(r, source) ==
    CASE source = "models"         -> [r EXCEPT !.models = <<>>]
      [] source = "spread"         -> [r EXCEPT !.spread = None]
      [] source = "featureQuality" -> [r EXCEPT !.featureQuality = None]
      [] source = "analogs"        -> [r EXCEPT !.analogs = {}]

(* A qualified trade has an ensemble behind it, four fifths of which point *)
(* where the blend does; and no trade qualifies without its models, its    *)
(* spread, the quality of its features or its analogs, although means are  *)
(* taken of what is left.  The gates of liquidity and of events are open   *)
(* for a trade they know nothing of: FailsClosed below.                    *)
LosingDataNeverQualifies ==
    \A r \in reading :
        /\ Qualified(r) =>
             LET side == ModelDirection(Blend(r.models).probability)
                 with == {k \in DOMAIN r.models : ModelDirection(r.models[k].probability) = side}
             IN  r.models # <<>> /\ 5 * Cardinality(with) >= 4 * Len(r.models)
        /\ \A source \in {"models", "spread", "featureQuality", "analogs"} :
             ~ Qualified(Without(r, source))

(* "Every one of the seven checks below therefore fails CLOSED (rejects)   *)
(* when its underlying data is missing" (qualification.py:13): a qualified *)
(* trade has a liquidity score and a reading of the events behind it.      *)
FailsClosed ==
    \A r \in reading :
        Qualified(r) => /\ r.liquidity # None
                        /\ {r.event.sensitivity, r.event.urgency, r.event.volatility} # {None}
=============================================================================
