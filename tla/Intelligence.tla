----------------------------- MODULE Intelligence ---------------------------
(***************************************************************************)
(* What the market intelligence engines make of a set of features          *)
(* (intelligence/): one assessment each, and the composite of them all.    *)
(*                                                                         *)
(* A view is what one engine reads: its directional signals in -100..100,  *)
(* after the tanh that saturates each (mean over the windows that are      *)
(* there), and the rest of its features in percent.  None stands for a     *)
(* feature that is not there.  An assessment has a level in -100..100, for *)
(* engines without a direction in 0..100, a confidence in percent, and the *)
(* raw weights of its states, which normalize_states turns into shares.    *)
(***************************************************************************)
EXTENDS Sequences, SequencesExt, Weighing

CONSTANT Views

VARIABLE view      \* the set of the one view considered, empty before

Init == view = {}

Next == view = {} /\ \E v \in Views : view' = {v}

-----------------------------------------------------------------------------
Known(f) == {x \in DOMAIN f : f[x] # None}

MeanOver(f, names) == Mean({Part(x, 1, f[x]) : x \in names}, 0)

Average(f) == MeanOver(f, Known(f))

Activity(f) == MeanOver([x \in DOMAIN f |-> Abs(f[x])], Known(f))

\* A weighted level of the signals that are there.
LevelOf(weights, signal) ==
    Bounded(Mean({Part(x, weights[x], signal[x]) : x \in DOMAIN weights \cap Known(signal)}, 0), -100, 100)

\* Share of the known signals that satisfy a side, in percent.
ShareWithSign(f, side) ==
    IF Known(f) = {} THEN 0
    ELSE (100 * Cardinality({x \in Known(f) : Sign(f[x]) = side})) \div Cardinality(Known(f))

Completeness(f, names) == (100 * Cardinality(names \cap Known(f))) \div Cardinality(names)

Up(level) == Max({level, 0})
Down(level) == Max({-level, 0})

\* normalize_states(): shares of what is positive, even shares where nothing is.
Normalised(raw) ==
    LET total == MapThenSumSet(LAMBDA s : Up(raw[s]), DOMAIN raw)
    IN  [s \in DOMAIN raw |-> IF total <= 0 THEN 100 \div Cardinality(DOMAIN raw)
                              ELSE (100 * Up(raw[s])) \div total]

\* A daily level moved towards where the session has gone since the open.
Blended(level, move, weight) ==
    IF move = None THEN level ELSE Over((100 - weight) * level + weight * move, 100)

\* Fault: the session's move is docked whichever way it goes.
ConflictOfAny(level, move) == IF move = None THEN 0 ELSE Abs(move) * Abs(Sign(level))

\* How far today's move goes against the daily level.
Conflict(level, move) == IF move = None THEN 0 ELSE Max({0, -move * Sign(level)})

Assessment(level, confidence, states) ==
    [level |-> level, confidence |-> Clamp(confidence), states |-> Normalised(states)]

-----------------------------------------------------------------------------
\* assess_trend()
TrendDaily(v) ==
    Over(50 * Average(v.momenta) + 30 * Or0(v.signal.structure) + 20 * Or0(v.signal.bias), 100)

TrendDirection(v) == Bounded(Blended(TrendDaily(v), v.signal.move, 30), -100, 100)

TrendStrength(v) ==
    Min({100, (70 * Activity(v.momenta) + 30 * Abs(Or0(v.signal.bias))) \div 100})

LastSign(history) == IF history = <<>> THEN 0 ELSE Sign(Last(history))

\* Bars since the direction last was another one.
TrendAge(history) ==
    LET other == {k \in DOMAIN history : Sign(history[k]) # LastSign(history)}
    IN  IF LastSign(history) = 0 THEN 0 ELSE Len(history) - Max(other \cup {0})

TrendStability(history) ==
    IF LastSign(history) = 0 THEN 0
    ELSE (100 * Cardinality({k \in DOMAIN history : Sign(history[k]) = LastSign(history)}))
           \div Len(history)

\* Old, decelerating into the extreme of the side it runs to, and falling back today.
TrendExhaustion(v) ==
    LET direction == TrendDirection(v)
        opposing == Max({0, -Sign(direction) * v.signal.acceleration})
        distance == IF direction >= 0 THEN v.high ELSE v.low
        proximity == IF distance = None THEN 0 ELSE 100 - Min({Abs(distance), 100})
        daily == (40 * TrendAge(v.history)) \div 60
                   + (40 * opposing) \div 100 + (20 * proximity * opposing) \div 10000
    IN  Min({100, daily + (IF v.drawdown = None THEN 0 ELSE (25 * Min({100, v.drawdown})) \div 100)})

\* Relative volume, and volume that flows the way of the trend; None where unknown.
VolumeConfirmation(v) ==
    Mean(Present(v.volume, Part("rvol", 1, Min({v.volume, 100})))
           \cup Present(v.signal.flow, Part("obv", 1, Clamp(50 + Over(Sign(TrendDirection(v)) * v.signal.flow, 2)))),
         None)

TrendAgreement(v) ==
    IF TrendDirection(v) = 0 THEN 0 ELSE ShareWithSign(v.momenta, Sign(TrendDirection(v)))

TrendConfidence(v) ==
    25 + (45 * TrendAgreement(v)) \div 100 + (20 * TrendStability(v.history)) \div 100
       + (10 * Or0(VolumeConfirmation(v))) \div 100
       - (30 * Conflict(TrendDaily(v), v.signal.move)) \div 100

TrendStates(v) ==
    LET direction == TrendDirection(v)
        strength == TrendStrength(v)
        break == Or0(v.signal.break)
    IN  [strong_bull_trend |-> Up(direction) * strength,
         weak_bull_trend   |-> Up(direction) * (100 - strength),
         strong_bear_trend |-> Down(direction) * strength,
         weak_bear_trend   |-> Down(direction) * (100 - strength),
         range_bound       |-> (100 - Abs(direction)) * (100 - strength),
         breakout          |-> Up(break) * v.breakout,
         breakdown         |-> Down(break) * v.breakout,
         transition        |-> ((100 - TrendStability(v.history)) * Abs(direction)) \div 2]

Trend(v) == Assessment(TrendDirection(v), TrendConfidence(v), TrendStates(v))

\* assess_momentum(): a signal of nothing counts as a rise.
MomentumDaily(v) == Average(v.momenta)

MomentumLevel(v) == Bounded(Blended(MomentumDaily(v), v.signal.move, 30), -100, 100)

RiseShare(f, up) ==
    IF Known(f) = {} THEN 0
    ELSE (100 * Cardinality({x \in Known(f) : (f[x] >= 0) <=> up})) \div Cardinality(Known(f))

MomentumConfidence(v) ==
    (40 * Completeness(v.momenta, DOMAIN v.momenta)
      + 40 * RiseShare(v.momenta, MomentumLevel(v) >= 0)
      + (IF v.extremity = None THEN 0 ELSE 2000)
      - 30 * Conflict(MomentumDaily(v), v.signal.move)) \div 100

MomentumStates(v) ==
    LET level == MomentumLevel(v)
        acceleration == v.signal.acceleration
    IN  [accelerating_bullish |-> Up(level) * Up(acceleration),
         accelerating_bearish |-> Down(level) * Down(acceleration),
         decelerating |-> Up(level) * Down(acceleration) + Down(level) * Up(acceleration),
         extreme      |-> IF v.extremity >= 200 THEN 100 * Abs(level) ELSE 0,
         mixed        |-> (100 - Abs(level)) * (100 - Abs(acceleration))]

Momentum(v) == Assessment(MomentumLevel(v), MomentumConfidence(v), MomentumStates(v))

\* assess_market_structure()
StructureDaily(v) == Or0(v.signal.bias)

StructureLevel(v) == Blended(StructureDaily(v), v.signal.move, 30)

StructureConfidence(v) ==
    20 + (60 * Cardinality({f \in {v.signal.bias, v.signal.structure, v.breakout, v.sweep} : f # None})) \div 4
       - (IF v.signal.character \in {None, 0} THEN 0 ELSE 15)
       - (30 * Conflict(StructureDaily(v), v.signal.move)) \div 100

StructureStates(v) ==
    LET level == StructureLevel(v)
        trending == v.signal.structure \notin {None, 0}
        Where(there, weight) == IF there THEN weight ELSE 0
    IN  [markup        |-> Where(trending, Up(level)),
         markdown      |-> Where(trending, Down(level)),
         accumulation  |-> Where(~ trending, Up(level)),
         distribution  |-> Where(~ trending, Down(level)),
         consolidation |-> Where(~ trending, 100 - Abs(level)),
         liquidity_sweep |-> Or0(v.sweep) \div 2]

StructureRead(v) == Assessment(StructureLevel(v), StructureConfidence(v), StructureStates(v))

-----------------------------------------------------------------------------
\* assess_breadth()
BreadthWeights ==
    [strength |-> 40, participation |-> 25, trend |-> 15, momentum |-> 10, extremes |-> 10]

BreadthLevel(v) == LevelOf(BreadthWeights, v.signal)

\* How many take part, less where the index rises without them.
ParticipationQuality(v) ==
    LET shares == {x \in {"participation", "trend"} : v.signal[x] # None}
        base == IF shares = {} THEN 50 ELSE 50 + Over(MeanOver(v.signal, shares), 2)
    IN  Clamp((base * Clamp(100 + 10 * Min({Or0(v.divergence), 0}))) \div 100)

BreadthHealth(v) ==
    IF v.health # None THEN Clamp(v.health)
    ELSE Clamp((ParticipationQuality(v) + 50 + Over(BreadthLevel(v), 2)) \div 2)

MomentumAgreement(v) ==
    LET signs == {Sign(v.signal[x]) : x \in {y \in {"momentum", "extremes"} : v.signal[y] # None}}
    IN  IF signs = {} THEN 0 ELSE IF {-1, 1} \subseteq signs THEN 50 ELSE 100

BreadthConfidence(v) ==
    25 + (35 * Completeness(v.signal, DOMAIN BreadthWeights)
           + 25 * MomentumAgreement(v)
           + (IF {v.signal.participation, v.signal.trend} = {None} THEN 0
              ELSE 15 * ParticipationQuality(v))) \div 100

BreadthStates(v) ==
    LET conviction == Abs(IF v.signal.strength = None THEN BreadthLevel(v) ELSE v.signal.strength)
        quality == ParticipationQuality(v)
    IN  [broad_participation   |-> conviction * quality,
         narrow_participation  |-> conviction * (100 - quality),
         improving_breadth     |-> 100 * Up(Or0(v.signal.momentum)),
         deteriorating_breadth |-> 100 * Down(Or0(v.signal.momentum)),
         mixed                 |-> (100 - conviction) * quality]

Breadth(v) == Assessment(BreadthLevel(v), BreadthConfidence(v), BreadthStates(v))

\* assess_volatility(): a level in 0..100, in the middle where nothing is known.
VolatilityDaily(v) ==
    LET regime == Mean({Part(w, 1, v.regimes[w]) : w \in Known(v.regimes)}, 50)
    IN  IF v.signal.vix = None THEN regime
        ELSE Clamp((85 * regime + 15 * (50 - Over(v.signal.vix, 2))) \div 100)

VolatilityLevel(v) ==
    IF v.signal.session = None THEN VolatilityDaily(v)
    ELSE Clamp((80 * VolatilityDaily(v) + 20 * (50 + Over(v.signal.session, 2))) \div 100)

WindowAgreement(v) ==
    LET levels == {v.regimes[w] : w \in Known(v.regimes)}
    IN  IF levels = {} THEN 0 ELSE 100 - Min({100, Max(levels) - Min(levels)})

VolatilityConfidence(v) ==
    25 + (35 * WindowAgreement(v) + 20 * Completeness(v.regimes, DOMAIN v.regimes)
           + (IF v.signal.vix = None THEN 0 ELSE 1000)
           - 15 * v.instability
           - 20 * Max({0, Over(Or0(v.signal.session) * (50 - VolatilityDaily(v)) * 2, 100)})) \div 100

\* _level_weights(): how near the level is to each anchor, within a band of it.
NearTo(anchors, band, level) ==
    [a \in DOMAIN anchors |-> Max({0, 100 - (100 * Abs(level - anchors[a])) \div band})]

VolatilityAnchors ==
    [extremely_low |-> 0, low |-> 20, normal |-> 50, elevated |-> 70, high |-> 85, extreme |-> 100]

VolatilityStates(v) ==
    NearTo(VolatilityAnchors, 25, VolatilityLevel(v))
      @@ [compression |-> v.compression \div 2, expansion |-> v.expansion \div 2]

Volatility(v) == Assessment(VolatilityLevel(v), VolatilityConfidence(v), VolatilityStates(v))

-----------------------------------------------------------------------------
\* assess_relative_strength(): against each reference there is.
RelativeDaily(v) == Average(v.momenta)

RelativeLevel(v) == Bounded(Blended(RelativeDaily(v), v.signal.move, 25), -100, 100)

Consistency(f, level) == IF level = 0 THEN 0 ELSE ShareWithSign(f, Sign(level))

RelativeConfidence(v) ==
    20 + (30 * Completeness(v.momenta, DOMAIN v.momenta)
           + 30 * Consistency(v.momenta, RelativeLevel(v))
           + (IF v.outperformance = None THEN 0 ELSE 2000)
           - 25 * Conflict(RelativeDaily(v), v.signal.move)) \div 100

RelativeStates(v) ==
    LET level == RelativeLevel(v)
        consistency == Consistency(v.momenta, level)
    IN  [leading  |-> Up(level) * consistency,
         lagging  |-> Down(level) * consistency,
         in_line  |-> 100 * (100 - Abs(level)),
         rotating |-> Abs(level) * (100 - consistency)]

Relative(v) == Assessment(RelativeLevel(v), RelativeConfidence(v), RelativeStates(v))

\* assess_institutional_flow()
FlowWeights ==
    [fii |-> 30, dii |-> 20, etf |-> 10, deals |-> 15, promoters |-> 15, insiders |-> 10]

FlowLevel(v) == LevelOf(FlowWeights, v.signal)

\* A flow of nothing counts with the sellers.
FlowAgreement(v) ==
    IF Known(v.signal) = {} THEN 0
    ELSE IF FlowLevel(v) = 0 THEN 50
    ELSE (100 * Cardinality({x \in Known(v.signal) : (v.signal[x] > 0) <=> (FlowLevel(v) > 0)}))
           \div Cardinality(Known(v.signal))

FlowConfidence(v) ==
    20 + (35 * (Cardinality({x \in DOMAIN FlowWeights \ {"promoters"} : v.signal[x] # None})
                  + (IF v.takeovers = None THEN 0 ELSE 1)) * 100) \div 600
       + (30 * FlowAgreement(v) - 10 * Or0(v.takeovers)) \div 100

FlowStates(v) ==
    LET conviction == Min({100, (10 * Activity(v.signal)) \div 3})
        agreement == FlowAgreement(v)
    IN  [institutional_accumulation |-> conviction * agreement * Up(Sign(FlowLevel(v))),
         institutional_distribution |-> conviction * agreement * Down(Sign(FlowLevel(v))),
         retail_driven |-> 100 * (100 - conviction),
         mixed_flow    |-> conviction * (100 - agreement)]

Flow(v) == Assessment(FlowLevel(v), FlowConfidence(v), FlowStates(v))

\* Fault: a put-call ratio above one leans up.
OptionsLevelContrarian(v) ==
    LevelOf([dealers |-> 40, putcall |-> 30, maxpain |-> 30], v.signal)

\* assess_options(): a put-call ratio above one leans down.
OptionsLevel(v) ==
    LevelOf([dealers |-> 40, putcall |-> 30, maxpain |-> 30],
            [v.signal EXCEPT !.putcall = IF @ = None THEN None ELSE -@])

OptionsConfidence(v) ==
    30 + (50 * Cardinality(Known(v.signal))) \div 3 + (IF v.ivRank = None THEN 0 ELSE 20)

OptionsStates(v) ==
    LET level == OptionsLevel(v)
        iv == IF v.ivRank = None THEN 50 ELSE v.ivRank
    IN  [bullish_positioning |-> Up(level), bearish_positioning |-> Down(level),
         elevated_iv |-> Up(2 * (iv - 50)), compressed_iv |-> Down(2 * (iv - 50)),
         mixed |-> 100 - Abs(level)]

Options(v) == Assessment(OptionsLevel(v), OptionsConfidence(v), OptionsStates(v))

\* assess_macro(): the mean of the factors there are.
MacroLevel(v) == Bounded(Average(v.signal), -100, 100)

MacroConfidence(v) ==
    IF Known(v.signal) = {} THEN 0
    ELSE 20 + (30 * Completeness(v.signal, DOMAIN v.signal)
                + 50 * Consistency(v.signal, MacroLevel(v))) \div 100

MacroStates(v) ==
    LET conviction == Min({100, (10 * Activity(v.signal)) \div 3})
        consistency == Consistency(v.signal, MacroLevel(v))
    IN  [risk_on  |-> conviction * consistency * Up(Sign(MacroLevel(v))),
         risk_off |-> conviction * consistency * Down(Sign(MacroLevel(v))),
         mixed    |-> 100 * (100 - conviction)]

Macro(v) == Assessment(MacroLevel(v), MacroConfidence(v), MacroStates(v))

-----------------------------------------------------------------------------
\* assess_sectors(): the hottest and the coldest, never the same ones.
Heats(v) == {s \in DOMAIN v.sectors : v.sectors[s].heat # None}

Ranked(v) ==
    SetToSortSeq(Heats(v), LAMBDA s, t : v.sectors[s].heat > v.sectors[t].heat)

LeaderCount(v) == Min({3, Cardinality(Heats(v)) \div 2})

Leading(v) == {Ranked(v)[k] : k \in 1..LeaderCount(v)}

Lagging(v) == {Ranked(v)[k] : k \in (Len(Ranked(v)) - LeaderCount(v) + 1)..Len(Ranked(v))}

Compared(v) ==
    {s \in DOMAIN v.sectors : v.sectors[s].leadership # None /\ v.sectors[s].previous # None}

\* Leadership that changed sides, or moved by a standard deviation.
LeadershipChanges(v) ==
    {s \in Compared(v) :
       LET now == v.sectors[s].leadership
           was == v.sectors[s].previous
       IN  ((now > 0) # (was > 0)) \/ Abs(now - was) >= 100}

SectorLevel(v) ==
    LevelOf([participation |-> 40, strength |-> 35, momentum |-> 25], v.signal)

SectorConfidence(v) ==
    20 + (30 * 100 * Cardinality(Heats(v))) \div (100 * Cardinality(DOMAIN v.sectors))
       + (25 * v.separation) \div 100
       + (IF Compared(v) = {} THEN 25 \div 2
          ELSE 25 - (25 * Cardinality(LeadershipChanges(v))) \div Cardinality(Compared(v)))

SectorStates(v) ==
    LET broad == 50 + (IF v.signal.participation = None THEN 0 ELSE Over(v.signal.participation, 2))
        change == IF Compared(v) = {} THEN 0
                  ELSE (100 * Cardinality(LeadershipChanges(v))) \div Cardinality(Compared(v))
    IN  [broad_rotation    |-> v.rotation * broad,
         narrow_leadership |-> v.rotation * (100 - broad),
         leadership_shift  |-> 100 * change,
         sector_neutral    |-> 100 * (100 - v.rotation)]

Sectors(v) == Assessment(SectorLevel(v), SectorConfidence(v), SectorStates(v))

-----------------------------------------------------------------------------
\* slope(): least squares against time, in the unit of the values; 0 of fewer than two.
Slope(values) ==
    LET n == Len(values)
        time == [t \in 1..n |-> 2 * t - n - 1]
        Total(f) == MapThenSumSet(LAMBDA t : f[t], 1..n)
    IN  IF n < 2 THEN 0
        ELSE Over(2 * Total([t \in 1..n |-> time[t] * values[t]]),
                  Total([t \in 1..n |-> time[t] * time[t]]))

\* assess_regime_transition(): the belief's favourite and who comes after it.
Favourite(belief) == CHOOSE s \in DOMAIN belief : \A t \in DOMAIN belief : belief[s] >= belief[t]

RunnerUp(belief) ==
    CHOOSE s \in DOMAIN belief \ {Favourite(belief)} :
        \A t \in DOMAIN belief \ {Favourite(belief)} : belief[s] >= belief[t]

SharesOf(history, state) == [k \in DOMAIN history |-> history[k][state]]

TransitionProbability(history) ==
    LET latest == Last(history)
        closeness == 100 - Clamp(latest[Favourite(latest)] - latest[RunnerUp(latest)])
        rising == Clamp(20 * Up(Slope(SharesOf(history, RunnerUp(latest)))))
    IN  (60 * closeness + 40 * rising) \div 100

ConfidenceLoss(history) ==
    Clamp(Head(history)[Favourite(Head(history))] - Last(history)[Favourite(Last(history))])

Transition(v) ==
    IF Len(v.history) < 2 THEN Assessment(0, 10, [stable |-> 100, transitioning |-> 0, unstable |-> 0])
    ELSE LET history == v.history
             speed == Clamp(10 * Abs(Slope(SharesOf(history, Favourite(Last(history))))))
             level == (40 * TransitionProbability(history) + 30 * speed
                         + 30 * ConfidenceLoss(history)) \div 100
         IN  Assessment(level, 10 * Len(history),
                        NearTo([stable |-> 0, transitioning |-> 50, unstable |-> 100], 40, level))

Alert(history) == Len(history) >= 2 /\ TransitionProbability(history) >= 60

\* assess_correlations(): how far apart the short and the long window are, by pair.
PairStability(v, p) == 100 - Clamp(2 * Abs(v.short[p] - v.long[p]))

CorrelationStability(v) ==
    Mean({Part(p, 1, PairStability(v, p)) : p \in Known(v.short) \cap Known(v.long)}, 0)

Correlation(v) ==
    LET concentration == Activity(v.short)
        stability == CorrelationStability(v)
    IN  Assessment(concentration,
                   20 + (30 * v.assets + 20 * Completeness(v.short, DOMAIN v.short) + 30 * stability) \div 100,
                   [highly_correlated |-> concentration * stability,
                    decorrelated |-> (100 - concentration) * stability,
                    correlation_breakdown |-> 100 * (100 - stability)])
-----------------------------------------------------------------------------
\* assess_composite(): leans of the engines with a direction; the others say how
\* stable and how risky the market is.
CompositeAnchors ==
    [strong_bearish |-> 0, bearish |-> 25, neutral |-> 50, bullish |-> 75, strong_bullish |-> 100]

CompositeLevel(v) == Average(v.signal)

Bullishness(v) == MeanOver([x \in DOMAIN v.signal |-> Up(v.signal[x])], Known(v.signal))

Bearishness(v) == MeanOver([x \in DOMAIN v.signal |-> Down(v.signal[x])], Known(v.signal))

MarketStability(v) ==
    Mean(Present(v.volatility, Part("volatility", 1, 100 - v.volatility))
           \cup Present(v.liquidity, Part("liquidity", 1, v.liquidity))
           \cup Present(v.correlation, Part("correlation", 1, 100 - v.correlation)), 50)

ExpectedRisk(v) ==
    Mean(Present(v.volatility, Part("volatility", 1, v.volatility))
           \cup Present(v.eventRisk, Part("event_risk", 1, v.eventRisk))
           \cup Present(v.correlation, Part("correlation", 1, v.correlation)), 50)

ExpectedOpportunity(v) == (Abs(CompositeLevel(v)) * MarketStability(v)) \div 100

Composite(v) ==
    Assessment(CompositeLevel(v), (40 * v.present) \div 12 + (60 * v.confidence) \div 100,
               NearTo(CompositeAnchors, 30, (CompositeLevel(v) + 100) \div 2))

-----------------------------------------------------------------------------
Assess(v) ==
    CASE v.engine = "trend"      -> Trend(v)
      [] v.engine = "momentum"   -> Momentum(v)
      [] v.engine = "structure"  -> StructureRead(v)
      [] v.engine = "breadth"    -> Breadth(v)
      [] v.engine = "volatility" -> Volatility(v)
      [] v.engine = "relative"   -> Relative(v)
      [] v.engine = "flow"       -> Flow(v)
      [] v.engine = "options"    -> Options(v)
      [] v.engine = "macro"      -> Macro(v)
      [] v.engine = "sector"     -> Sectors(v)
      [] v.engine = "transition" -> Transition(v)
      [] v.engine = "correlation" -> Correlation(v)
      [] v.engine = "composite"  -> Composite(v)

Turned(f) == [x \in DOMAIN f |-> IF f[x] = None THEN None ELSE -f[x]]

\* The same market upside down: rises for falls, highs for lows.
Mirror(v) ==
    CASE v.engine = "trend" ->
           [v EXCEPT !.signal = Turned(@), !.momenta = Turned(@), !.history = Turned(@),
                     !.high = v.low, !.low = v.high]
      [] v.engine \in {"momentum", "relative"} ->
           [v EXCEPT !.signal = Turned(@), !.momenta = Turned(@)]
      [] OTHER -> [v EXCEPT !.signal = Turned(@)]

(* What an engine says of a market upside down is what it says of the      *)
(* market, turned over; and it trusts both equally, but for the engines    *)
(* that count a signal of nothing with one side or read a share of the     *)
(* market as a quality.                                                    *)
SameBothWays ==
    \A v \in {w \in view : w.engine \notin {"volatility", "transition", "correlation"}} :
        \A read \in {Assess(v)}, turned \in {Assess(Mirror(v))} :
            /\ turned.level = -read.level
            /\ v.engine \in {"trend", "structure", "options", "macro", "relative", "composite"} =>
                 turned.confidence = read.confidence
            /\ v.engine = "trend" /\ TrendDirection(v) # 0 => TrendExhaustion(Mirror(v)) = TrendExhaustion(v)
            /\ v.engine = "composite" =>
                 /\ Bullishness(Mirror(v)) = Bearishness(v)
                 /\ ExpectedOpportunity(Mirror(v)) = ExpectedOpportunity(v)

\* Signals of which more means less.
LessForMore == {"putcall", "vix"}

Raised(v, x) ==
    [v EXCEPT !.signal[x] = Bounded(IF x \in LessForMore THEN @ - 30 ELSE @ + 30, -100, 100)]

(* A signal that turns more bullish, or more volatile, never lowers the    *)
(* level, whatever else is missing from the weighted mean.                 *)
FollowsSignals ==
    \A v \in {w \in view : w.engine \notin {"transition", "correlation"}} :
        \A read \in {Assess(v)}, x \in Known(v.signal) :
            /\ read.level <= Assess(Raised(v, x)).level
            /\ v.engine = "breadth" => BreadthHealth(v) <= BreadthHealth(Raised(v, x))

(* Today's move costs confidence just when it goes against the daily level *)
(* without turning it.                                                     *)
ConflictCosts ==
    \A v \in {w \in view : w.engine \in {"trend", "momentum", "structure", "relative"}} :
        \A read \in {Assess(v)}, daily \in {Assess([v EXCEPT !.signal.move = None])} :
            (v.signal.move # None /\ daily.level # 0 /\ Sign(read.level) = Sign(daily.level)) =>
              IF Sign(v.signal.move) = -Sign(daily.level) THEN read.confidence <= daily.confidence
              ELSE read.confidence = daily.confidence

(* No sector both leads and lags, and a belief whose two favourites are    *)
(* level is alerted about, one that leads by more than two thirds is not.  *)
ExtremesApart ==
    \A v \in view :
        /\ v.engine = "sector" => Leading(v) \cap Lagging(v) = {}
        /\ v.engine = "transition" /\ Len(v.history) >= 2 =>
             LET latest == Last(v.history)
                 lead == latest[Favourite(latest)] - latest[RunnerUp(latest)]
             IN  (lead = 0 => Alert(v.history)) /\ (Alert(v.history) => 3 * lead <= 200)
=============================================================================
