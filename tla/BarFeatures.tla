----------------------------- MODULE BarFeatures -----------------------------
(***************************************************************************)
(* The feature engines that work on the bars of one symbol: price, volume, *)
(* volatility, risk and relative strength (features/price, volume,         *)
(* volatility, risk and relative.py).  A run loads the last bars there     *)
(* are, and computes each feature on each of them.                         *)
(*                                                                         *)
(* A bar has its prices and volume, the closes of the benchmark and of the *)
(* volatility index at its time, None if there is none, and the bars of    *)
(* the peers.  Returns are in parts of Unit, whole numbers; deviations     *)
(* and their quotients are kept as squares; closes stand for their         *)
(* logarithms in relative strength, of which one index is a reference like *)
(* the other three; and a hyperbolic tangent is a straight line cut off.   *)
(***************************************************************************)
EXTENDS Normalization

CONSTANTS
    Shapes,           \* the bars there may be
    MaxBars,          \* bound on the bars
    Windows,          \* settings.feature_windows
    Unit

VARIABLE bars

Init == bars = <<>>

NextBar == Len(bars) < MaxBars /\ \E shape \in Shapes : bars' = Append(bars, shape)

-----------------------------------------------------------------------------
When(condition, value) == IF condition THEN value ELSE None

Size(x) == IF x < 0 THEN -x ELSE x

\* The w values of a series up to the i-th, and what is said of them if none is missing.
Recent(F(_), i, w) == [k \in 1..w |-> F(i - w + k)]

Total(F(_), i, w) == LET vs == Recent(F, i, w) IN When(~AnyMissing(Range(vs)), Sum(vs))

\* The square of a deviation, times the square of the count.
Spread(vs) == Len(vs) * Sum([k \in DOMAIN vs |-> vs[k] * vs[k]]) - Sum(vs) * Sum(vs)

\* q hundredths of the way through the values in order, times 100: _quantile().
Quantile(vs, q) ==
    LET position == q * (Len(vs) - 1)
        lower == position \div 100 + 1
        fraction == position % 100
    IN  (100 - fraction) * Ordered(vs)[lower] + fraction * Ordered(vs)[Min({lower + 1, Len(vs)})]

Return(b, i) == When(i > 1 /\ b[Max({1, i - 1})].close > 0, (Unit * (b[i].close - b[i - 1].close)) \div b[i - 1].close)

TrueRange(b, i) ==
    When(i > 1, Max({b[i].high - b[i].low, Size(b[i].high - b[i - 1].close), Size(b[i].low - b[i - 1].close)}))

-----------------------------------------------------------------------------
(* Price.                                                                  *)
PriceRanges ==
    [trueRange |-> <<0, 100000>>, dailyRange |-> <<0, 100000>>, atr |-> <<0, 100000>>,
     distHigh |-> <<-100, 0>>, distLow |-> <<0, 100000>>, correlation |-> <<-100, 100>>]

PriceOfBar(b, i) ==
    LET before == b[i - 1].close
    IN  [simpleReturn |-> Return(b, i), trueRange |-> TrueRange(b, i),
         gap |-> When(i > 1, Percent(b[i].open - before, before)),
         dailyRange |-> When(i > 1, Percent(b[i].high - b[i].low, before)),
         intradayMove |-> Percent(b[i].close - b[i].open, b[i].open)]

\* The benchmark's return is from the last of its bars before, even if that is not the last bar.
BenchReturn(b, i) ==
    LET before == {j \in 1..(i - 1) : b[j].nifty # None}
    IN  When(b[i].nifty # None /\ before # {},
             (Unit * (b[i].nifty - b[Max(before)].nifty)) \div b[Max(before)].nifty)

\* _rolling_regression()
Regression(b, i, w) ==
    LET both == SelectSeq([k \in 1..w |-> <<Return(b, i - w + k), BenchReturn(b, i - w + k)>>],
                          LAMBDA p : p[1] # None /\ p[2] # None)
        n == Len(both)
        SumOf(F(_)) == Sum([k \in 1..n |-> F(both[k])])
        y == SumOf(LAMBDA p : p[1])
        x == SumOf(LAMBDA p : p[2])
        varX == n * SumOf(LAMBDA p : p[2] * p[2]) - x * x
        varY == n * SumOf(LAMBDA p : p[1] * p[1]) - y * y
        cov == n * SumOf(LAMBDA p : p[1] * p[2]) - x * y
        known == i > w /\ n >= Max({3, w \div 2}) /\ varX > 0
    IN  [beta |-> When(known, Percent(cov, varX)),
         alpha |-> When(known, Percent(y * varX - cov * x, n * varX)),
         correlation |-> When(known /\ varY > 0, SignedSquare(Over(cov, varX * varY)))]

Momentum(b, i, w) == When(i > w, Percent(b[i].close - b[i - w].close, b[i - w].close))

PriceFeatures(b, i, w) ==
    LET high == Max({b[j].high : j \in (i - w + 1)..i})
        low == Min({b[j].low : j \in (i - w + 1)..i})
        traded == Sum([k \in 1..w |-> b[i - w + k].volume])
        value == Sum([k \in 1..w |-> LET c == b[i - w + k] IN (c.high + c.low + c.close) * c.volume])
        before == When(i > 1, Momentum(b, i - 1, w))
        now == Momentum(b, i, w)
    IN  [atr |-> When(i > w, Total(LAMBDA j : TrueRange(b, j), i, w)),
         rollingHigh |-> When(i >= w, high), rollingLow |-> When(i >= w, low),
         distHigh |-> When(i >= w, Percent(b[i].close - high, high)),
         distLow |-> When(i >= w, Percent(b[i].close - low, low)),
         vwapDistance |-> When(i >= w, Percent(3 * b[i].close * traded - value, value)),
         momentum |-> now,
         acceleration |-> When(~AnyMissing({before, now}), now - before)]
        @@ Regression(b, i, w)

-----------------------------------------------------------------------------
(* Volume.                                                                 *)
VolumeRanges ==
    [buying |-> <<0, 100000>>, selling |-> <<0, 100000>>, rollingAvg |-> <<0, 100000>>, rvol |-> <<0, 5000>>,
     imbalance |-> <<-100, 100>>, oscillator |-> <<-100, 1000>>, cmf |-> <<-100, 100>>, mfi |-> <<0, 100>>]

\* Where the close is between low and high, from -100 to 100.
Multiplier(bar) ==
    IF bar.high > bar.low
    THEN (100 * ((bar.close - bar.low) - (bar.high - bar.close))) \div (bar.high - bar.low)
    ELSE 0

Delta(bar) == When(bar.high > bar.low /\ bar.volume > 0, Multiplier(bar) * bar.volume)

Typical(bar) == bar.high + bar.low + bar.close

VolumeOfBar(b, i) ==
    LET Share(part) == When(Delta(b[i]) # None, (100 * part * b[i].volume) \div (b[i].high - b[i].low))
    IN  [buying |-> Share(b[i].close - b[i].low), selling |-> Share(b[i].high - b[i].close),
         delta |-> Delta(b[i])]

\* What runs from the first bar that is loaded.
Cumulative(b, i) ==
    LET Side(j) == IF b[j].close > b[j - 1].close THEN 1 ELSE IF b[j].close < b[j - 1].close THEN -1 ELSE 0
    IN  [obv |-> When(i > 1, Sum([j \in 1..i |-> IF j = 1 THEN 0 ELSE Side(j) * b[j].volume])),
         accumDist |-> Sum([j \in 1..i |-> Multiplier(b[j]) * b[j].volume])]

VolumeFeatures(b, i, w) ==
    LET volumes == [j \in DOMAIN b |-> b[j].volume]
        Of(k) == Recent(LAMBDA j : volumes[j], i, k)
        avg == Sum(Of(w))
        deltas == Present(Recent(LAMBDA j : Delta(b[j]), i, w))
        slope == Slope(volumes, i, w)
        prior == Sum([k \in 1..w |-> volumes[i - w + k - 1]])
        Flow(up) == Sum([k \in 1..w |->
                      LET j == i - w + k
                          rises == Typical(b[j]) - Typical(b[j - 1])
                      IN  IF (up /\ rises > 0) \/ (~up /\ rises < 0) THEN Typical(b[j]) * volumes[j] ELSE 0])
    IN  [rollingAvg |-> When(i >= w, avg),
         spike |-> When(i >= w, SignedSquare(Over(w * volumes[i] - avg, Spread(Of(w))))),
         trend |-> When(i >= w, Percent(w * slope.part, SlopeScale(w) * avg)),
         imbalance |-> When(i >= w /\ avg > 0 /\ deltas # <<>>, Sum(deltas) \div avg),
         cmf |-> When(i >= w /\ avg > 0,
                      Sum(Recent(LAMBDA j : Multiplier(b[j]) * volumes[j], i, w)) \div avg),
         rvol |-> When(i > w, Percent(w * volumes[i], prior)),
         mfi |-> When(i > w, Percent(Flow(TRUE), Flow(TRUE) + Flow(FALSE))),
         oscillator |-> When(i >= 2 * w, Percent(2 * avg - Sum(Of(2 * w)), Sum(Of(2 * w))))]

-----------------------------------------------------------------------------
(* Volatility; the logarithmic and the simple return are the same here.    *)
VolatilityRanges ==
    [hist |-> <<0, 100000>>, realized |-> <<0, 100000>>, ofVolatility |-> <<0, 1000000>>,
     regime |-> <<0, 2>>, compression |-> <<0, 100>>, expansion |-> <<10, 90>>]

Rolling(b, i, w) ==
    LET rets == Recent(LAMBDA j : Return(b, j), i, w) IN When(i > w /\ ~AnyMissing(Range(rets)), Spread(rets))

VolatilityFeatures(b, i, w) ==
    LET rolling == [j \in DOMAIN b |-> Rolling(b, j, w)]
        rets == Recent(LAMBDA j : Return(b, j), i, w)
        ranges == Total(LAMBDA j : TrueRange(b, j), i, w)
        vols == Recent(LAMBDA j : rolling[j], i, w)
        rank == Percentile(rolling, i, Window, MinObs)
        ranked == i > w /\ rank # NoValue
        squeeze == 100 - Percent(rank.part, rank.whole)
    IN  [hist |-> rolling[i],
         realized |-> When(rolling[i] # None, w * Sum([k \in 1..w |-> rets[k] * rets[k]])),
         ofVolatility |-> When(i > w /\ ~AnyMissing(Range(vols)), Spread(vols)),
         atrPct |-> When(i > w /\ ranges # None, Percent(ranges, w * b[i].close)),
         regime |-> When(ranked, IF 3 * rank.part < rank.whole THEN 0 ELSE IF 3 * rank.part < 2 * rank.whole THEN 1 ELSE 2),
         vixDistance |-> When(rolling[i] # None /\ b[i].vix # None, rolling[i] - b[i].vix * b[i].vix),
         expectedMove |-> When(rolling[i] # None, b[i].close * b[i].close * rolling[i] * w),
         compression |-> When(ranked, squeeze),
         expansion |-> When(ranked, 10 + (8 * squeeze) \div 10)]

-----------------------------------------------------------------------------
(* Risk.                                                                   *)
RiskRanges ==
    [var95 |-> <<0, 100 * Unit>>, var99 |-> <<0, 100 * Unit>>, cvar95 |-> <<0, 100 * Unit>>,
     maxDrawdown |-> <<0, 100>>, currentDrawdown |-> <<0, 100>>, downside |-> <<0, 1000000>>,
     kurtosis |-> <<100, 100000>>, ulcer |-> <<0, 10000>>, tailRatio |-> <<0, 100000>>]

\* The declines from the highest close of the window so far.
Drawdowns(b, i, w) ==
    [k \in 1..w |->
        LET peak == Max({b[i - w + j].close : j \in 1..k})
        IN  IF peak > 0 THEN (100 * (peak - b[i - w + k].close)) \div peak ELSE 0]

RiskFeatures(b, i, w) ==
    LET rets == Recent(LAMBDA j : Return(b, j), i, w)
        known == i > w /\ ~AnyMissing(Range(rets))
        total == Sum(rets)
        spread == Spread(rets)
        Powers(p) == Sum([k \in 1..w |-> LET d == w * rets[k] - total IN IF p = 3 THEN d * d * d ELSE d * d * d * d])
        q05 == Quantile(rets, 5)
        tail == SelectSeq(rets, LAMBDA r : 100 * r <= q05)
        losses == Sum([k \in 1..w |-> IF rets[k] < 0 THEN rets[k] * rets[k] ELSE 0])
        declines == Drawdowns(b, i, w)
        worst == Max(Range(declines))
    IN  [var95 |-> When(known, Max({0, -q05})),
         var99 |-> When(known, Max({0, -Quantile(rets, 1)})),
         cvar95 |-> When(known /\ tail # <<>>, Max({0, -((100 * Sum(tail)) \div Len(tail))})),
         tailRatio |-> When(known, Percent(Size(Quantile(rets, 95)), Size(q05))),
         downside |-> When(known, losses),
         sharpe |-> When(known, SignedSquare(Over(total, spread))),
         sortino |-> When(known, SignedSquare(Over(total, w * losses))),
         skew |-> When(known /\ spread > 0, Powers(3)),
         kurtosis |-> When(known, Percent(Powers(4), w * spread * spread)),
         maxDrawdown |-> When(i > w, worst),
         currentDrawdown |-> When(i > w, declines[w]),
         ulcer |-> When(i > w, Sum([k \in 1..w |-> declines[k] * declines[k]]) \div w),
         calmar |-> When(known, Percent(total, worst))]

-----------------------------------------------------------------------------
(* Relative strength: against an index, and against the basket of the      *)
(* peers that have a bar.                                                  *)
References == {"nifty", "peers"}

RelativeRanges ==
    [percentileRank |-> <<0, 100>>, outperformance |-> <<0, 100>>, relativeVolume |-> <<0, 100000>>]

Reference(b, i, ref) ==
    LET peers == DOMAIN b[i].peers
    IN  IF ref = "nifty" THEN b[i].nifty
        ELSE When(peers # {}, MapThenSumSet(LAMBDA p : b[i].peers[p].close, peers) \div Cardinality(peers))

Relative(b, i, ref) == When(Reference(b, i, ref) # None, b[i].close - Reference(b, i, ref))

Strength(b, i, w, ref) ==
    LET now == Relative(b, i, ref)
        base == Relative(b, i - w, ref)
    IN  When(i > w, When(~AnyMissing({now, base}), now - base))

\* The squares of a stock's and of its reference's deviations.
Swings(b, i, w, ref) ==
    LET Moves(F(_)) == [k \in 1..w |->
            LET j == i - w + k IN When(~AnyMissing({F(j), F(j - 1)}), F(j) - F(j - 1))]
        own == Moves(LAMBDA j : b[j].close)
        theirs == Moves(LAMBDA j : Reference(b, j, ref))
    IN  IF i > w /\ ~AnyMissing(Range(own) \cup Range(theirs)) /\ Spread(own) > 0 /\ Spread(theirs) > 0
        THEN Over(Spread(own), Spread(theirs)) ELSE NoValue

RelativeVolume(b, i, w) ==
    LET InWindow(F(_)) == Recent(LAMBDA j : F(j), i, w)
        own == InWindow(LAMBDA j : b[j].volume)
        Theirs(p) == InWindow(LAMBDA j : IF p \in DOMAIN b[j].peers THEN b[j].peers[p].volume ELSE 0)
        full == {p \in UNION {DOMAIN b[j].peers : j \in DOMAIN b} : 0 \notin Range(Theirs(p))}
    IN  When(0 \notin Range(own),
             Percent(Cardinality(full) * Sum(own), MapThenSumSet(LAMBDA p : Sum(Theirs(p)), full)))

PercentileRank(b, i, w) ==
    LET own == b[i].close - b[i - w].close
        group == DOMAIN b[i].peers \cap DOMAIN b[i - w].peers
        behind == {p \in group : b[i].peers[p].close - b[i - w].peers[p].close <= own}
    IN  When(group # {}, Percent(1 + Cardinality(behind), 1 + Cardinality(group)))

RelativeFeatures(b, i, w) ==
    LET strengths == Present([k \in 1..2 |-> Strength(b, i, w, IF k = 1 THEN "nifty" ELSE "peers")])
        Bounded(s) == Min({50, Max({-50, 10 * s})})
        swings(ref) == Swings(b, i, w, ref)
    IN  [f \in {"strength", "momentum", "volatility"} \X References |->
            CASE f[1] = "strength" -> Strength(b, i, w, f[2])
              [] f[1] = "momentum" -> SlopeOf([j \in DOMAIN b |-> Relative(b, j, f[2])], i, w)
              [] f[1] = "volatility" -> Percent(swings(f[2]).part, swings(f[2]).whole)]
        @@ [f \in {"relativeVolume", "percentileRank", "outperformance"} \X {"all"} |->
            CASE f[1] = "relativeVolume" -> When(i > w, RelativeVolume(b, i, w))
              [] f[1] = "percentileRank" -> When(i > w, PercentileRank(b, i, w))
              [] f[1] = "outperformance" ->
                   When(i > w /\ strengths # <<>>,
                        50 + Mean([k \in DOMAIN strengths |-> Bounded(strengths[k])]))]

-----------------------------------------------------------------------------
\* The features of a bar over a window; those of volume only if there is any.
Features(b, i, w) ==
    PriceOfBar(b, i) @@ PriceFeatures(b, i, w) @@ VolatilityFeatures(b, i, w) @@ RiskFeatures(b, i, w)
      @@ IF \E j \in DOMAIN b : b[j].volume > 0 THEN VolumeOfBar(b, i) @@ VolumeFeatures(b, i, w) ELSE <<>>

\* What is relative to a trailing window of values, not of bars.
Ranked == {"regime", "compression", "expansion"}

\* What is known of less is the same as what is known of more.
Kept(is, was, names) == \A f \in names : is[f] # None => is[f] = was[f]

(* What a feature reads reaches back a window and no further: once the     *)
(* oldest bar has dropped out of what is loaded, the newest bar has the    *)
(* features it had, so that a full run stores what incremental runs did.   *)
WindowsReachBack ==
    Len(bars) > 1 => \A w \in Windows :
        LET young == Tail(bars)
            is == Features(young, Len(young), w)
            isRelative == RelativeFeatures(young, Len(young), w)
            gone == IF \A j \in DOMAIN bars : bars[j].nifty # None THEN {} ELSE {"alpha", "beta", "correlation"}
        IN  /\ Kept(is, Features(bars, Len(bars), w), DOMAIN is \ (Ranked \cup gone))
            /\ Kept(isRelative, RelativeFeatures(bars, Len(bars), w), DOMAIN isRelative)

Ranges == PriceRanges @@ VolumeRanges @@ VolatilityRanges @@ RiskRanges

InRange(range, v) == v # None => Quality(range, <<v>>) = 100

Agreeing(f, volume) ==
    LET Known(names) == names \subseteq DOMAIN f /\ \A n \in names : f[n] # None
    IN  /\ Known({"var95"}) => f.cvar95 >= f.var95 /\ f.var99 >= f.var95
        /\ Known({"maxDrawdown"}) => /\ f.currentDrawdown <= f.maxDrawdown
                                     /\ f.ulcer <= f.maxDrawdown * f.maxDrawdown
        /\ Known({"hist"}) => f.hist <= f.realized
        /\ Known({"imbalance"}) => f.imbalance = f.cmf
        /\ Known({"delta"}) => f.buying + f.selling = 100 * volume /\ f.buying - f.selling = f.delta
        /\ Known({"regime"}) => (f.regime = 2 <=> f.compression <= 34)

InRangeAndAgreeing(f, relative, volume) ==
    /\ \A n \in DOMAIN f \cap DOMAIN Ranges : InRange(Ranges[n], f[n])
    /\ \A n \in DOMAIN RelativeRanges : InRange(RelativeRanges[n], relative[<<n, "all">>])
    /\ Agreeing(f, volume)

(* A feature is within its registered range, and features of one window    *)
(* agree: a loss in the tail is no less than what bounds the tail, a       *)
(* decline no more than the worst, volume is bought or sold.               *)
BarsInRange ==
    bars # <<>> => \A w \in Windows :
        InRangeAndAgreeing(Features(bars, Len(bars), w), RelativeFeatures(bars, Len(bars), w), Last(bars).volume)

\* Prices turned upside down.
Top == 30

Down(price) == IF price = None THEN None ELSE Top - price

UpsideDown(b) ==
    [j \in DOMAIN b |->
        [b[j] EXCEPT !.open = Down(@), !.high = Down(b[j].low), !.low = Down(b[j].high), !.close = Down(@),
                     !.nifty = Down(@), !.peers = [p \in DOMAIN @ |-> [@[p] EXCEPT !.close = Down(@)]]]]

Turns(x, y) == (x = None /\ y = None) \/ (x # None /\ y = -x)

VolumeMirrored(up, down) ==
    /\ up.buying = down.selling /\ up.selling = down.buying
    /\ Turns(up.delta, down.delta) /\ Turns(up.obv, down.obv) /\ Turns(up.accumDist, down.accumDist)

RelativeMirrored(strong, weak) ==
    /\ \A ref \in References :
         /\ Turns(strong[<<"strength", ref>>], weak[<<"strength", ref>>])
         /\ Turns(strong[<<"momentum", ref>>], weak[<<"momentum", ref>>])
         /\ strong[<<"volatility", ref>>] = weak[<<"volatility", ref>>]
    /\ strong[<<"outperformance", "all">>] # None =>
         strong[<<"outperformance", "all">>] + weak[<<"outperformance", "all">>] \in 99..100

(* In a market turned upside down, sellers are the buyers, the lines run   *)
(* down, and a stock is as weak against its references as it was strong.   *)
BarsMirrored ==
    LET i == Len(bars)
        down == UpsideDown(bars)
    IN  i > 0 => /\ VolumeMirrored(VolumeOfBar(bars, i) @@ Cumulative(bars, i),
                                   VolumeOfBar(down, i) @@ Cumulative(down, i))
                 /\ \A w \in Windows :
                      RelativeMirrored(RelativeFeatures(bars, i, w), RelativeFeatures(down, i, w))
=============================================================================
