---------------------------- MODULE Normalization ----------------------------
(***************************************************************************)
(* The rolling calculations of the feature engines (features/normalize.py) *)
(* on a series of integers, None where a value is missing.                 *)
(*                                                                         *)
(* A quotient is kept as its part and its whole, a score as its distance   *)
(* from the mean and the square of the deviation, both times the count;    *)
(* a whole of 0 stands for no value.                                       *)
(***************************************************************************)
EXTENDS Integers, SequencesExt

CONSTANTS Window,     \* settings.feature_normalization_window
          MinObs      \* _default_min_obs(Window)

None == -1000

Over(part, whole) == [part |-> part, whole |-> whole]

NoValue == Over(0, 0)

\* _trailing(): the values that are there among the last `window` up to the i-th.
Trailing(series, i, window) ==
    SelectSeq(SubSeq(series, Max({1, i - window + 1}), i), LAMBDA v : v # None)

Sum(values) ==
    LET sum[k \in 0..Len(values)] == IF k = 0 THEN 0 ELSE sum[k - 1] + values[k]
    IN  sum[Len(values)]

Ordered(values) == SortSeq(values, <)

-----------------------------------------------------------------------------
(* The window that slides over a series: how many values are in it, their  *)
(* sum and sum of squares, and the queues of bars whose front is the       *)
(* lowest and the highest of the window.                                   *)
Slid == [count |-> 0, total |-> 0, squares |-> 0, lows |-> <<>>, highs |-> <<>>]

Entering(series, j, s) ==
    LET v == series[j]
    IN  IF v = None THEN s
        ELSE [count |-> s.count + 1, total |-> s.total + v, squares |-> s.squares + v * v,
              lows |-> Append(SelectSeq(s.lows, LAMBDA k : series[k] < v), j),
              highs |-> Append(SelectSeq(s.highs, LAMBDA k : series[k] > v), j)]

\* Fault: a bar that falls out of the window stays at the front of a queue.
LeavingQueues(series, j, s) ==
    IF j < 1 THEN s ELSE IF series[j] = None THEN s
    ELSE [s EXCEPT !.count = @ - 1, !.total = @ - series[j], !.squares = @ - series[j] * series[j]]

Leaving(series, j, s) ==
    IF j < 1 THEN s ELSE IF series[j] = None THEN s
    ELSE [count |-> s.count - 1, total |-> s.total - series[j],
          squares |-> s.squares - series[j] * series[j],
          lows |-> IF Head(s.lows) = j THEN Tail(s.lows) ELSE s.lows,
          highs |-> IF Head(s.highs) = j THEN Tail(s.highs) ELSE s.highs]

Sliding(series, i) ==
    LET slid[j \in 0..i] ==
            IF j = 0 THEN Slid ELSE Leaving(series, j - Window, Entering(series, j, slid[j - 1]))
    IN  slid[i]

\* rolling_zscore()
ZScore(series, i) ==
    LET s == Sliding(series, i)
        spread == s.count * s.squares - s.total * s.total
    IN  IF series[i] = None \/ s.count < MinObs \/ spread <= 0 THEN NoValue
        ELSE Over(s.count * series[i] - s.total, spread)

\* rolling_minmax()
MinMax(series, i) ==
    LET s == Sliding(series, i)
        low == series[Head(s.lows)]
    IN  IF series[i] = None \/ s.count < MinObs THEN NoValue
        ELSE Over(series[i] - low, series[Head(s.highs)] - low)

-----------------------------------------------------------------------------
\* Four times the q-th quartile: between the values around its position.
Quartile(values, q) ==
    LET position == q * (Len(values) - 1)
        lower == position \div 4
        fraction == position % 4
    IN  (4 - fraction) * Ordered(values)[lower + 1]
          + fraction * Ordered(values)[Min({lower + 2, Len(values)})]

\* rolling_robust()
Robust(series, i) ==
    LET values == Trailing(series, i, Window)
        range == Quartile(values, 3) - Quartile(values, 1)
    IN  IF series[i] = None \/ Len(values) < MinObs \/ range <= 0 THEN NoValue
        ELSE Over(4 * series[i] - Quartile(values, 2), range)

\* rolling_percentile_rank() and trailing_percentile()
Percentile(series, i, window, least) ==
    LET values == Trailing(series, i, window)
    IN  IF series[i] = None \/ Len(values) < least THEN NoValue
        ELSE Over(Len(SelectSeq(values, LAMBDA v : v <= series[i])), Len(values))

\* Fault: a value is among those it is clamped by.
WinsorizedByItself(series, i) ==
    LET values == Trailing(series, i, Window)
    IN  IF series[i] = None \/ Len(values) < MinObs THEN series[i]
        ELSE Min({Max({series[i], Ordered(values)[1]}), Ordered(values)[Len(values)]})

\* rolling_winsorize(): clamped to the 5th and 95th percentile of the values before.
Winsorized(series, i) ==
    LET before == Trailing(series, i - 1, Window)
        n == Len(before) - 1
        low == Ordered(before)[(5 * n) \div 100 + 1]
        high == Ordered(before)[(95 * n + 99) \div 100 + 1]
    IN  IF series[i] = None \/ Len(before) < MinObs THEN series[i]
        ELSE Min({Max({series[i], low}), high})

-----------------------------------------------------------------------------
\* rolling_slope(): a full window without a gap.
SlopeScale(window) == Sum([t \in 1..window |-> (2 * t - window - 1) * (2 * t - window - 1)])

Slope(series, i, window) ==
    LET values == Trailing(series, i, window)
    IN  IF window < 2 \/ i < window \/ Len(values) < window THEN NoValue
        ELSE Over(2 * Sum([t \in 1..window |-> (2 * t - window - 1) * values[t]]), SlopeScale(window))

\* rolling_correlation(): sums over the pairs of the window, and how many have a gap.
Pairs(a, b, i, window) ==
    LET Step(s, j, sign) ==
            IF j < 1 THEN s
            ELSE IF a[j] = None \/ b[j] = None THEN [s EXCEPT !.gaps = @ + sign]
            ELSE [s EXCEPT !.x = @ + sign * a[j], !.y = @ + sign * b[j],
                           !.xx = @ + sign * a[j] * a[j], !.yy = @ + sign * b[j] * b[j],
                           !.xy = @ + sign * a[j] * b[j]]
        sums[j \in 0..i] ==
            IF j = 0 THEN [gaps |-> 0, x |-> 0, y |-> 0, xx |-> 0, yy |-> 0, xy |-> 0]
            ELSE Step(Step(sums[j - 1], j, 1), j - window, -1)
    IN  sums[i]

\* The covariance, and the product of the variances it is divided by the root of.
Correlation(a, b, i, window) ==
    LET s == Pairs(a, b, i, window)
        varX == window * s.xx - s.x * s.x
        varY == window * s.yy - s.y * s.y
    IN  IF i < window \/ s.gaps > 0 \/ varX <= 0 \/ varY <= 0 THEN NoValue
        ELSE Over(window * s.xy - s.x * s.y, varX * varY)

-----------------------------------------------------------------------------
(* Features are whole numbers, mostly percentages.                         *)
AnyMissing(vs) == None \in vs

Percent(part, whole) == IF whole <= 0 THEN None ELSE (100 * part) \div whole

Mean(vs) == IF vs = <<>> THEN None ELSE Sum(vs) \div Len(vs)

Present(vs) == SelectSeq(vs, LAMBDA v : v # None)

\* A slope times its scale, a score as its square with its sign.
SlopeOf(series, i, w) == LET q == Slope(series, i, w) IN IF q = NoValue THEN None ELSE q.part

SignedSquare(q) ==
    IF q.whole = 0 THEN None
    ELSE IF q.part < 0 THEN -((100 * q.part * q.part) \div q.whole) ELSE (100 * q.part * q.part) \div q.whole

\* _quality_check(): the share of values within their range.
Quality(range, vs) ==
    (100 * Len(SelectSeq(vs, LAMBDA v : range[1] <= v /\ v <= range[2]))) \div Len(vs)

-----------------------------------------------------------------------------
(* What slides is the window: what is kept as values enter and leave is    *)
(* what the window holds.                                                  *)
SlidingIsWindow(series) ==
    \A i \in DOMAIN series :
        LET s == Sliding(series, i)
            values == Trailing(series, i, Window)
        IN  /\ s.count = Len(values)
            /\ s.total = Sum(values)
            /\ s.squares = Sum([k \in DOMAIN values |-> values[k] * values[k]])
            /\ values # <<>> => /\ series[Head(s.lows)] = Min(Range(values))
                                /\ series[Head(s.highs)] = Max(Range(values))

(* A score is within the root of the count less one of 0, which is the     *)
(* range of 10 either way registered for a window of 100 bars; a position  *)
(* and a percentile are from 0 to 1; a correlation is from -1 to 1; and a  *)
(* clamped value is between what came before and what it was.              *)
WithinBounds(a, b) ==
    \A i \in DOMAIN a :
        LET before == Trailing(a, i - 1, Window)
            z == ZScore(a, i)
            position == MinMax(a, i)
            rank == Percentile(a, i, Window, MinObs)
            r == Correlation(a, b, i, Window)
        IN  /\ z.part * z.part <= (Window - 1) * z.whole
            /\ position.part \in 0..position.whole
            /\ rank # NoValue => rank.part \in 1..rank.whole
            /\ r.part * r.part <= r.whole
            /\ Len(before) >= MinObs /\ a[i] # None =>
                 Winsorized(a, i) \in Range(before)
                   \cup {v \in {a[i]} : \E x, y \in Range(before) : x <= v /\ v <= y}

Negative(series) == [i \in DOMAIN series |-> IF series[i] = None THEN None ELSE -series[i]]

(* A series turned upside down has the same scores, turned upside down.    *)
EvenHanded(a, b) ==
    \A i \in DOMAIN a :
        LET Opposite(x, y) == x.part = -y.part /\ x.whole = y.whole
            up == MinMax(a, i)
            down == MinMax(Negative(a), i)
        IN  /\ Opposite(ZScore(a, i), ZScore(Negative(a), i))
            /\ Opposite(Robust(a, i), Robust(Negative(a), i))
            /\ Opposite(Slope(a, i, Window), Slope(Negative(a), i, Window))
            /\ Opposite(Correlation(a, b, i, Window), Correlation(Negative(a), b, i, Window))
            /\ up.whole = down.whole /\ up.part + down.part = up.whole
            /\ Winsorized(Negative(a), i) = Negative(<<Winsorized(a, i)>>)[1]
=============================================================================
