------------------------------ MODULE Structure ------------------------------
(***************************************************************************)
(* The market structure engine (features/structure.py): swings, breaks of  *)
(* structure, gaps and order blocks of a series of bars, and the profile   *)
(* of a session.                                                           *)
(*                                                                         *)
(* The engine computes a row for each bar from the whole series, and is    *)
(* run again on a longer one.  Prices are about 100, so that a unit of     *)
(* price is one percent; ratios and probabilities are in percent; None     *)
(* stands for a value that is not there.  The tanh of the bias is a        *)
(* straight line between the same ends.  The VWAP band is left out.        *)
(***************************************************************************)
EXTENDS Integers, SequencesExt

CONSTANTS
    Candles,          \* the bars there may be
    MaxCandles,       \* bound on a series
    Fractal,          \* settings.feature_structure_fractal
    AtrWindow, DecayBars, Levels,                 \* ATR_WINDOW, BOS_DECAY_BARS, LIQUIDITY_LEVELS
    OpeningBars, BalanceBars, SessionBars, Bins   \* bars of a session, PROFILE_BINS

VARIABLE candles

None == -1

Init == candles = <<>>

Next == Len(candles) < MaxCandles /\ \E c \in Candles : candles' = Append(candles, c)

-----------------------------------------------------------------------------
Around(j) == (j - Fractal)..(j + Fractal)

\* Fault: a swing is known at its own bar.
KnownAtOnce(j) == j

\* The bar at which a swing at bar j is known: those on its right are there.
KnownAt(j) == j + Fractal

\* _confirmed_swings(): the bars none around which goes further.
SwingHighs(cs) ==
    {j \in DOMAIN cs : /\ Around(j) \subseteq DOMAIN cs
                       /\ \A m \in Around(j) : cs[m].high <= cs[j].high}

SwingLows(cs) ==
    {j \in DOMAIN cs : /\ Around(j) \subseteq DOMAIN cs
                       /\ \A m \in Around(j) : cs[m].low >= cs[j].low}

\* The level that becomes known at bar i, if there is one.
FreshHighs(cs, i) == {cs[j].high : j \in {h \in SwingHighs(cs) : KnownAt(h) = i}}
FreshLows(cs, i) == {cs[j].low : j \in {l \in SwingLows(cs) : KnownAt(l) = i}}

\* A level that repeats the one before it is none.
Learned(levels, fresh) ==
    levels \o SetToSeq({l \in fresh : levels = <<>> \/ l # Last(levels)})

\* hh_run: how many of the last swings went higher than the one before.
Run(levels) ==
    FoldLeft(LAMBDA run, k : IF levels[k] > levels[k - 1] THEN run + 1 ELSE 0,
             0, [k \in 1..(Len(levels) - 1) |-> k + 1])

Trend(highs, lows) ==
    LET h == Len(highs)
        l == Len(lows)
    IN  IF h < 2 \/ l < 2 THEN None
        ELSE IF highs[h] > highs[h - 1] /\ lows[l] > lows[l - 1] THEN 1
        ELSE IF highs[h] < highs[h - 1] /\ lows[l] < lows[l - 1] THEN 2
        ELSE 0

-----------------------------------------------------------------------------
\* What the loop of compute_structure_daily() carries from bar to bar.
Start == [highs |-> <<>>, lows |-> <<>>, brokenHigh |-> None, brokenLow |-> None,
          breakAt |-> None, breakTo |-> 0, gaps |-> <<>>, block |-> None, rows |-> <<>>]

\* A fresh swing re-arms the break of structure.
Rearmed(s, highs, lows) ==
    [s EXCEPT !.highs = highs, !.lows = lows,
              !.brokenHigh = IF highs = s.highs THEN @ ELSE None,
              !.brokenLow = IF lows = s.lows THEN @ ELSE None]

\* Fault: the level stays armed.
BrokenRepeatedly(s, close, i) ==
    IF s.highs # <<>> /\ close > Last(s.highs)
    THEN [s EXCEPT !.breakAt = i, !.breakTo = 1]
    ELSE IF s.lows # <<>> /\ close < Last(s.lows)
    THEN [s EXCEPT !.breakAt = i, !.breakTo = -1]
    ELSE s

\* The close goes beyond the last swing, for the first time.
Broken(s, close, i) ==
    IF s.highs # <<>> /\ close > Last(s.highs) /\ s.brokenHigh # Last(s.highs)
    THEN [s EXCEPT !.brokenHigh = Last(s.highs), !.breakAt = i, !.breakTo = 1]
    ELSE IF s.lows # <<>> /\ close < Last(s.lows) /\ s.brokenLow # Last(s.lows)
    THEN [s EXCEPT !.brokenLow = Last(s.lows), !.breakAt = i, !.breakTo = -1]
    ELSE s

\* Fair value gaps: opened over three bars, and closed by one that covers the middle.
Opened(cs, i) ==
    IF i > 2 /\ cs[i].low > cs[i - 2].high
    THEN <<[top |-> cs[i].low, bottom |-> cs[i - 2].high, sign |-> 1]>>
    ELSE IF i > 2 /\ cs[i].high < cs[i - 2].low
    THEN <<[top |-> cs[i - 2].low, bottom |-> cs[i].high, sign |-> -1]>>
    ELSE <<>>

StillOpen(gaps, bar) ==
    SelectSeq(gaps, LAMBDA g : ~ (/\ 2 * bar.low <= g.top + g.bottom
                                  /\ g.top + g.bottom <= 2 * bar.high))

Abs(x) == IF x < 0 THEN -x ELSE x

TrueRange(cs, i) ==
    IF i = 1 THEN 0
    ELSE Max({cs[i].high - cs[i].low, Abs(cs[i].high - cs[i - 1].close),
              Abs(cs[i].low - cs[i - 1].close)})

Ranges(cs, i) == [k \in 1..AtrWindow |-> TrueRange(cs, i - AtrWindow + k)]

\* The bar before an impulse past the average true range, against its direction: twice
\* its middle.
Block(cs, i) ==
    IF i <= AtrWindow THEN None
    ELSE LET atr == FoldLeft(LAMBDA sum, range : sum + range, 0, Ranges(cs, i))
             impulse == AtrWindow * (cs[i].close - cs[i - 1].close)
             before == cs[i - 1]
         IN  IF \/ impulse > atr /\ before.close < before.open
                \/ -impulse > atr /\ before.close > before.open
             THEN before.high + before.low ELSE None

Clip(x, lo, hi) == Max({lo, Min({x, hi})})

\* The structural bias, the heuristics upon it, and the row of the bar.
Row(s, close, i) ==
    LET trend == Trend(s.highs, s.lows)
        sign == CASE trend = 1 -> 1 [] trend = 2 -> -1 [] OTHER -> 0
        hh == Run(s.highs)
        ll == Run([k \in DOMAIN s.lows |-> -s.lows[k]])
        bos == IF s.breakAt = i THEN s.breakTo ELSE 0
        decayed == IF s.breakAt = None \/ i - s.breakAt > DecayBars THEN 0
                   ELSE s.breakTo * (DecayBars - (i - s.breakAt)) * 30
        bias == IF trend = None THEN None
                ELSE 100 + Clip(50 * sign + Clip(7 * (hh - ll), -20, 20)
                                  + (IF decayed >= 0 THEN decayed \div DecayBars
                                     ELSE -((-decayed) \div DecayBars)), -100, 100)
        near(distance) == 50 * (2 - Min({distance, 2}))
        levels == ToSet(SubSeq(s.highs, Max({1, Len(s.highs) - Levels + 1}), Len(s.highs)))
                    \cup ToSet(SubSeq(s.lows, Max({1, Len(s.lows) - Levels + 1}), Len(s.lows)))
        liquidity == IF levels = {} THEN None ELSE Min({Abs(level - close) : level \in levels})
    IN  [highs |-> s.highs, lows |-> s.lows, trend |-> trend, hh |-> hh, ll |-> ll, bos |-> bos,
         choch |-> IF bos * sign = -1 THEN bos ELSE 0,
         liquidity |-> liquidity,
         gaps |-> FoldLeft(LAMBDA sum, g : sum + g.sign, 0, s.gaps),
         block |-> IF s.block = None THEN None ELSE 1000 + 2 * close - s.block,
         bias |-> bias,
         breakout |-> IF bias = None \/ s.highs = <<>> THEN None
                      ELSE Clip(50 + (30 * (bias - 100) + 20 * near(Abs(Last(s.highs) - close))) \div 100, 5, 95),
         sweep |-> IF liquidity = None THEN None ELSE Clip(15 + (70 * near(liquidity)) \div 100, 5, 95)]

\* What round i of the loop reads of the series.
Round(cs, i) ==
    [at |-> i, bar |-> cs[i], highs |-> FreshHighs(cs, i), lows |-> FreshLows(cs, i),
     opened |-> Opened(cs, i), block |-> Block(cs, i)]

Bar(s, r) ==
    LET t == Broken(Rearmed(s, Learned(s.highs, r.highs), Learned(s.lows, r.lows)), r.bar.close, r.at)
        u == [t EXCEPT !.gaps = StillOpen(@ \o r.opened, r.bar),
                       !.block = IF r.block = None THEN @ ELSE r.block]
    IN  [u EXCEPT !.rows = Append(@, Row(u, r.bar.close, r.at))]

Rows(cs) == FoldLeft(LAMBDA s, r : Bar(s, r), Start, [i \in DOMAIN cs |-> Round(cs, i)]).rows

-----------------------------------------------------------------------------
\* _session_features(): ranges of the opening, and the 70% value area around the bin
\* where most was traded.
Top(cs) == Max({cs[i].high : i \in DOMAIN cs})
Bottom(cs) == Min({cs[i].low : i \in DOMAIN cs})
Spread(cs) == Top(cs) - Bottom(cs)

Traded(cs) == FoldLeft(LAMBDA sum, c : sum + c.volume, 0, cs)

\* Without volume, every bar has the same weight.
Profile(cs) ==
    LET bottom == Bottom(cs)
        spread == Spread(cs)
        evenly == Traded(cs) = 0
        Bin(i) == Min({((cs[i].close - bottom) * Bins) \div spread, Bins - 1})
    IN  [b \in 0..(Bins - 1) |-> MapThenSumSet(LAMBDA i : IF evenly THEN 1 ELSE cs[i].volume,
                                              {i \in DOMAIN cs : Bin(i) = b})]

Total(profile) == MapThenSumSet(LAMBDA b : profile[b], DOMAIN profile)

PointOfControl(profile) ==
    Min({b \in DOMAIN profile : \A c \in DOMAIN profile : profile[c] <= profile[b]})

\* Grown by the heavier neighbour, the upper one if they weigh the same.
Grown(area, profile, total) ==
    LET below == IF area.low > 0 THEN profile[area.low - 1] ELSE -1
        above == IF area.high < Bins - 1 THEN profile[area.high + 1] ELSE -1
    IN  IF 10 * area.covered >= 7 * total \/ {below, above} = {-1} THEN area
        ELSE IF above >= below THEN [area EXCEPT !.high = @ + 1, !.covered = @ + above]
        ELSE [area EXCEPT !.low = @ - 1, !.covered = @ + below]

ValueArea(profile) ==
    LET poc == PointOfControl(profile)
        total == Total(profile)
        area[k \in 0..Bins] == IF k = 0 THEN [low |-> poc, high |-> poc, covered |-> profile[poc]]
                               ELSE Grown(area[k - 1], profile, total)
    IN  area[Bins]

Session(cs) ==
    LET opening == SubSeq(cs, 1, OpeningBars)
        balance == SubSeq(cs, 1, BalanceBars)
        close == Last(cs).close
        middle(part) == 100 * (2 * close - Top(part) - Bottom(part))
    IN  [opening   |-> IF Spread(opening) = 0 THEN None
                       ELSE 1000 + Clip(middle(opening) \div Spread(opening), -500, 500),
         extension |-> IF Spread(balance) = 0 THEN None ELSE (100 * Spread(cs)) \div Spread(balance),
         auction   |-> IF Spread(cs) = 0 THEN None ELSE 1000 + middle(cs) \div Spread(cs)]

-----------------------------------------------------------------------------
(* A feature of a bar is a fact of that bar: computed again when later     *)
(* bars are there it is the same, or models would be trained on what       *)
(* nobody could have known ("confirmed", structure.py).                    *)
NoLookAhead == SubSeq(Rows(candles'), 1, Len(candles)) = Rows(candles)

Mirror(cs) == [i \in DOMAIN cs |->
    [cs[i] EXCEPT !.open = 200 - cs[i].open, !.close = 200 - cs[i].close,
                  !.high = 200 - cs[i].low, !.low = 200 - cs[i].high]]

(* A market turned upside down has its structure turned over: trend, runs, *)
(* breaks, gaps and bias, as long as no low has been above a high.         *)
Symmetric ==
    LET rows == Rows(candles)
        turned == Rows(Mirror(candles))
    IN  \A i \in DOMAIN rows :
            (\A h \in ToSet(rows[i].highs), l \in ToSet(rows[i].lows) : l < h) =>
            /\ turned[i].trend = (CASE rows[i].trend = 1 -> 2 [] rows[i].trend = 2 -> 1 [] OTHER -> rows[i].trend)
            /\ turned[i].hh = rows[i].ll /\ turned[i].bos = -rows[i].bos
            /\ turned[i].choch = -rows[i].choch /\ turned[i].gaps = -rows[i].gaps
            /\ turned[i].bias = IF rows[i].bias = None THEN None ELSE 200 - rows[i].bias

(* A level is broken once, until a new swing is known; a change of         *)
(* character goes against the trend; a gap is open until a bar covers its  *)
(* middle; and the heuristics stay within their bounds.                    *)
BreaksOnce ==
    LET rows == Rows(candles)
    IN  /\ \A i, j \in DOMAIN rows :
             /\ i < j /\ rows[i].bos = rows[j].bos /\ rows[i].bos = 1
                => \E k \in (i + 1)..j : rows[k].highs # rows[k - 1].highs
             /\ i < j /\ rows[i].bos = rows[j].bos /\ rows[i].bos = -1
                => \E k \in (i + 1)..j : rows[k].lows # rows[k - 1].lows
        /\ \A i \in DOMAIN rows :
             /\ rows[i].choch # 0 => rows[i].trend = IF rows[i].choch = 1 THEN 2 ELSE 1
             /\ rows[i].gaps = Cardinality({j \in 3..i :
                                  /\ candles[j].low > candles[j - 2].high
                                  /\ \A k \in j..i :
                                       \/ 2 * candles[k].low > candles[j].low + candles[j - 2].high
                                       \/ 2 * candles[k].high < candles[j].low + candles[j - 2].high})
                             - Cardinality({j \in 3..i :
                                  /\ candles[j].high < candles[j - 2].low
                                  /\ \A k \in j..i :
                                       \/ 2 * candles[k].low > candles[j].high + candles[j - 2].low
                                       \/ 2 * candles[k].high < candles[j].high + candles[j - 2].low})

(* The profile of a session counts every bar once, its value area holds    *)
(* the point of control and 70% of what was traded and no more bins than   *)
(* it needs, and the session ratios are in the ranges declared for them.   *)
SessionProfiled ==
    Len(candles) >= SessionBars /\ Spread(candles) > 0 =>
        LET profile == Profile(candles)
            area == ValueArea(profile)
            poc == PointOfControl(profile)
            session == Session(candles)
            Within(low, high) == MapThenSumSet(LAMBDA b : profile[b], low..high)
        IN  /\ Total(profile) = IF Traded(candles) > 0 THEN Traded(candles) ELSE Len(candles)
            /\ poc \in area.low..area.high
            /\ 10 * Within(area.low, area.high) >= 7 * Total(profile)
            /\ area.low < area.high =>
                 10 * Min({Within(area.low + 1, area.high), Within(area.low, area.high - 1)})
                   < 7 * Total(profile)
            /\ session.extension # None => session.extension >= 100
            /\ session.auction \in 900..1100
=============================================================================
