------------------------------ MODULE Features ------------------------------
(***************************************************************************)
(* The feature engines, each on inputs of a bounded set: of collector runs,*)
(* of series, of bars, of sessions and of the calendar.                    *)
(***************************************************************************)
EXTENDS Integers, Sequences, FiniteSets, TLC

VARIABLES topic,
          engine, observed, values, columns, chart,
          intraday, firstDay, leap, day, minute

features == <<engine, observed, values, columns, chart>>
sessions == <<intraday, firstDay, leap, day, minute>>

-----------------------------------------------------------------------------
\* What the collectors of each engine may have observed at a moment; an observation may lack a
\* label, a value or a field, and None is -1000.
Missing == -1000

V(v) == [value |-> v]

Market(up, down, unchanged) == [advances |-> V(up), declines |-> V(down), unchanged |-> V(unchanged)]

Sectors(heat, strength) ==
    [it |-> [value |-> heat, strength |-> strength, momentum |-> 1, capital |-> 2],
     bank |-> [value |-> 50, strength |-> 6, momentum |-> -1, capital |-> Missing]]

Calendar(hours, kinds) ==
    [summary |-> [reduction |-> 60, freeze |-> TRUE, count |-> Cardinality(kinds), impact |-> "high", kinds |-> kinds],
     one |-> [hours |-> hours, pre |-> hours \in 1..4, multiplier |-> 150, impact |-> "high"]]

Chain(calls, iv, writing) ==
    [pcr |-> [value |-> 60, calls |-> calls, puts |-> 6],
     max_pain |-> [value |-> 0, spot |-> 100, distance |-> -5],
     atm_iv |-> V(iv), call_writing |-> V(20), put_writing |-> V(writing)]

Flows(fii, index) ==
    [fii_flow |-> V(fii), dii_flow |-> V(40), participation_index |-> [value |-> index, deals |-> Missing]]

Article(sentiment, category) ==
    [article |-> [sentiment |-> sentiment, novelty |-> 60, urgency |-> "high", category |-> category,
                  title |-> {"a", "b"}, entities |-> 1]]

Observed ==
    [breadth |->
        {Market(3, 1, 0) @@ [new_highs_52w |-> V(4), new_lows_52w |-> V(0), above_ema20 |-> V(80),
                             ad_line_delta |-> [value |-> 2, line |-> 12]],
         Market(0, 3, 1) @@ [new_highs_52w |-> V(1), new_lows_52w |-> V(5), above_ema20 |-> V(10),
                             above_ema50 |-> V(30), breadth_score |-> V(20),
                             ad_line_delta |-> [value |-> -3, line |-> -9]],
         Market(0, 0, 0) @@ [above_ema20 |-> V(Missing)],
         [declines |-> V(1), new_highs_52w |-> V(2)], <<>>},
     sectors |->
        {Sectors(20, -6), Sectors(50, 12),
         [metal |-> [value |-> 90, strength |-> 0, momentum |-> Missing, capital |-> 0],
          SECTORS |-> [value |-> Missing, intensity |-> 30]]},
     events |->
        {Calendar(-1, {"RBI"}), Calendar(3, {"RBI", "FED"}), Calendar(3, {"RBI"}), <<>>,
         [two |-> [hours |-> 8, pre |-> FALSE, multiplier |-> Missing, impact |-> "odd"]],
         [summary |-> [reduction |-> 0, freeze |-> FALSE, count |-> 0, impact |-> "none", kinds |-> {}]]},
     options |->
        {Chain(10, 12, 60), Chain(10, 18, 0), Chain(0, 12, 0),
         [volume_distribution |-> [value |-> 0, pcr |-> 80], oi_distribution |-> [value |-> 0, spot |-> 90],
          max_pain |-> [value |-> Missing, spot |-> Missing, distance |-> 2]]},
     flows |->
        {Flows(-100, 60), Flows(20, -40), Flows(Missing, 60),
         [dii_flow |-> V(-20), sast_filings |-> V(50)]},
     macro |->
        {[gold |-> [value |-> 20, level |-> 10, change |-> 2, zscore |-> Missing]],
         [gold |-> [value |-> Missing, level |-> 10, change |-> 2, zscore |-> 100]],
         [oil |-> [value |-> 10, level |-> 80, change |-> Missing, zscore |-> 0]]},
     news |->
        {Article(-60, "sector"), Article(60, "macro"),
         [article |-> [sentiment |-> Missing, novelty |-> Missing, urgency |-> "odd", category |-> "",
                       title |-> {"b", "c", "d"}, entities |-> 0]]}]

\* Of one kind more rows are kept than an engine looks back on.
Featuring == INSTANCE RunFeatures WITH
    kind <- engine, rows <- observed, stored <- values, Feeds <- Observed,
    MaxRows <- [k \in DOMAIN Observed |-> IF k = "macro" THEN 4 ELSE 3],
    BucketSeconds <- 2, Lookback <- 3, Windows <- {2, 3}, Labels <- <<"bank", "gold", "it", "metal", "oil">>,
    SimilarityLookback <- 2, TrailingHours <- 2, MaxPairs <- 2, Window <- 3, MinObs <- 2

\* The values of two series on a bar.
Points == {<<0, 0>>, <<1, 0>>, <<3, 2>>, <<1, 3>>, <<Missing, 1>>, <<2, Missing>>}

MaxPoints == 5

Lengthen ==
    /\ Len(columns[1]) < MaxPoints
    /\ \E p \in Points : columns' = <<Append(columns[1], p[1]), Append(columns[2], p[2])>>

\* Bars that rise, fall, stand still and are not traded, with and without a benchmark and peers.
Bar(open, high, low, close, volume, nifty, peers) ==
    [open |-> open, high |-> high, low |-> low, close |-> close, volume |-> volume, nifty |-> nifty,
     vix |-> 2, peers |-> peers]

Peer(close, volume) == [close |-> close, volume |-> volume]

Charting == INSTANCE BarFeatures WITH
    bars <- chart,
    Shapes <- {Bar(10, 12, 8, 10, 5, 20, [a |-> Peer(10, 3), b |-> Peer(12, 4)]),
               Bar(12, 12, 7, 7, 3, 18, [a |-> Peer(6, 2)]),
               Bar(9, 9, 9, 9, 0, 20, <<>>),
               Bar(8, 13, 8, 12, 6, Missing, [a |-> Peer(16, 5), b |-> Peer(8, 0)])},
    MaxBars <- 5, Windows <- {2, 3}, Unit <- 10, Window <- 3, MinObs <- 2

\* Sessions of four bars, more than what is loaded; a year of the real length.
Trading == INSTANCE SessionFeatures WITH
    bars <- intraday, Closes <- {8, 10}, MaxBars <- 7, Lookback <- 6, BarsPerSession <- 4, HorizonBars <- 2,
    MinCandles <- 2, MinReturns <- 2, ExpiryWeekday <- 1, Holidays <- {26, 359}, BudgetDays <- 5,
    Minutes <- {555, 700}, Window <- 3, MinObs <- 2

Init ==
    /\ columns = <<<<>>, <<>>>>
    /\ IF topic = "features" THEN Featuring!Init ELSE engine = "none" /\ observed = <<>> /\ values = <<>>
    /\ Charting!Init /\ Trading!Init
    /\ topic # "calendar" => firstDay = 0 /\ ~leap /\ minute = 700

ComputeFeatures ==
    topic = "features" /\ Featuring!Next /\ UNCHANGED <<topic, columns, chart, sessions>>

FollowSeries ==
    topic = "series" /\ Lengthen /\ UNCHANGED <<topic, engine, observed, values, chart, sessions>>

FollowBars ==
    topic = "bars" /\ Charting!NextBar /\ UNCHANGED <<topic, engine, observed, values, columns, sessions>>

FollowSessions ==
    /\ \/ topic = "sessions" /\ Trading!NextBar
       \/ topic = "calendar" /\ Trading!NextDay
    /\ UNCHANGED <<topic, features>>

Next == ComputeFeatures \/ FollowSeries \/ FollowBars \/ FollowSessions

-----------------------------------------------------------------------------
(* What is stored of a collector run stands, is within its range and knows *)
(* no direction (features/breadth.py and the other engines of runs); what  *)
(* slides over a series is its window (features/normalize.py); and a bar   *)
(* has the features it has however much is loaded, even-handed and in      *)
(* range (features/price.py and the other engines of bars).                *)
FeaturesSound ==
    /\ topic = "features" => Featuring!StoredStands /\ Featuring!FeaturesInRange /\ Featuring!FeaturesMirrored
    /\ topic = "series" => /\ Featuring!SlidingIsWindow(columns[1])
                           /\ Featuring!WithinBounds(columns[1], columns[2])
                           /\ Featuring!EvenHanded(columns[1], columns[2])
    /\ topic = "bars" => Charting!WindowsReachBack /\ Charting!BarsInRange /\ Charting!BarsMirrored
    /\ topic = "sessions" => Trading!SessionsApart /\ Trading!SessionsRunOut
    /\ topic = "calendar" => Trading!CalendarTrue
=============================================================================
