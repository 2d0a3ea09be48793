----------------------------- MODULE RunFeatures -----------------------------
(***************************************************************************)
(* The feature engines that work on collector runs instead of bars: they   *)
(* read back the observations stored in market_events, put them together   *)
(* again into a snapshot for each run, compute a value of each feature for *)
(* each snapshot, and store those newer than the last stored               *)
(* (features/sector, events, breadth, options, institutional_flow, macro   *)
(* and news.py, snapshots.py).                                             *)
(*                                                                         *)
(* A row is what a collector stored at one moment: the observations it     *)
(* made then, each with its value and metadata under its label; a run may  *)
(* leave several rows.  Ratios and scores are in percent.  The entropy of  *)
(* topics is replaced by a curve between the same ends.                    *)
(***************************************************************************)
EXTENDS Normalization

CONSTANTS
    Feeds,            \* for each kind of engine, the observations there may be at a moment
    MaxRows,          \* bound on the rows of each kind
    BucketSeconds,    \* bucket_seconds
    Lookback,         \* settings.feature_*_lookback
    Windows,          \* settings.feature_windows
    Labels,           \* the sectors and the factors, in the order of their names
    SimilarityLookback, TrailingHours, MaxPairs   \* SIMILARITY_LOOKBACK and others

VARIABLES
    kind,             \* the engine considered
    rows,             \* market_events of its collector, oldest first
    stored            \* feature_values: the values of each feature, and the rows they were read from

vars == <<kind, rows, stored>>

Init == kind \in DOMAIN Feeds /\ rows = <<>> /\ stored = <<>>

-----------------------------------------------------------------------------
(* Reading back.                                                           *)
\* What has no label counts among the latest rows, and is left out.
Loaded ==
    SelectSeq(SubSeq(rows, Max({1, Len(rows) - Lookback + 1}), Len(rows)), LAMBDA r : DOMAIN r.seen # {})

\* The moment of an article is the hour it was published in.
Bucket(at) == IF kind = "news" THEN at ELSE at \div BucketSeconds

Buckets(rs) == {Bucket(rs[k].at) : k \in DOMAIN rs}

\* Hours without an article have a snapshot too.
Moments(rs) ==
    SetToSortSeq(IF kind = "news" /\ rs # <<>> THEN Min(Buckets(rs))..Max(Buckets(rs)) ELSE Buckets(rs), <)

\* bucket_observations() and bucket_event_observations(): a snapshot for each bucket.
Snapshot(rs, moment) ==
    LET of == SelectSeq(rs, LAMBDA r : Bucket(r.at) = moment)
    IN  [at |-> IF of = <<>> THEN moment ELSE Max({of[j].at : j \in DOMAIN of}),
         seen |-> [j \in DOMAIN of |-> of[j].seen]]

Snapshots(rs) ==
    LET moments == Moments(rs)
        snaps[k \in 0..Len(moments)] ==
            IF k = 0 THEN <<>> ELSE Append(snaps[k - 1], Snapshot(rs, moments[k]))
    IN  snaps[Len(moments)]

With(snap, label) == SelectSeq(snap.seen, LAMBDA o : label \in DOMAIN o)

\* snap.metadata: what was last seen under a label, in one of its fields.
Meta(snap, label, field) ==
    IF With(snap, label) = <<>> THEN None ELSE Last(With(snap, label))[label][field]

\* snap.values: the last value there was; one that is missing replaces none.
Value(snap, label) ==
    LET present == SelectSeq(With(snap, label), LAMBDA o : o[label].value # None)
    IN  IF present = <<>> THEN None ELSE Last(present)[label].value

Or0(v) == IF v = None THEN 0 ELSE v

Column(snaps, F(_)) == [i \in DOMAIN snaps |-> F(snaps[i])]

\* A feature of its own, under the key of a feature and what it is of.
Keyed(row) == [k \in (DOMAIN row) \X {0} |-> row[k[1]]]

-----------------------------------------------------------------------------
(* Market breadth (features/breadth.py).                                   *)
BreadthRanges ==
    [strength |-> <<-100, 100>>, participation |-> <<0, 100>>, trend |-> <<0, 100>>,
     divergence |-> <<-1000, 1000>>, health |-> <<0, 100>>]

Strength(snap) ==
    LET up == Value(snap, "advances")
        down == Value(snap, "declines")
    IN  IF AnyMissing({up, down}) THEN None ELSE Percent(up - down, up + down)

Participation(snap) ==
    LET up == Value(snap, "advances")
        down == Value(snap, "declines")
        unchanged == Value(snap, "unchanged")
    IN  IF AnyMissing({up, down, unchanged}) THEN None ELSE Percent(up, up + down + unchanged)

BreadthFeatures(snaps, i) ==
    LET snap == snaps[i]
        Line(s) == Meta(s, "ad_line_delta", "line")
        Highs(s) == Value(s, "new_highs_52w")
        Lows(s) == Value(s, "new_lows_52w")
    IN  Keyed([strength |-> Strength(snap), participation |-> Participation(snap),
               trend |-> Mean(Present(<<Value(snap, "above_ema20"), Value(snap, "above_ema50")>>)),
               divergence |-> Value(snap, "breadth_divergence"),
               health |-> Value(snap, "breadth_score")])
        @@ [f \in {"momentum", "ad_momentum", "high_momentum", "low_momentum"} \X Windows |->
            CASE f[1] = "momentum" -> SlopeOf(Column(snaps, Strength), i, f[2])
              [] f[1] = "ad_momentum" -> SlopeOf(Column(snaps, Line), i, f[2])
              [] f[1] = "high_momentum" -> SlopeOf(Column(snaps, Highs), i, f[2])
              [] f[1] = "low_momentum" -> SlopeOf(Column(snaps, Lows), i, f[2])]

-----------------------------------------------------------------------------
(* Sector rotation (features/sector.py).                                   *)
SectorRanges ==
    [strength |-> <<-2000, 2000>>, momentum |-> <<-2000, 2000>>, capital |-> <<-10000, 10000>>,
     heat |-> <<0, 100>>, leadership |-> <<-1600, 1600>>, rank |-> <<1, 100000>>,
     correlation |-> <<-100, 100>>]

MarketRanges == [rotation |-> <<0, 2000>>, participation |-> <<0, 100>>]

\* The sectors with a heat in any of the snapshots.
Sectors(snaps) ==
    {s \in Range(Labels) : \E j \in DOMAIN snaps : Value(snaps[j], s) # None}

Before(s, t) == IndexFirstSubSeq(<<s>>, Labels) < IndexFirstSubSeq(<<t>>, Labels)

Leadership(heats, s) ==
    LET all == DOMAIN heats
        n == Cardinality(all)
        total == MapThenSumSet(LAMBDA t : heats[t], all)
        squares == MapThenSumSet(LAMBDA t : heats[t] * heats[t], all)
    IN  IF n < 2 THEN None ELSE SignedSquare(Over(n * heats[s] - total, n * squares - total * total))

\* Fault: sectors of the same heat share a rank.
SharedRank(heats, s) == 1 + Cardinality({t \in DOMAIN heats : heats[t] > heats[s]})

Rank(heats, s) ==
    1 + Cardinality({t \in DOMAIN heats :
                       heats[t] > heats[s] \/ (heats[t] = heats[s] /\ t # s /\ Before(t, s))})

SectorFeatures(snaps, i) ==
    LET snap == snaps[i]
        sectors == Sectors(snaps)
        Strengths(s) == Present([k \in DOMAIN Labels |->
                            IF Labels[k] \in sectors THEN Meta(s, Labels[k], "strength") ELSE None])
        MeanStrength(s) == Mean(Strengths(s))
        heats == [s \in {t \in sectors : Value(snap, t) # None} |-> Value(snap, s)]
        Of(f, s) ==
            CASE f \in {"strength", "momentum", "capital"} -> Meta(snap, s, f)
              [] f = "heat" -> Value(snap, s)
              [] f = "leadership" -> IF s \in DOMAIN heats THEN Leadership(heats, s) ELSE None
              [] f = "rank" -> IF s \in DOMAIN heats /\ Cardinality(DOMAIN heats) > 1 THEN Rank(heats, s) ELSE None
              [] f = "correlation" ->
                   SignedSquare(Correlation(Column(snaps, LAMBDA x : Meta(x, s, "strength")),
                                            Column(snaps, MeanStrength), i, Max(Windows)))
    IN  [f \in (DOMAIN SectorRanges) \X sectors |-> Of(f[1], f[2])]
        @@ [f \in (DOMAIN MarketRanges) \X {"SECTORS"} |->
              IF f[1] = "rotation" THEN Meta(snap, "SECTORS", "intensity")
              ELSE Percent(Len(SelectSeq(Strengths(snap), LAMBDA v : v > 0)), Len(Strengths(snap)))]

-----------------------------------------------------------------------------
(* Event risk (features/events.py).                                        *)
EventRanges ==
    [hours |-> <<0, 100000>>, window |-> <<0, 1>>, volatility |-> <<100, 500>>, impact |-> <<0, 100>>,
     reduction |-> <<0, 100>>, freeze |-> <<0, 1>>, sensitivity |-> <<0, 100>>, similarity |-> <<0, 100>>]

Impact(level) == CASE level = "low" -> 0 [] level = "medium" -> 50 [] level = "high" -> 100 [] OTHER -> None

Events(snap) ==
    UNION {{snap.seen[j][l] : l \in DOMAIN snap.seen[j] \ {"summary"}} : j \in DOMAIN snap.seen}

Kinds(snap) ==
    IF With(snap, "summary") = <<>> THEN {} ELSE Last(With(snap, "summary")).summary.kinds

Similarity(kinds, past) ==
    IF kinds = {} THEN None
    ELSE Max({0} \cup {(100 * Cardinality(kinds \cap p)) \div Cardinality(kinds \cup p) : p \in past})

EventFeatures(snaps, i) ==
    LET upcoming == {e \in Events(snaps[i]) : e.hours >= 0}
        first == IF upcoming = {} THEN None ELSE Min({e.hours : e \in upcoming})
        nearest == CHOOSE e \in upcoming : e.hours = first
        inWindow == {e \in upcoming : e.pre}
        governing == IF inWindow # {} THEN inWindow ELSE IF upcoming = {} THEN {} ELSE {nearest}
        multipliers == {e.multiplier : e \in governing} \ {None}
        summaries == With(snaps[i], "summary")
        summary == Last(summaries).summary
        past == {Kinds(snaps[j]) : j \in Max({1, i - SimilarityLookback})..(i - 1)}
    IN  Keyed([hours |-> first,
         impact |-> IF upcoming = {} THEN None ELSE Impact(nearest.impact),
         window |-> IF Events(snaps[i]) = {} THEN None ELSE IF inWindow # {} THEN 1 ELSE 0,
         volatility |-> IF multipliers = {} THEN None ELSE Max(multipliers),
         reduction |-> IF summaries = <<>> THEN None ELSE summary.reduction,
         freeze |-> IF summaries = <<>> THEN None ELSE IF summary.freeze THEN 1 ELSE 0,
         sensitivity |-> IF summaries = <<>> THEN None
                         ELSE Min({100, 20 * summary.count + (4 * Or0(Impact(summary.impact))) \div 10
                                          + (4 * Or0(summary.reduction)) \div 10}),
         similarity |-> Similarity(Kinds(snaps[i]), past)])

-----------------------------------------------------------------------------
(* The option chain (features/options.py); an expected move is per 100     *)
(* times the root of 252 trading days.                                     *)
OptionsRanges ==
    [pcr |-> <<0, 500>>, oiChange |-> <<-50, 50>>, maxPainDistance |-> <<-20, 20>>, atmIv |-> <<0, 150>>,
     ivRank |-> <<0, 100>>, ivPercentile |-> <<0, 100>>, callWriting |-> <<0, 100>>,
     putWriting |-> <<0, 100>>, volumeRatio |-> <<0, 500>>, expectedMove |-> <<0, 1000000>>,
     dealers |-> <<-100, 100>>]

Interest(snap) ==
    LET calls == Meta(snap, "pcr", "calls")
        puts == Meta(snap, "pcr", "puts")
    IN  IF AnyMissing({calls, puts}) \/ calls + puts = 0 THEN None ELSE calls + puts

Spot(snap) ==
    IF Or0(Meta(snap, "max_pain", "spot")) # 0 THEN Meta(snap, "max_pain", "spot")
    ELSE Meta(snap, "oi_distribution", "spot")

AtmIv(snap) == Value(snap, "atm_iv")

IvRank(snaps, i) ==
    LET ivs == Trailing(Column(snaps, AtmIv), i, Window)
    IN  IF AtmIv(snaps[i]) = None \/ Len(ivs) < MinObs THEN None
        ELSE Percent(AtmIv(snaps[i]) - Min(Range(ivs)), Max(Range(ivs)) - Min(Range(ivs)))

OptionsFeatures(snaps, i) ==
    LET snap == snaps[i]
        calls == Value(snap, "call_writing")
        puts == Value(snap, "put_writing")
        before == IF i = 1 THEN None ELSE Interest(snaps[i - 1])
        rank == Percentile(Column(snaps, AtmIv), i, Window, MinObs)
        distance == Meta(snap, "max_pain", "distance")
    IN  Keyed([pcr |-> Value(snap, "pcr"), atmIv |-> AtmIv(snap),
               callWriting |-> calls, putWriting |-> puts,
               volumeRatio |-> Meta(snap, "volume_distribution", "pcr"),
               oiChange |-> IF AnyMissing({before, Interest(snap)}) THEN None
                            ELSE Percent(Interest(snap) - before, before),
               maxPainDistance |-> IF distance = None THEN None ELSE Percent(distance, Spot(snap)),
               expectedMove |-> IF AtmIv(snap) = None \/ Or0(Spot(snap)) = 0 THEN None
                                ELSE Spot(snap) * AtmIv(snap),
               dealers |-> IF AnyMissing({calls, puts}) THEN None ELSE Percent(puts - calls, puts + calls),
               ivRank |-> IvRank(snaps, i),
               ivPercentile |-> Percent(rank.part, rank.whole)])

-----------------------------------------------------------------------------
(* Institutional flow (features/institutional_flow.py).                    *)
FlowRanges ==
    [fii |-> <<-100, 100>>, dii |-> <<-100, 100>>, etf |-> <<-100, 100>>, deals |-> <<-100, 100>>,
     promoter |-> <<-100, 100>>, insider |-> <<-100, 100>>, sast |-> <<0, 100>>,
     participation |-> <<-100, 100>>, index |-> <<0, 100>>]

Passthrough ==
    [fii |-> "fii_flow", dii |-> "dii_flow", etf |-> "etf_flow", promoter |-> "promoter_net",
     insider |-> "insider_net", sast |-> "sast_filings", participation |-> "participation_index"]

FlowFeatures(snaps, i) ==
    LET score == Value(snaps[i], "participation_index")
    IN  Keyed([f \in DOMAIN Passthrough |-> Value(snaps[i], Passthrough[f])]
              @@ [deals |-> Meta(snaps[i], "participation_index", "deals"),
                  index |-> IF score = None THEN None ELSE 50 + score \div 2])
        @@ [f \in {"fii", "dii", "participation"} \X Windows |->
              SlopeOf(Column(snaps, LAMBDA s : Value(s, Passthrough[f[1]])), i, f[2])]

-----------------------------------------------------------------------------
(* Macro factors (features/macro.py).                                      *)
MacroRanges == [score |-> <<-100, 100>>, zscore |-> <<-400, 400>>]

Factors(snaps) == {f \in Range(Labels) : \E j \in DOMAIN snaps : Value(snaps[j], f) # None}

MacroFeatures(snaps, i) ==
    [f \in {"score", "level", "change", "zscore"} \X Factors(snaps) |->
        IF f[1] = "score" THEN Value(snaps[i], f[2]) ELSE Meta(snaps[i], f[2], f[1])]

-----------------------------------------------------------------------------
(* News flow (features/news.py), by the hour.                              *)
NewsRanges ==
    [sentiment |-> <<-100, 100>>, novelty |-> <<0, 100>>, urgency |-> <<0, 100>>, momentum |-> <<0, 2000>>,
     entities |-> <<0, 100000>>, similarity |-> <<0, 100>>, entropy |-> <<0, 100>>, impact |-> <<0, 100>>,
     sector |-> <<0, 100>>, stock |-> <<0, 100>>]

\* _mean_pairwise_similarity(): of the first MaxPairs pairs of titles.
TitleSimilarity(titles) ==
    LET told == SelectSeq(titles, LAMBDA t : t # {})
        pairs == SetToSortSeq({p \in (DOMAIN told) \X (DOMAIN told) : p[1] < p[2]},
                              LAMBDA p, q : p[1] < q[1] \/ (p[1] = q[1] /\ p[2] < q[2]))
        first == SubSeq(pairs, 1, Min({MaxPairs, Len(pairs)}))
    IN  Mean([k \in DOMAIN first |->
                (100 * Cardinality(told[first[k][1]] \cap told[first[k][2]]))
                  \div Cardinality(told[first[k][1]] \cup told[first[k][2]])])

\* _topic_entropy(): 0 for one topic, 100 where all have as many articles.
TopicEntropy(categories) ==
    LET named == SelectSeq(categories, LAMBDA c : c # "")
        topics == Range(named)
        Count(c) == Len(SelectSeq(named, LAMBDA x : x = c))
        n == Len(named)
        k == Cardinality(topics)
    IN  IF n = 0 THEN None ELSE IF k = 1 THEN 0
        ELSE (100 * k * (n * n - MapThenSumSet(LAMBDA c : Count(c) * Count(c), topics)))
               \div (n * n * (k - 1))

NewsFeatures(snaps, i) ==
    LET articles == [j \in DOMAIN snaps[i].seen |-> snaps[i].seen[j].article]
        counts == [j \in Max({1, i - TrailingHours + 1})..i |-> Len(snaps[j].seen)]
        flow == MapThenSumSet(LAMBDA j : counts[j], DOMAIN counts)
        momentum == Percent(Cardinality(DOMAIN counts) * counts[i], flow)
        MeanOf(field) == Mean(Present([j \in DOMAIN articles |-> articles[j][field]]))
        ShareOf(S) == IF articles = <<>> THEN None ELSE Percent(Cardinality(S), Len(articles))
        urgency == Mean(Present([j \in DOMAIN articles |-> Impact(articles[j].urgency)]))
        sentiment == Or0(MeanOf("sentiment"))
    IN  Keyed([momentum |-> momentum, sentiment |-> MeanOf("sentiment"), novelty |-> MeanOf("novelty"),
               urgency |-> urgency,
               entities |-> Mean([j \in DOMAIN articles |-> 100 * articles[j].entities]),
               similarity |-> TitleSimilarity([j \in DOMAIN articles |-> articles[j].title]),
               entropy |-> TopicEntropy([j \in DOMAIN articles |-> articles[j].category]),
               sector |-> ShareOf({j \in DOMAIN articles :
                                     articles[j].category \in {"sector", "corporate", "earnings"}}),
               stock |-> ShareOf({j \in DOMAIN articles : articles[j].entities > 0}),
               impact |-> IF articles = <<>> THEN None
                          ELSE Max({5, Min({95, (1000 + 30 * Or0(urgency) + 20 * Or0(MeanOf("novelty"))
                                                 + 25 * Max({sentiment, -sentiment})
                                                 + 15 * Min({momentum \div 3, 100})) \div 100})})])

-----------------------------------------------------------------------------
(* A run of the engine.                                                    *)
Features(snaps, i) ==
    CASE kind = "breadth" -> BreadthFeatures(snaps, i)
      [] kind = "sectors" -> SectorFeatures(snaps, i)
      [] kind = "events" -> EventFeatures(snaps, i)
      [] kind = "options" -> OptionsFeatures(snaps, i)
      [] kind = "flows" -> FlowFeatures(snaps, i)
      [] kind = "macro" -> MacroFeatures(snaps, i)
      [] kind = "news" -> NewsFeatures(snaps, i)

\* add_normalized_series()
Scores(series) == [i \in DOMAIN series |-> SignedSquare(ZScore(series, i))]

\* The series of each feature, and of its score.
Series(raw) ==
    LET Of(f) == [j \in DOMAIN raw |-> raw[j][f]]
    IN  [f \in (DOMAIN raw[1]) \X BOOLEAN |-> IF f[2] THEN Scores(Of(f[1])) ELSE Of(f[1])]

Table(Computes(_, _)) ==
    LET snaps == Snapshots(Loaded)
        raw[i \in 0..Len(snaps)] == IF i = 0 THEN <<>> ELSE Append(raw[i - 1], Computes(snaps, i))
    IN  Series(raw[Len(snaps)])

\* What is newer than the last value stored of the same feature.
Newer(f, at) == f \notin DOMAIN stored \/ \A b \in DOMAIN stored[f] : b < at

\* The store once the series of all but some symbols are processed.
Written(table, full, snaps, left) ==
    LET done == {f \in DOMAIN table : f[1][2] \notin left}
        New(f) == {i \in DOMAIN snaps : table[f][i] # None /\ (full \/ Newer(f, snaps[i].at))}
        Values(f) == [at \in {snaps[i].at : i \in New(f)} |->
                        [value |-> table[f][CHOOSE i \in New(f) : snaps[i].at = at], of |-> Len(rows)]]
    IN  [f \in DOMAIN stored \cup done |->
            (IF f \in done THEN Values(f) ELSE <<>>) @@ (IF f \in DOMAIN stored THEN stored[f] ELSE <<>>)]

\* With less than two snapshots nothing is computed.  Symbols are stored one after the
\* other: a failure keeps those before it.
Stores(table, full, order) ==
    LET snaps == Snapshots(Loaded)
    IN  /\ Len(snaps) >= 2
        /\ \E n \in DOMAIN order :
              stored' = Written(table, full, snaps, {order[k] : k \in (n + 1)..Len(order)})
        /\ UNCHANGED <<kind, rows>>

RunBreadth(full) == kind = "breadth" /\ Stores(Table(BreadthFeatures), full, <<"MARKET">>)

RunSectors(full) == kind = "sectors" /\ Stores(Table(SectorFeatures), full, Append(Labels, "SECTORS"))

RunEvents(full) == kind = "events" /\ Stores(Table(EventFeatures), full, <<"MARKET">>)

RunOptions(full) == kind = "options" /\ Stores(Table(OptionsFeatures), full, <<"MARKET">>)

RunFlows(full) == kind = "flows" /\ Stores(Table(FlowFeatures), full, <<"MARKET">>)

RunMacro(full) == kind = "macro" /\ Stores(Table(MacroFeatures), full, Labels)

RunNews(full) == kind = "news" /\ Stores(Table(NewsFeatures), full, <<"MARKET">>)

\* A collector stores what it observed; an article may be published late.
Observe ==
    /\ Len(rows) < MaxRows[kind]
    /\ \E seen \in Feeds[kind], at \in 0..(2 * MaxRows[kind]) :
          /\ kind = "news" \/ at = 0 \/ rows # <<>>
          /\ kind # "news" /\ rows # <<>> => at - Last(rows).at \in {1, 2}
          /\ kind = "news" => at < 3
          /\ rows' = Append(rows, [at |-> at, seen |-> seen])
    /\ UNCHANGED <<kind, stored>>

Next ==
    \/ Observe
    \/ \E full \in BOOLEAN :
          \/ RunBreadth(full) \/ RunSectors(full) \/ RunEvents(full) \/ RunOptions(full)
          \/ RunFlows(full) \/ RunMacro(full) \/ RunNews(full)

-----------------------------------------------------------------------------
Stands(snaps, table) ==
    \A f \in DOMAIN stored : \A at \in DOMAIN stored[f] :
        (\A k \in (stored[f][at].of + 1)..Len(rows) : Bucket(rows[k].at) > Bucket(at)) =>
            \E i \in DOMAIN snaps : snaps[i].at = at /\ table[f][i] = stored[f][at].value

(* A stored value is what the feature of its snapshot still reads as, if   *)
(* no row has come since for its moment or before, and none has gone from  *)
(* the lookback: later runs never reach back into it.                      *)
StoredStands ==
    Len(rows) <= Lookback /\ stored # <<>> => Stands(Snapshots(Loaded), Table(Features))

Ranges ==
    CASE kind = "breadth" -> BreadthRanges
      [] kind = "sectors" -> SectorRanges @@ [rotation |-> MarketRanges.rotation,
                                              participation |-> MarketRanges.participation]
      [] kind = "events" -> EventRanges
      [] kind = "options" -> OptionsRanges
      [] kind = "flows" -> FlowRanges
      [] kind = "macro" -> MacroRanges
      [] kind = "news" -> NewsRanges

\* Quotients that may be any number: their registered ranges are guesses.
Unbounded == {"oiChange", "maxPainDistance"}

Ranged(f) == f[1] \in (DOMAIN Ranges) \ Unbounded /\ (kind \in {"sectors", "macro"} \/ f[2] = 0)

InRange(f, vs) ==
    vs # <<>> =>
        /\ Ranged(f) => Quality(Ranges[f[1]], vs) = 100
        /\ kind = "breadth" /\ f[1] = "momentum" /\ f[2] > 2 =>
             Quality(<<-100 * SlopeScale(f[2]), 100 * SlopeScale(f[2])>>, vs) = 100

AllInRange(table) == \A f \in {g[1] : g \in DOMAIN table} : InRange(f, Present(table[<<f, FALSE>>]))

(* A computed feature is within the range its engine registers for it, and *)
(* a slope of a share within what a share can rise in the window.          *)
FeaturesInRange == Snapshots(Loaded) # <<>> => AllInRange(Table(Features))

\* The same market the other way round.
Swap(l) ==
    CASE l = "advances" -> "declines" [] l = "declines" -> "advances"
      [] l = "new_highs_52w" -> "new_lows_52w" [] l = "new_lows_52w" -> "new_highs_52w"
      [] l = "call_writing" -> "put_writing" [] l = "put_writing" -> "call_writing"
      [] OTHER -> l

Negated == {"value", "strength", "momentum", "capital", "line", "sentiment"}

Signed == IF kind \in {"sectors", "flows", "news"} THEN Negated ELSE {"line"}

Turned(snap) ==
    [snap EXCEPT !.seen = [j \in DOMAIN @ |->
        [l \in {Swap(m) : m \in DOMAIN @[j]} |->
            [x \in DOMAIN @[j][Swap(l)] |->
                IF x \in Signed /\ @[j][Swap(l)][x] # None THEN -@[j][Swap(l)][x] ELSE @[j][Swap(l)][x]]]]]

Turns(v, w) == (v = None /\ w = None) \/ (v # None /\ w = -v)

Mirrored(up, down) ==
    LET Of(f) == {x \in DOMAIN up : x[1] = f}
        heats == {x \in Of("heat") : up[x] # None}
    IN  /\ DOMAIN up = DOMAIN down
        /\ kind = "breadth" =>
             /\ \A f \in {"strength", "momentum", "ad_momentum"} : \A x \in Of(f) : Turns(up[x], down[x])
             /\ \A w \in Windows : up[<<"high_momentum", w>>] = down[<<"low_momentum", w>>]
             /\ up[<<"trend", 0>>] = down[<<"trend", 0>>]
        /\ kind = "sectors" =>
             /\ \A x \in Of("leadership") : Turns(up[x], down[x])
             /\ \A x \in Of("correlation") : up[x] = down[x]
             /\ {up[x] : x \in Of("rank")} \ {None} = IF Cardinality(heats) < 2 THEN {} ELSE 1..Cardinality(heats)
             /\ Cardinality({up[x] : x \in heats}) = Cardinality(heats) /\ Cardinality(heats) > 1 =>
                  \A x \in Of("rank") : up[x] # None => up[x] + down[x] = Cardinality(heats) + 1
        /\ kind = "flows" =>
             /\ \A f \in {"fii", "dii"} : \A x \in Of(f) : Turns(up[x], down[x])
             /\ up[<<"index", 0>>] # None => up[<<"index", 0>>] + down[<<"index", 0>>] = 100
        /\ kind = "options" =>
             /\ Turns(up[<<"dealers", 0>>], down[<<"dealers", 0>>])
             /\ up[<<"ivRank", 0>>] = down[<<"ivRank", 0>>]
        /\ kind = "news" =>
             /\ Turns(up[<<"sentiment", 0>>], down[<<"sentiment", 0>>])
             /\ up[<<"impact", 0>>] = down[<<"impact", 0>>]

(* In a market the other way round strength, leadership and slopes turn,   *)
(* highs and lows change places, ranks run backwards unless sectors are    *)
(* level, and what has no direction is the same.                           *)
FeaturesMirrored ==
    LET snaps == Snapshots(Loaded)
        other == [i \in DOMAIN snaps |-> Turned(snaps[i])]
    IN  \A i \in DOMAIN snaps : Mirrored(Features(snaps, i), Features(other, i))
=============================================================================
