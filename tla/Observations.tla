---------------------------- MODULE Observations ----------------------------
(***************************************************************************)
(* What the collectors of the domains make of one snapshot of their source *)
(* (collectors/domains/): an option chain, the institutional flows, the    *)
(* event calendar, the quotes of a universe, the sectors, the macro        *)
(* factors, a news article.                                                *)
(*                                                                         *)
(* Values and confidences are in percent, a direction is -1, 0 or 1, and   *)
(* None stands for a field that is not there.  No observation at all       *)
(* stands for a collect() that raises CollectionError: none returns an     *)
(* empty list.                                                             *)
(***************************************************************************)
EXTENDS Sequences, SequencesExt, Weighing

CONSTANTS Snapshots,
          Sectors,           \* NSE_SECTORS, in its order
          MinIvObservations  \* of the history a percentile is taken in, 100 in the code

VARIABLE snapshot  \* the set of the one snapshot considered, empty before

Init == snapshot = {}

Next == snapshot = {} /\ \E s \in Snapshots : snapshot' = {s}

-----------------------------------------------------------------------------
Observation(of, value, direction) == [of |-> of, value |-> value, direction |-> direction]

Beyond(value, threshold) ==
    IF value > threshold THEN 1 ELSE IF value < -threshold THEN -1 ELSE 0

TotalOf(f, part) == MapThenSumSet(LAMBDA x : f[x], part)

\* Mean of the values that are there, None where none is.
KnownMean(pairs) == Mean(Plain({p \in pairs : p[2] # None}), None)

Share(x, y) == Over(100 * x, y)

-----------------------------------------------------------------------------
(* An option chain: spot, the spot before, and the legs of each strike,    *)
(* with open interest, its change, volume, implied volatility and greeks.  *)
Strikes(c) == DOMAIN c.call

Interest(legs) == [k \in DOMAIN legs |-> legs[k].oi]

Added(legs) == [k \in DOMAIN legs |-> Max({legs[k].change, 0})]

BothSides(c, field) == [k \in Strikes(c) |-> c.call[k][field] + c.put[k][field]]

All(f) == TotalOf(f, DOMAIN f)

Below(c) == {k \in Strikes(c) : k < c.spot}
Above(c) == {k \in Strikes(c) : k > c.spot}

\* Puts open below the spot support it, calls open above resist it.
Distribution(c) ==
    LET support == TotalOf(Interest(c.put), Below(c))
        resistance == TotalOf(Interest(c.call), Above(c))
        total == support + resistance
    IN  IF total <= 0 THEN {}
        ELSE {Observation("oi_distribution", Share(support - resistance, total),
                          Beyond(10 * (support - resistance), total))}

\* Share of the three largest strikes.
Concentration(of, sizes) ==
    LET top == {part \in SUBSET DOMAIN sizes : Cardinality(part) <= 3}
    IN  IF All(sizes) <= 0 THEN {}
        ELSE {Observation(of, Share(Max({TotalOf(sizes, part) : part \in top}), All(sizes)), 0)}

\* The put/call ratio is read as the writers read it: many puts, a bullish market.
PutCallRatio(c) ==
    LET calls == All(Interest(c.call))
        puts == All(Interest(c.put))
    IN  IF calls <= 0 THEN {}
        ELSE {Observation("pcr", Share(puts, calls),
                          IF 10 * puts > 12 * calls THEN 1 ELSE IF 10 * puts < 8 * calls THEN -1 ELSE 0)}

\* What the writers pay out if the market expires at a strike.
Pain(c, expiry) ==
    MapThenSumSet(LAMBDA k : c.call[k].oi * Max({expiry - k, 0}) + c.put[k].oi * Max({k - expiry, 0}),
                  Strikes(c))

\* Fault: of the strikes with the least pain, the one above all others.
HighestMaxPain(c) == Max({k \in Strikes(c) : \A other \in Strikes(c) : Pain(c, k) <= Pain(c, other)})

MaxPain(c) == Min({k \in Strikes(c) : \A other \in Strikes(c) : Pain(c, k) <= Pain(c, other)})

MaxPainPull(c) == {Observation("max_pain", MaxPain(c), Sign(MaxPain(c) - c.spot))}

AtTheMoney(c) ==
    Min({k \in Strikes(c) : \A other \in Strikes(c) : Abs(k - c.spot) <= Abs(other - c.spot)})

AtBoth(c, field) == {<<"call", c.call[AtTheMoney(c)][field]>>, <<"put", c.put[AtTheMoney(c)][field]>>}

AtmIv(c) == KnownMean(AtBoth(c, "iv"))

Optional(of, value) == IF value = None THEN {} ELSE {Observation(of, value, 0)}

\* Against the history of the feature itself, once there is enough of it.
IvPercentile(c) ==
    IF AtmIv(c) = None \/ Len(c.history) < MinIvObservations THEN {}
    ELSE {Observation("iv_percentile",
                      Share(Cardinality({k \in DOMAIN c.history : c.history[k] < AtmIv(c)}),
                            Len(c.history)), 0)}

\* Dearer puts below than calls above are fear.
IvSkew(c) ==
    LET puts == KnownMean({<<k, c.put[k].iv>> : k \in Below(c)})
        calls == KnownMean({<<k, c.call[k].iv>> : k \in Above(c)})
    IN  IF puts = None \/ calls = None THEN {}
        ELSE {Observation("iv_skew", puts - calls, Sign(calls - puts))}

\* Open interest that did not grow counts as closed.
Buildup(c) ==
    LET move == Sign(c.spot - c.previous)
        opening == All(BothSides(c, "change")) > 0
    IN  IF c.previous = None \/ move = 0 THEN {}
        ELSE {Observation("buildup", IF opening THEN 100 * move ELSE 50 * move, move)}

Written(of, legs, side) ==
    LET open == All(Interest(legs))
        added == All(Added(legs))
    IN  IF open <= 0 THEN {}
        ELSE {Observation(of, Share(added, open), IF added > 0 THEN side ELSE 0)}

\* Strikes with both greeks only: dealers are short the puts' gamma.
Exposure(c) ==
    LET known(field) == {k \in Strikes(c) : c.call[k][field] # None /\ c.put[k][field] # None}
        held(legs, field) == [k \in known(field) |-> legs[k][field] * legs[k].oi]
        gamma == All(held(c.call, "gamma")) - All(held(c.put, "gamma"))
        delta == All(held(c.call, "delta")) + All(held(c.put, "delta"))
    IN  (IF known("gamma") = {} THEN {} ELSE {Observation("gamma_exposure", gamma, 0)})
          \cup (IF known("delta") = {} THEN {} ELSE {Observation("delta_exposure", delta, Sign(delta))})

\* Decay of the premium in percent; gamma and vega of both legs together.
AtmRisk(c) ==
    LET theta == KnownMean(AtBoth(c, "theta"))
        premium == KnownMean(AtBoth(c, "ltp"))
        both(field) == LET known == {p \in AtBoth(c, field) : p[2] # None}
                       IN  IF known = {} THEN None ELSE MapThenSumSet(LAMBDA p : p[2], known)
    IN  (IF theta = None \/ premium <= 0 THEN {}
         ELSE {Observation("atm_theta_pct", Share(Abs(theta), premium), 0)})
          \cup Optional("atm_gamma", both("gamma")) \cup Optional("atm_vega", both("vega"))

Chain(c) ==
    IF c.spot = None \/ Strikes(c) = {} THEN {}
    ELSE UNION {PutCallRatio(c), MaxPainPull(c), Optional("atm_iv", AtmIv(c)), IvSkew(c),
                Concentration("oi_concentration", BothSides(c, "oi")), Distribution(c),
                Concentration("volume_distribution", BothSides(c, "volume")), Buildup(c),
                Written("call_writing", c.call, -1), Written("put_writing", c.put, 1),
                Exposure(c), AtmRisk(c), IvPercentile(c)}

-----------------------------------------------------------------------------
(* Institutional flows, in crore.                                          *)
ParticipationWeights ==
    [fii |-> 30, dii |-> 20, etf |-> 10, deals |-> 15, promoters |-> 15, insiders |-> 10]

FlowScore(today, average) == Bounded(Share(today, Max({Abs(average), 1})), -100, 100)

NetOverGross(net, gross) == IF gross > 0 THEN Bounded(Share(net, gross), -100, 100) ELSE 0

\* Whatever is not a buy is a sale.
Signed(deal) == IF deal.side = "buy" THEN Abs(deal.value) ELSE -Abs(deal.value)

NetDeals(v) == MapThenSumSet(LAMBDA k : Signed(v.deals[k]), DOMAIN v.deals)
GrossDeals(v) == MapThenSumSet(LAMBDA k : Abs(v.deals[k].value), DOMAIN v.deals)

FlowScores(v) ==
    [fii |-> FlowScore(v.fii, v.fiiAverage),
     dii |-> FlowScore(v.dii, v.diiAverage),
     etf |-> IF v.etf = None THEN None ELSE FlowScore(v.etf, v.fiiAverage),
     deals |-> NetOverGross(NetDeals(v), GrossDeals(v)),
     promoters |-> NetOverGross(v.bought - v.sold, v.bought + v.sold),
     insiders |-> Bounded(v.insiders, -100, 100)]

\* The weighted mean of the scores there are; the index is 50 and half of it.
Participation(scores) ==
    Mean({Part(x, ParticipationWeights[x], scores[x]) : x \in {y \in DOMAIN scores : scores[y] # None}}, 0)

Deal(deal) ==
    Observation("deal", Bounded(Over(Signed(deal), 5), -100, 100), Sign(Signed(deal)))

Flows(v) ==
    LET scores == FlowScores(v)
        single == {x \in DOMAIN scores \ {"deals"} : scores[x] # None}
    IN  IF None \in {v.fii, v.dii, v.fiiAverage, v.diiAverage} THEN {}
        ELSE {Observation(x, scores[x], Sign(scores[x])) : x \in single}
               \cup {Deal(v.deals[k]) : k \in DOMAIN v.deals}
               \cup {Observation("sast", Bounded(10 * v.filings, 0, 100), 0),
                     Observation("participation", Participation(scores), Sign(Participation(scores)))}

-----------------------------------------------------------------------------
(* The event calendar: the events it holds, in hours from now.             *)
Profile(impact, before, after, reduction, freezes) ==
    [impact |-> impact, before |-> before, after |-> after, reduction |-> reduction,
     freezes |-> freezes]

\* Impacts by rank, low 0 to critical 3.
EventProfiles ==
    [RBI |-> Profile(3, 24, 6, 50, TRUE), FED |-> Profile(3, 24, 6, 50, TRUE),
     ECB |-> Profile(2, 12, 4, 30, FALSE), BOJ |-> Profile(2, 12, 4, 30, FALSE),
     US_CPI |-> Profile(2, 6, 2, 35, FALSE), INDIA_CPI |-> Profile(2, 6, 2, 30, FALSE),
     GDP |-> Profile(1, 4, 2, 20, FALSE), PMI |-> Profile(1, 2, 1, 15, FALSE),
     BUDGET |-> Profile(3, 48, 24, 60, TRUE), ELECTION |-> Profile(3, 72, 48, 60, TRUE),
     MSCI_REBALANCE |-> Profile(2, 24, 4, 25, FALSE), FTSE_REBALANCE |-> Profile(2, 24, 4, 25, FALSE),
     FNO_EXPIRY |-> Profile(2, 6, 2, 20, FALSE), IPO |-> Profile(0, 2, 2, 5, FALSE),
     RESULTS |-> Profile(2, 12, 4, 30, FALSE), DIVIDEND |-> Profile(0, 1, 1, 5, FALSE),
     BONUS |-> Profile(0, 2, 1, 5, FALSE), SPLIT |-> Profile(0, 2, 1, 5, FALSE)]

ProfileOf(kind) ==
    IF kind \in DOMAIN EventProfiles THEN EventProfiles[kind] ELSE Profile(1, 4, 2, 20, FALSE)

Imminent(e) == 0 <= e.at /\ e.at <= ProfileOf(e.kind).before

Active(e) == -ProfileOf(e.kind).after <= e.at /\ e.at <= ProfileOf(e.kind).before

Upcoming(e) == 0 <= e.at /\ e.at <= 7 * 24

EventRecord(e) ==
    [of |-> "event", name |-> e.name, hours |-> e.at, imminent |-> Imminent(e),
     confidence |-> IF Imminent(e) THEN 100 - ProfileOf(e.kind).reduction ELSE 90]

\* Fault: the summary is of the events that have records.
SummaryOfUpcoming(events) ==
    LET active == {k \in DOMAIN events : Imminent(events[k])}
        profile(k) == ProfileOf(events[k].kind)
    IN  [of |-> "summary", active |-> Cardinality(active),
         impact |-> IF active = {} THEN None ELSE Max({profile(k).impact : k \in active}),
         freezes |-> \E k \in active : profile(k).freezes,
         confidence |-> 100 - Min({100, MapThenSumSet(LAMBDA k : profile(k).reduction, active)})]

Summary(events) ==
    LET active == {k \in DOMAIN events : Active(events[k])}
        profile(k) == ProfileOf(events[k].kind)
    IN  [of |-> "summary", active |-> Cardinality(active),
         impact |-> IF active = {} THEN None ELSE Max({profile(k).impact : k \in active}),
         freezes |-> \E k \in active : profile(k).freezes,
         confidence |-> 100 - Min({100, MapThenSumSet(LAMBDA k : profile(k).reduction, active)})]

\* One malformed event fails the calendar.
Calendar(v) ==
    IF \E k \in DOMAIN v.events : v.events[k].at = None THEN {}
    ELSE {EventRecord(v.events[k]) : k \in {j \in DOMAIN v.events : Upcoming(v.events[j])}}
           \cup {Summary(v.events)}

-----------------------------------------------------------------------------
(* The breadth of a universe: a row of quotes for each of its stocks.      *)
Emas == {"ema20", "ema50", "ema100", "ema200"}

RowsWhere(v, Test(_)) == Cardinality({k \in DOMAIN v.rows : Test(v.rows[k])})

Advances(v) == RowsWhere(v, LAMBDA r : r.last > r.previous)
Declines(v) == RowsWhere(v, LAMBDA r : r.last < r.previous)
NewHighs(v) == RowsWhere(v, LAMBDA r : r.last >= r.high)
NewLows(v) == RowsWhere(v, LAMBDA r : r.last <= r.low)

\* Stocks above an average less those that are not, in percent of all.
AboveEma(v, ema) == Share(2 * RowsWhere(v, LAMBDA r : r.last > r.ema[ema]) - Len(v.rows), Len(v.rows))

\* Return of the universe, each stock with its weight.
ReturnWith(v, Weight(_)) ==
    Mean({Part(k, Weight(v.rows[k]), Share(v.rows[k].last - v.rows[k].previous, v.rows[k].previous)) :
              k \in {j \in DOMAIN v.rows : v.rows[j].previous # 0}}, 0)

\* The four components, from -100 to 100; a stock unchanged has not advanced.
BreadthSignals(v) ==
    [advancers |-> Share(2 * Advances(v) - Len(v.rows), Len(v.rows)),
     ema |-> Mean({Part(e, 1, AboveEma(v, e)) : e \in Emas}, 0),
     highs |-> Share(NewHighs(v) - NewLows(v), Max({NewHighs(v) + NewLows(v), 1})),
     momentum |-> Share(Advances(v) - Declines(v), Len(v.rows))]

\* The score is 50 and half of this.
BreadthLevel(v) == Over(All(BreadthSignals(v)), 4)

\* How far the components agree.
BreadthConfidence(v) ==
    LET strength == All([x \in DOMAIN BreadthSignals(v) |-> Abs(BreadthSignals(v)[x])])
    IN  IF strength = 0 THEN 50 ELSE Share(Abs(All(BreadthSignals(v))), strength)

\* The ratio of no declines is the number of advances.
Breadth(v) ==
    LET up == Advances(v)
        down == Declines(v)
        equal == ReturnWith(v, LAMBDA r : 1)
        capped == ReturnWith(v, LAMBDA r : r.cap)
        signed(of, value) == Observation(of, value, Sign(value))
    IN  IF v.rows = <<>> THEN {}
        ELSE {Observation("unchanged", Len(v.rows) - up - down, 0),
              Observation("ad_ratio", Share(up, Max({down, 1})), Sign(up - Max({down, 1}))),
              Observation("highs", NewHighs(v), 0), Observation("lows", NewLows(v), 0),
              signed("delta", up - down), signed("equal_weight", equal), signed("cap_weight", capped),
              signed("divergence", equal - capped), signed("momentum", Share(up - down, Len(v.rows))),
              Observation("score", BreadthLevel(v),
                          IF BreadthLevel(v) >= 20 THEN 1 ELSE IF BreadthLevel(v) <= -20 THEN -1 ELSE 0),
              Observation("confidence", BreadthConfidence(v), 0)}
                \cup {signed(e, AboveEma(v, e)) : e \in Emas}

-----------------------------------------------------------------------------
(* The sectors against their benchmark, returns in hundredths of a point.  *)
RelativeStrength(s, b) ==
    Over(50 * (s.day - b.day) + 30 * (s.week - b.week) + 20 * (s.month - b.month), 100)

\* Fault: the momentum of the sector alone.
OwnMomentum(s, b) == s.day - s.month

RelativeMomentum(s, b) == (s.day - b.day) - (s.month - b.month)

RelativeVolume(s, b) == (100 * s.volume) \div b.volume

\* tanh() saturates; here at 100 and in a straight line up to there.
RotationScore(s, b) ==
    Clamp(50 + Over(45 * RelativeStrength(s, b) + 35 * RelativeMomentum(s, b)
                      + 100 * (RelativeVolume(s, b) - 100), 1000))

\* The first of the sectors with the highest score.
Leader(heat) == SelectInSeq(heat, LAMBDA x : \A k \in DOMAIN heat : heat[k] <= x)
Laggard(heat) == SelectInSeq(heat, LAMBDA x : \A k \in DOMAIN heat : heat[k] >= x)

\* Every sector has to be there, and the benchmark has to have traded.
Rotation(v) ==
    LET heat == [k \in DOMAIN Sectors |-> RotationScore(v.sectors[Sectors[k]], v.benchmark)]
        momentum == [k \in DOMAIN Sectors |-> RelativeMomentum(v.sectors[Sectors[k]], v.benchmark)]
    IN  IF v.benchmark.volume <= 0 \/ ~ToSet(Sectors) \subseteq DOMAIN v.sectors THEN {}
        ELSE {Observation(Sectors[k], heat[k], Beyond(momentum[k], 5)) : k \in DOMAIN Sectors}
               \cup {Observation("SECTORS", heat[Leader(heat)], Beyond(momentum[Leader(heat)], 5)),
                     Observation("leader", Leader(heat), 0), Observation("laggard", Laggard(heat), 0)}

-----------------------------------------------------------------------------
(* Macro factors, by z-score or else by the day's change, in percent.      *)
FactorWeights ==
    [USDINR |-> 15, DXY |-> 10, US10Y |-> 10, INDIA10Y |-> 10, CRUDE |-> 15, GOLD |-> 5, SILVER |-> 3,
     NATGAS |-> 4, SPX |-> 8, NDX |-> 5, NIKKEI |-> 4, HANGSENG |-> 4, DAX |-> 4, CRYPTO_MCAP |-> 3]

\* Shares and crypto up is good for Indian shares, everything else up is not.
FactorSign(factor) ==
    IF factor \in {"SPX", "NDX", "NIKKEI", "HANGSENG", "DAX", "CRYPTO_MCAP"} THEN 1 ELSE -1

FactorScore(factor, reading) ==
    LET magnitude == IF reading.zscore # None THEN reading.zscore ELSE reading.change
    IN  IF magnitude = None THEN None
        ELSE FactorSign(factor) * Over(Bounded(magnitude, -300, 300), 3)

MacroScores(v) ==
    {Part(f, FactorWeights[f], FactorScore(f, v.factors[f])) :
         f \in {g \in DOMAIN v.factors \cap DOMAIN FactorWeights : FactorScore(g, v.factors[g]) # None}}

Macro(v) ==
    LET parts == MacroScores(v)
        pressure == Mean(parts, 0)
    IN  IF parts = {} THEN {}
        ELSE {Observation(p.of, p.score, Beyond(p.score, 5)) : p \in parts}
               \cup {Observation("pressure", pressure, Beyond(pressure, 5)),
                     Observation("coverage", 50 + (40 * TotalWeight(parts)) \div 100, 0)}

-----------------------------------------------------------------------------
(* A news article: its words, the minutes since it was published, and its  *)
(* source.  A text is cut into words at everything that is not a letter or *)
(* a digit, hyphens included; the terms of a lexicon are looked up in it   *)
(* as they are spelled.                                                    *)
PositiveTerms ==
    {Part(<<"surge">>, 100, 1), Part(<<"rate", "cut">>, 100, 1), Part(<<"record", "profit">>, 150, 1),
     Part(<<"ceasefire", "deal">>, 120, 1), Part(<<"de-escalation">>, 100, 1)}

NegativeTerms ==
    {Part(<<"recession">>, 120, -1), Part(<<"escalation">>, 90, -1), Part(<<"war">>, 130, -1),
     Part(<<"trade", "war">>, 110, -1), Part(<<"ceasefire", "collapse">>, 140, -1)}

Tokens(spelled) ==
    FlattenSeq([k \in DOMAIN spelled |->
                    IF spelled[k] = "de-escalation" THEN <<"de", "escalation">> ELSE <<spelled[k]>>])

Mentions(text, phrase) ==
    \E k \in 1..(Len(text) - Len(phrase) + 1) : SubSeq(text, k, k + Len(phrase) - 1) = phrase

\* Weights of the terms for less those against, of all that occur (at most once each).
Sentiment(text) == Mean({Part(t.of, t.weight, 100 * t.score) :
                             t \in {u \in PositiveTerms \cup NegativeTerms : Mentions(text, u.of)}}, 0)

\* A word or two of each of the lists an article is matched with.
Vocabulary ==
    [stock |-> {<<"reliance">>}, promoter |-> {<<"ambani">>}, sector |-> {<<"banking">>},
     country |-> {<<"china">>, <<"hong", "kong">>}, leader |-> {<<"powell">>},
     policymaker |-> {<<"modi">>}, institution |-> {<<"opec">>}, policy |-> {<<"tariff">>},
     macro |-> {<<"recession">>, <<"rate", "cut">>}, global |-> {<<"war">>, <<"china">>, <<"opec">>},
     corporate |-> {<<"buyback">>}]

Matches(text, list) == \E phrase \in Vocabulary[list] : Mentions(text, phrase)

FirstMatch(text, lists) == SelectInSeq(lists, LAMBDA list : Matches(text, list))

\* Fault: the lists of entities as they come, stocks not before all others.
EntityListsByName == <<"sector", "stock", "promoter", "country", "leader", "policymaker", "institution">>

EntityLists == <<"stock", "promoter", "sector", "country", "leader", "policymaker", "institution">>

\* What the article is filed under: its first entity; a promoter stands for the stock.
InstrumentOf(text) ==
    LET first == FirstMatch(text, EntityLists)
    IN  IF first = 0 THEN "market" ELSE IF EntityLists[first] = "promoter" THEN "stock"
        ELSE EntityLists[first]

\* classify(): the entities first, then the keywords, macro otherwise.
CategoryLists ==
    <<"stock", "promoter", "sector", "country", "leader", "institution", "policymaker", "policy",
      "macro", "global", "corporate">>

Categories ==
    <<"stock", "stock", "sector", "global", "global", "global", "policy", "policy", "macro", "global",
      "corporate">>

CategoryOf(text) ==
    IF FirstMatch(text, CategoryLists) = 0 THEN "macro" ELSE Categories[FirstMatch(text, CategoryLists)]

\* By age; an article without a date is old.
Urgency(age) == IF age = None THEN 30 ELSE IF age < 30 THEN 100 ELSE IF age < 120 THEN 60 ELSE 30

SourceTrust == [reuters |-> 95, moneycontrol |-> 85, cnbc |-> 75]

Trust(source) == IF source \in DOMAIN SourceTrust THEN SourceTrust[source] ELSE 60

Article(v) ==
    LET text == Tokens(v.words)
        sentiment == Sentiment(text)
    IN  [of |-> "article", value |-> (Abs(sentiment) * Urgency(v.age) * Trust(v.source)) \div 10000,
         direction |-> Sign(sentiment), confidence |-> Trust(v.source),
         instrument |-> InstrumentOf(text), category |-> CategoryOf(text)]

-----------------------------------------------------------------------------
OfKind(kind) == {v \in snapshot : v.kind = kind}

\* The market with up and down exchanged.
MirroredChain(c) ==
    LET mirrored == {2 * c.spot - k : k \in Strikes(c)}
        leg(side, k) == [side[2 * c.spot - k] EXCEPT !.delta = IF @ = None THEN None ELSE -@]
    IN  [c EXCEPT !.previous = IF @ = None THEN None ELSE 2 * c.spot - @,
                  !.call = [k \in mirrored |-> leg(c.put, k)],
                  !.put = [k \in mirrored |-> leg(c.call, k)]]

Nearest(c) ==
    {k \in Strikes(c) : \A other \in Strikes(c) : Abs(k - c.spot) <= Abs(other - c.spot)}

LeastPain(c) == {k \in Strikes(c) : \A other \in Strikes(c) : Pain(c, k) <= Pain(c, other)}

MirroredReading(o, c) ==
    [of |-> CASE o.of = "call_writing" -> "put_writing" [] o.of = "put_writing" -> "call_writing"
              [] OTHER -> o.of,
     value |-> IF o.of \in {"oi_distribution", "iv_skew", "buildup", "gamma_exposure", "delta_exposure"}
               THEN -o.value ELSE IF o.of = "max_pain" THEN 2 * c.spot - o.value ELSE o.value,
     direction |-> -o.direction]

\* What a chain says regardless of which way is up; a tie goes to the lower strike.
EvenHanded(c) ==
    {o \in Chain(c) :
        /\ o.of # "pcr"
        /\ o.of = "max_pain" => Cardinality(LeastPain(c)) = 1
        /\ o.of \in {"atm_iv", "iv_percentile", "atm_theta_pct", "atm_gamma", "atm_vega"} =>
               Cardinality(Nearest(c)) = 1}

(* A chain seen in a mirror is read the other way round: no feature of it  *)
(* but the put/call ratio leans to one side (domains/options.py).          *)
ChainsMirrored ==
    \A c \in OfKind("chain") : \A o \in EvenHanded(c) :
        MirroredReading(o, c) \in Chain(MirroredChain(c))

MirroredRow(r) ==
    [r EXCEPT !.last = 2 * r.previous - @, !.high = 2 * r.previous - r.low,
              !.low = 2 * r.previous - r.high, !.ema = [e \in Emas |-> 2 * r.previous - r.ema[e]]]

(* So is a universe of stocks none of which stands still (breadth.py).     *)
BreadthMirrored ==
    \A v \in {u \in OfKind("breadth") : u.rows # <<>>} :
        LET mirror == [v EXCEPT !.rows = [k \in DOMAIN @ |-> MirroredRow(@[k])]]
            moves == \A k \in DOMAIN v.rows : v.rows[k].previous \notin
                         {v.rows[k].last} \cup {v.rows[k].ema[e] + v.rows[k].previous - v.rows[k].last : e \in Emas}
        IN  moves => /\ BreadthLevel(mirror) = -BreadthLevel(v)
                     /\ BreadthConfidence(mirror) = BreadthConfidence(v)
                     /\ NewHighs(mirror) = NewLows(v)

(* And the flows and the factors (flows.py, macro.py).                     *)
ScoresMirrored ==
    /\ \A v \in OfKind("flows") :
          LET mirror == [v EXCEPT !.fii = -@, !.dii = -@, !.insiders = -@, !.bought = v.sold, !.sold = v.bought,
                                  !.etf = IF @ = None THEN None ELSE -@,
                                  !.deals = [k \in DOMAIN @ |->
                                      [@[k] EXCEPT !.side = IF @ = "buy" THEN "sell" ELSE "buy"]]]
          IN  v.fii # None => Participation(FlowScores(mirror)) = -Participation(FlowScores(v))
    /\ \A v \in OfKind("macro") :
          LET turned(x) == IF x = None THEN None ELSE -x
              mirror == [v EXCEPT !.factors = [f \in DOMAIN @ |->
                            [zscore |-> turned(@[f].zscore), change |-> turned(@[f].change)]]]
          IN  {p.of : p \in MacroScores(mirror)} = {p.of : p \in MacroScores(v)}
                /\ Mean(MacroScores(mirror), 0) = -Mean(MacroScores(v), 0)

(* Sectors are seen against their benchmark: a move of the whole market    *)
(* shows in none.  A market in a mirror turns every sector round, and the  *)
(* scores too, and with them leader and laggard, where all sectors trade   *)
(* as much as the benchmark does (sector.py:179).                          *)
SectorsRelative ==
    \A v \in {u \in OfKind("sectors") : Rotation(u) # {}} :
        LET seen(Through(_)) == Rotation([v EXCEPT !.benchmark = Through(@),
                                                  !.sectors = [x \in DOMAIN @ |-> Through(@[x])]])
            lifted(r) == [r EXCEPT !.day = @ + 70, !.week = @ + 40, !.month = @ - 30]
            mirrored(r) == [r EXCEPT !.day = -@, !.week = -@, !.month = -@]
            the(of, records) == CHOOSE o \in records : o.of = of
            evenVolumes == \A x \in DOMAIN v.sectors : v.sectors[x].volume = v.benchmark.volume
            heat(records) == [x \in ToSet(Sectors) |-> the(x, records).value]
        IN  /\ seen(lifted) = Rotation(v)
            /\ \A x \in ToSet(Sectors) :
                  the(x, seen(mirrored)).direction = -the(x, Rotation(v)).direction
            /\ evenVolumes =>
                  /\ heat(seen(mirrored)) = [x \in ToSet(Sectors) |-> 100 - heat(Rotation(v))[x]]
                  /\ IsInjective(heat(Rotation(v))) =>
                        the("leader", seen(mirrored)).value = the("laggard", Rotation(v)).value

(* The strike of the least pain is the lowest one at which the calls       *)
(* written up to it outweigh the puts written above it (options.py:176).   *)
MaxPainBalances ==
    \A c \in OfKind("chain") : Chain(c) # {} =>
        LET outweighs(k) == TotalOf(Interest(c.call), {s \in Strikes(c) : s <= k})
                              >= TotalOf(Interest(c.put), {s \in Strikes(c) : s > k})
        IN  MaxPain(c) = Min({k \in Strikes(c) : outweighs(k)})

(* One event more never makes the summary more confident nor lifts a       *)
(* freeze, and the summary is never more confident than the record of an   *)
(* event close at hand or less frozen than the window after a freezing     *)
(* event demands (events.py:226).                                          *)
CalendarCautious ==
    \A v \in OfKind("calendar") : Calendar(v) # {} =>
        LET all == Summary(v.events)
        IN  \A k \in DOMAIN v.events :
               LET fewer == Summary(RemoveAt(v.events, k))
                   e == v.events[k]
               IN  /\ all.confidence <= fewer.confidence /\ (fewer.freezes => all.freezes)
                   /\ Imminent(e) => all.confidence <= EventRecord(e).confidence
                   /\ Active(e) /\ ProfileOf(e.kind).freezes => all.freezes /\ all.impact = 3

(* A missing component never takes an index out of the range of the scores *)
(* that are there (flows.py:232, macro.py:184).                            *)
IndexAmongScores ==
    LET among(parts, index) == parts # {} =>
            Min({p.score : p \in parts}) <= index /\ index <= Max({p.score : p \in parts})
    IN  /\ \A v \in OfKind("macro") : among(MacroScores(v), Mean(MacroScores(v), 0))
        /\ \A v \in OfKind("flows") : v.fii # None =>
               among({Part(x, 1, FlowScores(v)[x]) : x \in {y \in DOMAIN FlowScores(v) : FlowScores(v)[y] # None}},
                     Participation(FlowScores(v)))

(* News is about a stock exactly when it is filed under one: the order of  *)
(* the entities and the order of the categories agree (news.py:429, 447).  *)
StockNewsFiled ==
    \A v \in OfKind("news") : Article(v).category = "stock" <=> Article(v).instrument = "stock"

(* A term of the lexicon says what the lexicon says of it (news.py:51).    *)
TermsSpeak ==
    \A v \in OfKind("news") : \A t \in PositiveTerms \cup NegativeTerms :
        v.words = t.of => Article(v).direction = t.score
=============================================================================
