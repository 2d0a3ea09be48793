----------------------------- MODULE Algorithms -----------------------------
(***************************************************************************)
(* The algorithms that keep no state of their own, each on every input of  *)
(* a bounded set: a behaviour takes up one topic and builds an input of it. *)
(***************************************************************************)
EXTENDS Integers, Sequences, FiniteSets, Functions

CONSTANTS Topics, Instruments, MaxGap, HistoryLimit, MaxHistory, MaxTime, MinIvObservations

VARIABLES topic, results, hours, history, view, snapshot,
          engine, observed, values, columns, chart, intraday, firstDay, leap, day, minute

feature == <<engine, observed, values, columns, chart, intraday, firstDay, leap, day, minute>>

vars == <<topic, results, hours, history, view, snapshot, feature>>

-----------------------------------------------------------------------------
None == -1000

\* Answers on both sides of the direction's threshold, with all or no condition met.
Components == {"market_structure", "institutional_flow", "events"}

Results ==
    [value : {None, -40, 4, 20}, confidence : {0, 50},
     past : {{}, {"liquidity_sweep_detected", "institutional_accumulation",
                  "event_driven_opportunity"}}]

Hours == {None, 1, 60}

\* What each engine may read, with every signal missing, against and with the others.
Levels == {None, -60, 0, 100}

Views ==
    {[engine |-> "trend", momenta |-> <<a, b>>, history |-> directions, high |-> 30, low |-> None,
      drawdown |-> drawdown, volume |-> drawdown, breakout |-> 50,
      signal |-> [structure |-> structure, bias |-> bias, move |-> move,
                  acceleration |-> acceleration, flow |-> bias, break |-> structure]] :
        a \in Levels, b \in {None, 40}, directions \in {<<>>, <<-100, 100, 100>>, <<-100, 0>>},
        drawdown \in {None, 50}, structure \in {None, -100}, bias \in {None, 50},
        move \in {None, -80, 30}, acceleration \in {-50, 50}}
      \cup
    {[engine |-> "momentum", momenta |-> <<a, b, c>>, extremity |-> extremity,
      signal |-> [move |-> move, acceleration |-> 50]] :
        a \in Levels, b \in Levels, c \in {None, 40}, extremity \in {None, 150, 300},
        move \in {None, -80, 30}}
      \cup
    {[engine |-> "structure", breakout |-> breakout, sweep |-> breakout,
      signal |-> [bias |-> bias, structure |-> structure, move |-> move, character |-> character]] :
        bias \in Levels, structure \in {None, 0, 100}, breakout \in {None, 50},
        move \in {None, -80, 30}, character \in {None, 0, -100}}
      \cup
    {[engine |-> "relative", momenta |-> <<a, b, c>>, outperformance |-> extremity,
      signal |-> [move |-> move]] :
        a \in Levels, b \in Levels, c \in {None, 40}, extremity \in {None, 70}, move \in {None, -80, 30}}
      \cup
    {[engine |-> "breadth", divergence |-> divergence, health |-> health,
      signal |-> [strength |-> a, participation |-> b, trend |-> c, momentum |-> d, extremes |-> e]] :
        a \in Levels, b \in Levels, c \in {None, 40}, d \in {None, 20}, e \in Levels,
        divergence \in {None, -5}, health \in {None, 70}}
      \cup
    {[engine |-> "volatility", regimes |-> <<a, b>>, instability |-> 20, compression |-> 30,
      expansion |-> 40, signal |-> [vix |-> vix, session |-> session]] :
        a \in {None, 0, 100}, b \in {None, 50}, vix \in Levels, session \in Levels}
      \cup
    {[engine |-> "flow", takeovers |-> takeovers,
      signal |-> [fii |-> a, dii |-> b, etf |-> c, deals |-> d, promoters |-> a, insiders |-> b]] :
        a \in Levels, b \in Levels, c \in {None, -50}, d \in {None, 40}, takeovers \in {None, 100}}
      \cup
    {[engine |-> "options", ivRank |-> rank,
      signal |-> [dealers |-> a, putcall |-> b, maxpain |-> c]] :
        a \in Levels, b \in Levels, c \in Levels, rank \in {None, 20, 80}}
      \cup
    {[engine |-> "macro", signal |-> [crude |-> a, dollar |-> b, gold |-> c]] :
        a \in Levels, b \in Levels, c \in Levels}
      \cup
    {[engine |-> "sector", sectors |-> sectors, separation |-> 40, rotation |-> rotation,
      signal |-> [participation |-> a, strength |-> b, momentum |-> 20]] :
        sectors \in [{"banks", "it", "metals"} ->
                     {[heat |-> None, leadership |-> None, previous |-> 50],
                      [heat |-> 60, leadership |-> 50, previous |-> -20],
                      [heat |-> 20, leadership |-> -120, previous |-> -10]}],
        rotation \in {0, 60}, a \in Levels, b \in {None, -60}}
      \cup
    {[engine |-> "transition", history |-> beliefs, signal |-> <<>>] :
        beliefs \in UNION {[1..n -> {[bull |-> 90, bear |-> 10, range |-> 0],
                                     [bull |-> 50, bear |-> 50, range |-> 0],
                                     [bull |-> 20, bear |-> 30, range |-> 50]}] : n \in 0..4}}
      \cup
    {[engine |-> "correlation", assets |-> 100, signal |-> <<>>, short |-> <<a, b>>, long |-> <<c, d>>] :
        a \in Levels, b \in Levels, c \in Levels, d \in {None, 20}}
      \cup
    {[engine |-> "composite", present |-> 10, confidence |-> 50, volatility |-> v, liquidity |-> 40,
      correlation |-> correlation, eventRisk |-> None,
      signal |-> [trend |-> a, breadth |-> b, options |-> c]] :
        v \in {None, 80}, correlation \in {None, 30}, a \in Levels, b \in Levels, c \in Levels}

\* Chains around a spot that is or is not a strike, with legs, quotes and greeks missing.
Leg(oi, change, quote) ==
    [oi |-> oi, change |-> change, volume |-> 2 * oi, iv |-> quote, gamma |-> quote,
     delta |-> quote, theta |-> quote, vega |-> quote, ltp |-> quote]

Chains ==
    {[kind |-> "chain", spot |-> spot, previous |-> previous, history |-> <<10, 20>>,
      call |-> [k \in {90, 100, 110} |-> IF k = 90 THEN Leg(calls[1], 1, quote)
                                         ELSE IF k = 100 THEN Leg(calls[2], -1, None) ELSE Leg(calls[3], 2, 30)],
      put |-> [k \in {90, 100, 110} |-> IF k = 90 THEN Leg(puts[1], change, 20)
                                        ELSE IF k = 100 THEN Leg(puts[2], 0, quote) ELSE Leg(puts[3], 0, 12)]] :
        spot \in {97, 100, 105}, previous \in {None, 99, 101}, quote \in {None, 14}, change \in {-5, 1},
        calls \in {<<0, 0, 0>>, <<1, 2, 4>>, <<3, 0, 1>>, <<2, 2, 2>>, <<0, 5, 0>>},
        puts \in {<<0, 0, 0>>, <<4, 2, 1>>, <<1, 0, 3>>, <<2, 2, 2>>, <<0, 0, 6>>}}
      \cup
    {[kind |-> "chain", spot |-> None, previous |-> None, history |-> <<>>,
      call |-> [k \in {100} |-> Leg(1, 0, None)], put |-> [k \in {100} |-> Leg(1, 0, None)]]}

FlowSnapshots ==
    {[kind |-> "flows", fii |-> fii, dii |-> -2, fiiAverage |-> average, diiAverage |-> 0, etf |-> etf,
      deals |-> deals, bought |-> bought, sold |-> 3, filings |-> 12, insiders |-> insiders] :
        fii \in {None, -9, 4}, average \in {0, 7}, etf \in {None, 5},
        deals \in {<<>>, <<[side |-> "buy", value |-> 900]>>,
                   <<[side |-> "sell", value |-> 900], [side |-> "buy", value |-> 200]>>},
        bought \in {0, 8}, insiders \in {-130, 0, 20}}

\* Events before, in, at the edge of, and after their windows.
CalendarEvents ==
    {[kind |-> "RBI", name |-> "policy", at |-> at] : at \in {-7, -6, 24, 25}}
      \cup {[kind |-> "ELECTION", name |-> "result", at |-> at] : at \in {-1, 72}}
      \cup {[kind |-> "DIVIDEND", name |-> "dividend", at |-> at] : at \in {0, 169}}
      \cup {[kind |-> "other", name |-> "other", at |-> at] : at \in {None, 4}}

Calendars == {[kind |-> "calendar", events |-> events] : events \in UNION {[1..n -> CalendarEvents] : n \in 0..3}}

Quotes ==
    {[last |-> last, previous |-> previous, high |-> 104, low |-> 96, cap |-> cap,
      ema |-> [ema20 |-> 99, ema50 |-> ema, ema100 |-> ema, ema200 |-> 97]] :
        last \in {96, 100, 103, 105}, previous \in {0, 100}, cap \in {1, 5}, ema \in {101, 104}}

Universes == {[kind |-> "breadth", rows |-> rs] : rs \in UNION {[1..n -> Quotes] : n \in 0..2}}

Sectors == <<"banks", "it">>

SectorReturns ==
    [day : {-100, 2, 300}, week : {50}, month : {-20, 10}, volume : {0, 3}]

Rotations ==
    {[kind |-> "sectors", benchmark |-> benchmark, sectors |-> readings] :
        benchmark \in SectorReturns,
        readings \in [{"banks", "it"} -> SectorReturns] \cup [{"banks"} -> SectorReturns]}

FactorReadings == [zscore : {None, -400, 20}, change : {None, 60}]

MacroReadings ==
    {[kind |-> "macro", factors |-> readings] :
        readings \in [{"CRUDE", "SPX", "GOLD"} -> FactorReadings] \cup [{"COPPER"} -> FactorReadings]}

NewsWords ==
    {"reliance", "ambani", "banking", "china", "powell", "modi", "opec", "tariff", "recession",
     "war", "buyback", "surge", "escalation", "today"}

Articles ==
    {[kind |-> "news", words |-> words, age |-> 20, source |-> "reuters"] :
        words \in {text \in UNION {[1..n -> NewsWords] : n \in 0..3} : IsInjective(text)}}
      \cup
    {[kind |-> "news", words |-> words, age |-> age, source |-> source] :
        words \in {<<"ceasefire", "deal">>, <<"ceasefire", "collapse">>, <<"trade", "war">>, <<"rate", "cut">>,
                   <<"record", "profit">>, <<"hong", "kong">>, <<"surge">>, <<"de-escalation">>},
        age \in {None, 29, 30, 119, 120}, source \in {"cnbc", "blog"}}

Snapshots ==
    Chains \cup FlowSnapshots \cup Calendars \cup Universes \cup Rotations \cup MacroReadings \cup Articles

-----------------------------------------------------------------------------
Proposing == INSTANCE Candidates
Assessing == INSTANCE Intelligence
Observing == INSTANCE Observations
Computing == INSTANCE Features

Init ==
    /\ topic \in Topics
    /\ Proposing!Init /\ Assessing!Init /\ Observing!Init /\ Computing!Init

proposed == <<results, hours, history>>

ProposeACandidate ==
    topic = "candidates" /\ Proposing!Next /\ UNCHANGED <<topic, view, snapshot, feature>>

AssessAMarket ==
    /\ topic = "assessments" /\ Assessing!Next
    /\ UNCHANGED <<topic, proposed, snapshot, feature>>

ObserveASnapshot ==
    /\ topic = "observations" /\ Observing!Next
    /\ UNCHANGED <<topic, proposed, view, feature>>

ComputeFeatures ==
    Computing!Next /\ UNCHANGED <<proposed, view, snapshot>>

Next ==
    \/ ProposeACandidate \/ AssessAMarket \/ ObserveASnapshot \/ ComputeFeatures

Spec == Init /\ [][Next]_vars

-----------------------------------------------------------------------------
(* Engines are even-handed, monotone and docked for conflicts only         *)
(* (intelligence/), and candidates are what their results say              *)
(* (opportunity.py, candidates.py).                                        *)
AssessmentsSound ==
    /\ Assessing!SameBothWays /\ Assessing!FollowsSignals /\ Assessing!ConflictCosts
    /\ Assessing!ExtremesApart
    /\ Proposing!CandidateFollowsResults /\ Proposing!SinceIsStreak

(* Collectors read a market in a mirror the other way round, sectors       *)
(* against their benchmark, take a missing input neither for or against,   *)
(* and file events and news with care (collectors/domains/).               *)
ObservationsSound ==
    Observing!ChainsMirrored /\ Observing!BreadthMirrored /\ Observing!ScoresMirrored
      /\ Observing!SectorsRelative /\ Observing!MaxPainBalances /\ Observing!CalendarCautious
      /\ Observing!IndexAmongScores /\ Observing!StockNewsFiled

(* Features stand, range and mirror as they should (features/).            *)
FeaturesSound == Computing!FeaturesSound
=============================================================================
