------------------------------ MODULE Candles ------------------------------
(***************************************************************************)
(* The candles of one symbol and how they get to the ohlcv table: the      *)
(* WebSocket feed (market/angel_ws.py), LiveMarketCollector and            *)
(* HistoricalCandleCollector (collectors/market_data.py) and the tick      *)
(* aggregator (collectors/tick_aggregator.py).  The two collectors run at  *)
(* the same time and write the same rows, one with DO UPDATE, the other    *)
(* with DO NOTHING.  A step is the code between two awaits, together with  *)
(* those that touch nothing another actor reads.                           *)
(*                                                                         *)
(* Time is in minutes, the width of the base candle.  Of a candle the      *)
(* model keeps its range.  A rollup stands for a row of a coarser interval *)
(* whose buckets are the same by the clock and from the session's open, as *)
(* those of 3m, 5m and 15m are.                                            *)
(***************************************************************************)
EXTENDS Integers, FiniteSets, FiniteSetsExt

CONSTANTS
    Prices,
    OpeningPrice,  \* of the first minute
    DayLength,     \* minutes of a session
    LastMinute,    \* bound on time
    Moves,         \* bound on the minutes that more than one price is traded in
    Width,         \* minutes of a rollup bucket
    Lookback,      \* default_lookback of the minutes, in minutes
    CoarseLookback \* and of the coarser interval

ASSUME CandlesAssumption ==
    /\ Prices \subseteq Nat \ {0}
    /\ OpeningPrice \in Prices
    /\ {DayLength, LastMinute, Width, Lookback, CoarseLookback} \subseteq Nat \ {0}
    /\ Moves \in Nat

VARIABLES
    now,       \* the present minute
    truth,     \* the market: the true candle of each minute so far
    feed,      \* down, up, or closed: down, with the connected flag still set
    packet,    \* the feed's last tick
    memory,    \* the aggregator's bar
    live,      \* the run of LiveMarketCollector
    history,   \* the run of HistoricalCandleCollector
    stored,    \* the 1m rows of ohlcv
    rollup     \* the rows of a coarser interval

market == <<now, truth>>
rows == <<stored, rollup>>
vars == <<now, truth, feed, packet, memory, live, history, stored, rollup>>

Minutes == 1..LastMinute

\* The writer of a row is a history variable: the historical collector, or the live
\* one, in this life of the process or an earlier one.
Writers == {"none", "history", "live", "formerly live"}

Bar(low, high, writer) == [low |-> low, high |-> high, writer |-> writer]

NoBar == Bar(0, 0, "none")

Bars == [low : Prices \cup {0}, high : Prices \cup {0}, writer : Writers]

\* The price of a tick, and the minute it was received in.
NoTick == [price |-> 0, seen |-> 0]

NoMemory == [bucket |-> 0, low |-> 0, high |-> 0]

NoLive == [pc |-> "idle", fold |-> NoBar]

NoHistory == [pc |-> "idle", start |-> 0, end |-> 0]

Histories ==
    [pc : {"idle", "fetch", "next", "fetch coarse"}, start : Int, end : 0..LastMinute]

TypeOK ==
    /\ now \in Minutes
    /\ truth \in [Minutes -> Bars]
    /\ feed \in {"down", "up", "closed"}
    /\ packet \in [price : Prices \cup {0}, seen : 0..LastMinute]
    /\ memory \in [bucket : 0..LastMinute, low : Prices \cup {0}, high : Prices \cup {0}]
    /\ live \in [pc : {"idle", "upsert", "commit"}, fold : Bars]
    /\ history \in Histories
    /\ stored \in [Minutes -> Bars]
    /\ rollup \in [Minutes -> Bars]

Init ==
    /\ now = 1
    /\ truth = [m \in Minutes |-> IF m = 1 THEN Bar(OpeningPrice, OpeningPrice, "none") ELSE NoBar]
    /\ feed = "down"
    /\ packet = NoTick
    /\ memory = NoMemory
    /\ live = NoLive
    /\ history = NoHistory
    /\ stored = [m \in Minutes |-> NoBar]
    /\ rollup = [m \in Minutes |-> NoBar]

-----------------------------------------------------------------------------
(* The market. *)

Day(m) == (m - 1) \div DayLength

\* A trade at a price the minute has not seen yet.
Trade(p) ==
    /\ p < truth[now].low \/ p > truth[now].high
    /\ Cardinality({m \in Minutes \ {now} : truth[m].low # truth[m].high}) < Moves
    /\ truth' = [truth EXCEPT ![now].low = IF p < @ THEN p ELSE @,
                              ![now].high = IF p > @ THEN p ELSE @]
    /\ UNCHANGED <<now, feed, packet, memory, live, history, rows>>

\* The minute ends; the last price is quoted until the next trade.
NextMinute ==
    /\ now < LastMinute
    /\ now' = now + 1
    /\ \E p \in {truth[now].low, truth[now].high} :
         truth' = [truth EXCEPT ![now + 1] = Bar(p, p, "none")]
    /\ UNCHANGED <<feed, packet, memory, live, history, rows>>

-----------------------------------------------------------------------------
(* The WebSocket feed. *)

\* _run() connects, again and again.
Connect ==
    /\ feed # "up"
    /\ feed' = "up"
    /\ UNCHANGED <<market, packet, memory, live, history, rows>>

\* An exception clears the connected flag.  A close by the server ends the loop over
\* the messages without one, and leaves it set until the next attempt fails.
Disconnect ==
    /\ \/ feed \in {"up", "closed"} /\ feed' = "down"
       \/ feed = "up" /\ feed' = "closed"
    /\ UNCHANGED <<market, packet, memory, live, history, rows>>

\* What a quote of this moment says.
Quotes == {[price |-> p, seen |-> now] : p \in {truth[now].low, truth[now].high}}

OnMessage ==
    /\ feed = "up"
    /\ packet' \in Quotes
    /\ UNCHANGED <<market, feed, memory, live, history, rows>>

-----------------------------------------------------------------------------
(* LiveMarketCollector and TickCandleAggregator. *)

\* Fault: latest() does not look at the age of the tick.
LatestOfAnyAge == IF packet = NoTick THEN {} ELSE {packet}

\* latest(): the last tick, while it is 30 s old or younger.
Latest ==
    IF packet = NoTick \/ packet.seen < now - 1 \/ Day(packet.seen) # Day(now) THEN {}
    ELSE {packet}

\* _record_from_stream() goes by the connected flag.
Streamed == IF feed = "down" THEN {} ELSE Latest

\* _update_bar(), for a tick booked to this minute.
Updated(price) ==
    IF memory.bucket = now
    THEN [memory EXCEPT !.low = IF price < @ THEN price ELSE @,
                        !.high = IF price > @ THEN price ELSE @]
    ELSE [bucket |-> now, low |-> price, high |-> price]

\* collect(): a tick from the stream, booked to the time of the call, or from a REST
\* quote; when that fails there is none.  It goes to raw_ticks and to the memory.
Ingest ==
    /\ live.pc = "idle"
    /\ \E tick \in Streamed \cup Quotes : memory' = Updated(tick.price)
    /\ live' = [live EXCEPT !.pc = "upsert"]
    /\ UNCHANGED <<market, feed, packet, history, rows>>

\* floor_to_session_bucket(): buckets start at the session's open.
Bucket(m) == m - (((m - 1) % DayLength) % Width)

\* The minutes of a bucket; between two sessions lie hours without minutes.
Window(m) ==
    {k \in Minutes : Day(k) = Day(m) /\ k >= Bucket(m) /\ k < Bucket(m) + Width}

\* The rows of a window as one bar.
Fold(table, window) ==
    LET bars == {m \in window : table[m] # NoBar}
    IN  Bar(Min({table[m].low : m \in bars}), Max({table[m].high : m \in bars}), "live")

Upserted == [stored EXCEPT ![memory.bucket] = Bar(memory.low, memory.high, "live")]

\* _upsert_rollups() reads the 1m rows, the one just upserted among them.
FoldRows ==
    /\ live.pc = "upsert"
    /\ live' = [pc |-> "commit", fold |-> Fold(Upserted, Window(memory.bucket))]
    /\ UNCHANGED <<market, feed, packet, memory, history, rows>>

\* Fault: the rollup is committed on its own, before the minute's row, which may fail.
CommitRollupFirst ==
    /\ live.pc = "commit"
    /\ stored' \in {stored, Upserted}
    /\ rollup' = [rollup EXCEPT ![Bucket(memory.bucket)] = live.fold]
    /\ live' = NoLive
    /\ UNCHANGED <<market, feed, packet, memory, history>>

\* The upserts of the minute and of the rollup are committed together.
Commit ==
    /\ live.pc = "commit"
    /\ stored' = Upserted
    /\ rollup' = [rollup EXCEPT ![Bucket(memory.bucket)] = live.fold]
    /\ live' = NoLive
    /\ UNCHANGED <<market, feed, packet, memory, history>>

\* The database fails: a warning, and the run goes on without the rows.
CommitFails ==
    /\ live.pc \in {"upsert", "commit"}
    /\ live' = NoLive
    /\ UNCHANGED <<market, feed, packet, memory, history, rows>>

-----------------------------------------------------------------------------
(* HistoricalCandleCollector: collect() takes the minutes and then the coarser interval, *)
(* up to the time it began.                                                              *)

\* _backfill_start(): the newest stored bar of the interval, but not before the default
\* lookback; the latter too where the query fails.
Starts(table, end, lookback) ==
    LET newest == Max({m \in Minutes : table[m] # NoBar} \cup {0})
    IN  {IF newest > end - lookback THEN newest ELSE end - lookback, end - lookback}

\* An interval is skipped that has a bar of the future.
Resume ==
    /\ history.pc = "idle"
    /\ \E start \in Starts(stored, now, Lookback) :
         history' = [pc |-> IF start > now THEN "next" ELSE "fetch",
                     start |-> start, end |-> now]
    /\ UNCHANGED <<market, feed, packet, memory, live, rows>>

ResumeCoarse ==
    /\ history.pc = "next"
    /\ \E start \in Starts(rollup, history.end, CoarseLookback) :
         history' = IF start > history.end THEN NoHistory
                    ELSE [history EXCEPT !.pc = "fetch coarse", !.start = start]
    /\ UNCHANGED <<market, feed, packet, memory, live, rows>>

\* The minutes a source may answer about: the broker from the start asked for, Yahoo its
\* whole history, both up to some minute, as they lag behind; the exchange, asked for a
\* window of today only, today's minutes, padded with placeholders for those to come.
Answers ==
    {history.start..last : last \in history.start..now}
    \cup {1..last : last \in 1..now}
    \cup (IF Day(history.start) # Day(history.end) THEN {}
          ELSE {{m \in Minutes : Day(m) = Day(now) /\ m <= last} : last \in Minutes})

\* Fault: bars of the future are kept.
KeptWithFuture(minutes) == minutes \cap Minutes

\* _drop_future_candles(), by the time a bar starts.
Kept(minutes) == {m \in minutes \cap Minutes : m <= history.end}

\* The bar of a minute as a source tells it.
Told(m) ==
    IF m > now THEN Bar(truth[now].low, truth[now].low, "history")
    ELSE Bar(truth[m].low, truth[m].high, "history")

MinuteBars(minutes) == [m \in Kept(minutes) |-> Told(m)]

\* The bar of a bucket that starts in the answer, of the minutes of it that have come.
ToldCoarse(b, minutes) == [Fold(truth, Window(b) \cap minutes) EXCEPT !.writer = "history"]

CoarseBars(minutes) ==
    [b \in {b \in Kept(minutes) : Bucket(b) = b} |-> ToldCoarse(b, minutes)]

\* Fault: ON CONFLICT DO UPDATE.
StoredOver(table, bars) ==
    [m \in Minutes |-> IF m \in DOMAIN bars THEN bars[m] ELSE table[m]]

\* _store_candles(): ON CONFLICT DO NOTHING.
StoredOnce(table, bars) ==
    [m \in Minutes |-> IF m \in DOMAIN bars /\ table[m] = NoBar THEN bars[m] ELSE table[m]]

\* _fetch_with_fallback(): each source may fail or have no bars, so that any of them may
\* be the one that is used, or none.  Storing the bars may fail, also once they are
\* committed: the run raises, and the next interval is not reached.
Fetch ==
    /\ history.pc = "fetch"
    /\ \/ \E minutes \in Answers : stored' = StoredOnce(stored, MinuteBars(minutes))
       \/ UNCHANGED stored
    /\ history' \in {NoHistory, [history EXCEPT !.pc = "next", !.start = 0]}
    /\ UNCHANGED <<market, feed, packet, memory, live, rollup>>

FetchCoarse ==
    /\ history.pc = "fetch coarse"
    /\ \/ \E minutes \in Answers : rollup' = StoredOnce(rollup, CoarseBars(minutes))
       \/ UNCHANGED rollup
    /\ history' = NoHistory
    /\ UNCHANGED <<market, feed, packet, memory, live, stored>>

Aged(row) == [row EXCEPT !.writer = IF @ = "live" THEN "formerly live" ELSE @]

\* The process dies and starts again: memory and runs are gone.
Restart ==
    /\ feed' = "down"
    /\ packet' = NoTick
    /\ memory' = NoMemory
    /\ live' = NoLive
    /\ history' = NoHistory
    /\ stored' = [m \in Minutes |-> Aged(stored[m])]
    /\ UNCHANGED <<market, rollup>>

Next ==
    \/ \E p \in Prices : Trade(p)
    \/ NextMinute
    \/ Connect \/ Disconnect \/ OnMessage
    \/ Ingest \/ FoldRows \/ Commit \/ CommitFails
    \/ Resume \/ Fetch \/ ResumeCoarse \/ FetchCoarse
    \/ Restart

Spec == Init /\ [][Next]_vars

-----------------------------------------------------------------------------
(***************************************************************************)
(* Properties.                                                             *)
(***************************************************************************)

\* No row is of the future, whatever the sources pad: one would be the newest row, and
\* the historical collector would find itself caught up until its time has come.
NoFutureBars == \A m \in Minutes : m > now => stored[m] = NoBar /\ rollup[m] = NoBar

\* A row shows prices of its minute, or of the minute before where a streamed tick
\* came late, and no older ones - though a stream that is down may look connected.
BarsAreReal ==
    \A m \in Minutes :
        stored[m] # NoBar =>
            LET shown == {k \in {m - 1, m} \cap Minutes : truth[k] # NoBar}
            IN  /\ \E k \in shown : truth[k].low <= stored[m].low
                /\ \E k \in shown : truth[k].high >= stored[m].high

\* The 1m rows show what the market did, as far as it has come.
TableTrue == NoFutureBars /\ BarsAreReal

Covers(new, old) == new.low <= old.low /\ new.high >= old.high

\* "overwriting its OWN previous partial state with a more complete one", while the
\* historical collector "can never clobber this layer's more complete" rows: within a
\* life of the process a live row only widens, and a rollup of the live collector is
\* never one of the historical collector again.
LiveBarsGrow ==
    [][\A m \in Minutes :
         /\ stored[m].writer = "live" /\ stored'[m].writer # "formerly live" =>
              stored'[m].writer = "live" /\ Covers(stored'[m], stored[m])
         /\ rollup[m].writer = "live" => rollup'[m].writer = "live"]_vars

\* A rollup of the live collector is the fold of the minutes stored in its window; rows
\* the historical collector adds later can only widen the window.
FoldOfMinutes(b) ==
    LET window == Window(b)
        fold == Fold(stored, window)
    IN  /\ \E m \in window : stored[m] # NoBar
        /\ Covers(fold, rollup[b])
        /\ (\A m \in window : stored[m].writer # "history") => fold = rollup[b]

\* One of the historical collector shows prices of its window, though not always all.
PartOfWindow(b) ==
    LET shown == {k \in Window(b) : truth[k] # NoBar}
    IN  /\ rollup[b].low <= rollup[b].high
        /\ \E k \in shown : truth[k].low <= rollup[b].low
        /\ \E k \in shown : truth[k].high >= rollup[b].high

\* A rollup starts a bucket of the session and is true to its minutes: those stored,
\* where the aggregator folded them, or those of the market, where it was fetched.
RollupIsFold ==
    \A b \in Minutes :
        rollup[b] # NoBar =>
            /\ Bucket(b) = b
            /\ IF rollup[b].writer = "history" THEN PartOfWindow(b) ELSE FoldOfMinutes(b)

\* "remains the deep-backfill/gap-filler layer underneath": once a run has stored all
\* bars up to now of a source that has them, no minute of the lookback is missing.
GapsFilled ==
    [][history.pc = "fetch" /\ history.end = now /\ stored' # stored
         /\ stored' = StoredOnce(stored, MinuteBars(history.start..now))
       => \A m \in Minutes : m \in now - Lookback..now => stored'[m] # NoBar]_vars
=============================================================================
