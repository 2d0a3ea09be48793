------------------------------- MODULE Labels -------------------------------
(***************************************************************************)
(* Triple-barrier labels (prediction/labeling.py): a trade entered at the  *)
(* close of one bar is followed bar by bar through those after it.         *)
(*                                                                         *)
(* A price is its distance from the entry, upwards positive and in the     *)
(* unit of trailing_volatility() * entry / 5.  A distance taken from       *)
(* another price than the entry's is treated as if taken from the entry's, *)
(* an error of second order.  A bar also says whether its IST date is one  *)
(* of event_dates or liquidity_dates.                                      *)
(***************************************************************************)
EXTENDS Integers, Sequences, FiniteSetsExt

CONSTANTS
    MaxHolding,       \* max_holding_bars
    MaxBars,          \* bound on the bars that follow the entry
    Prices,           \* the prices a bar may open at, reach and close at
    Dates             \* what a bar's date may be: "ordinary", or that of a barrier

VARIABLES
    bars,             \* the bars after the entry
    walked            \* how far the trade of each direction has come on them

Shapes == {b \in [open : Prices, high : Prices, low : Prices, close : Prices, date : Dates] :
             /\ b.low <= b.open /\ b.open <= b.high /\ b.low <= b.close /\ b.close <= b.high
             /\ b.date # "ordinary" => b.open = b.close}

Directions == {"long", "short"}

\* barrier_config_for(): K_PROFIT, K_STOP, and the default fractions of the trail.
ProfitTarget == 2 * 5
FixedStop == -1 * 5
TrailActivation == ProfitTarget \div 2
TrailDistance == (4 * ProfitTarget) \div 10

\* A bar as the trade sees it: sign = -1 turns it over.
Seen(bar, direction) ==
    IF direction = "long" THEN bar
    ELSE [bar EXCEPT !.open = -bar.open, !.high = -bar.low, !.low = -bar.high,
                     !.close = -bar.close]

\* How far a trade has come: no bar has ended it while its exit is "".
Entered == [exit |-> "", price |-> 0, held |-> 0, gap |-> FALSE, ambiguous |-> FALSE,
            trailing |-> FALSE, stop |-> FixedStop, extreme |-> 0, close |-> 0]

Exit(trade, reason, price, gap, ambiguous) ==
    [trade EXCEPT !.exit = reason, !.price = price, !.gap = gap, !.ambiguous = ambiguous]

\* Fault: the trailing stop follows the bar's high, not the extreme.
TrailedLoosely(trade, bar) ==
    LET trailing == trade.trailing \/ bar.high >= TrailActivation
    IN  [trade EXCEPT !.trailing = trailing, !.extreme = bar.high,
                      !.stop = IF trailing THEN bar.high - TrailDistance ELSE @]

\* The extreme and the stop behind it, which only tightens.
Trailed(trade, bar) ==
    LET extreme == Max({trade.extreme, bar.high})
        trailing == trade.trailing \/ extreme >= TrailActivation
    IN  [trade EXCEPT !.trailing = trailing, !.extreme = extreme,
                      !.stop = IF trailing THEN Max({@, extreme - TrailDistance}) ELSE @]

\* Fault: the range of the bar is looked at before its open.
TouchFirst(trade, bar) ==
    LET StopReason == IF trade.trailing THEN "trailing_stop" ELSE "stop"
    IN  IF bar.high >= ProfitTarget THEN Exit(trade, "profit_target", ProfitTarget, FALSE, FALSE)
        ELSE IF bar.low <= trade.stop THEN Exit(trade, StopReason, trade.stop, FALSE, FALSE)
        ELSE Trailed(trade, bar)

\* One bar: a gap at the open, a touch within the range, the event and liquidity
\* barriers at the close, and the trail.
Bar(trade, bar) ==
    LET StopReason == IF trade.trailing THEN "trailing_stop" ELSE "stop"
        profit(price) == price >= ProfitTarget
        stopped(price) == price <= trade.stop
    IN  CASE profit(bar.open) /\ stopped(bar.open) -> Exit(trade, "stop", bar.open, TRUE, TRUE)
          [] profit(bar.open) /\ ~ stopped(bar.open) ->
               Exit(trade, "profit_target", ProfitTarget, TRUE, FALSE)
          [] ~ profit(bar.open) /\ stopped(bar.open) ->
               Exit(trade, StopReason, trade.stop, TRUE, FALSE)
          [] OTHER ->
               CASE profit(bar.high) /\ stopped(bar.low) ->
                      Exit(trade, "stop", trade.stop, FALSE, TRUE)
                 [] profit(bar.high) /\ ~ stopped(bar.low) ->
                      Exit(trade, "profit_target", ProfitTarget, FALSE, FALSE)
                 [] ~ profit(bar.high) /\ stopped(bar.low) ->
                      Exit(trade, StopReason, trade.stop, FALSE, FALSE)
                 [] OTHER ->
                      IF bar.date # "ordinary" THEN Exit(trade, bar.date, bar.close, FALSE, FALSE)
                      ELSE Trailed(trade, bar)

Walk(trade, bar) ==
    IF trade.exit # "" THEN trade
    ELSE [Bar(trade, bar) EXCEPT !.held = @ + 1, !.close = bar.close]

Init == bars = <<>> /\ walked = [d \in Directions |-> Entered]

\* One turn of the loop of label_single_entry(); the bars beyond the holding period are
\* cut off by its caller.
Next ==
    /\ Len(bars) < MaxBars
    /\ \E b \in Shapes :
         /\ bars' = Append(bars, b)
         /\ walked' = IF Len(bars) < MaxHolding
                      THEN [d \in Directions |-> Walk(walked[d], Seen(b, d))] ELSE walked

vars == <<bars, walked>>

Spec == Init /\ [][Next]_vars

\* Fault: what has not ended is a timeout, however few bars there are.
TradeNeverShort(direction) ==
    LET end == walked[direction]
    IN  IF end.exit # "" THEN end ELSE Exit(end, "max_holding_time", end.close, FALSE, FALSE)

\* What label_single_entry() makes of the bars there are.
Trade(direction) ==
    LET end == walked[direction]
    IN  IF end.exit # "" THEN end
        ELSE Exit(end, IF Len(bars) < MaxHolding THEN "insufficient_data"
                       ELSE "max_holding_time",
                  end.close, FALSE, FALSE)

Protective == {"trailing_stop", "event_barrier", "liquidity_barrier"}

\* _resolve(): the label, and its quality in tenths.
Name(trade) ==
    CASE trade.exit = "profit_target" -> "win"
      [] trade.exit = "stop" -> "loss"
      [] trade.exit \in Protective -> IF trade.price > 0 THEN "partial_success" ELSE "loss"
      [] OTHER -> "timeout"

Quality(trade) ==
    IF trade.exit = "insufficient_data" THEN 1
    ELSE 10 - (IF trade.gap THEN 3 ELSE 0) - (IF trade.ambiguous THEN 4 ELSE 0)
            - (IF trade.exit = "max_holding_time" THEN 2 ELSE 0)

\* MIN_LABEL_QUALITY of prediction/ensemble.py: what goes into training.
GoodEnough(trade) == Quality(trade) >= 2

-----------------------------------------------------------------------------
(* A label that goes into training is final: whatever bars come later, the *)
(* trade keeps its exit, price and label.  One that was cut short says so. *)
Settled ==
    \A d \in Directions : GoodEnough(Trade(d)) => Trade(d)' = Trade(d)

(* The exit is one the trade could have had: within the range of the bar   *)
(* it ended in unless it was gapped over, no better than the target and no *)
(* worse than the fixed stop nor than the trail behind any bar before, and  *)
(* on the first bar that touched either.                                   *)
ExitsExplained ==
    \A d \in Directions : bars # <<>> =>
        LET trade == Trade(d)
            last == Seen(bars[trade.held], d)
            earlier == {Seen(bars[k], d) : k \in 1..(trade.held - 1)}
        IN  /\ trade.gap \/ trade.price \in last.low..last.high
            /\ trade.exit \notin {"event_barrier", "liquidity_barrier", "max_holding_time",
                                  "insufficient_data"} => trade.price >= FixedStop
            /\ trade.price <= ProfitTarget
            /\ \A b \in earlier : b.high < ProfitTarget /\ b.low > FixedStop
            /\ Name(trade) = "win" => trade.price = ProfitTarget
            /\ trade.exit = "trailing_stop" =>
                 /\ \E b \in earlier : b.high >= TrailActivation
                 /\ \A b \in earlier : b.high >= TrailActivation => trade.price >= b.high - TrailDistance
=============================================================================
