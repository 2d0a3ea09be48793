--------------------------- MODULE SessionFeatures ---------------------------
(***************************************************************************)
(* The features of a session of trading, reset every day                   *)
(* (features/intraday_risk.py), and those of the calendar and the clock    *)
(* (features/timefeat.py).                                                 *)
(*                                                                         *)
(* A bar of a session has its day, its open and its close.  Shares are in  *)
(* percent and deviations are kept as squares.  A year begins on any day   *)
(* of the week; minutes are of the day, in the time of the exchange.       *)
(***************************************************************************)
EXTENDS Normalization

CONSTANTS
    Closes,           \* the closes a bar may have
    MaxBars,          \* bound on the bars
    Lookback,         \* settings.feature_candle_lookback
    BarsPerSession, HorizonBars,      \* session and horizon in bars
    MinCandles,       \* MIN_CANDLES
    MinReturns,       \* MIN_RETURNS_FOR_VOL
    ExpiryWeekday,    \* settings.feature_expiry_weekday, 0 is Monday
    Holidays,         \* settings.feature_market_holidays, as days of the year
    BudgetDays,       \* settings.feature_budget_window_days
    Minutes           \* the minutes of a day that are considered

VARIABLES
    bars,             \* the bars of all sessions, oldest first
    firstDay,         \* the day of the week a year begins on
    leap,             \* whether it has 366 days
    day, minute       \* the time it is, days from 1

Init ==
    /\ bars = <<>>
    /\ firstDay \in 0..6 /\ leap \in BOOLEAN
    /\ day = 1 /\ minute \in Minutes

-----------------------------------------------------------------------------
(* A session's risk.                                                       *)
SessionRanges ==
    [elapsed |-> <<0, 100>>, current |-> <<0, 100>>, worst |-> <<0, 100>>, realized |-> <<0, 1000000>>,
     nextMove |-> <<0, 1000000>>, restMove |-> <<0, 1000000>>]

SessionOf(b, d) == SelectSeq(b, LAMBDA c : c.day = d)

\* The return of each bar of a session but the first.
Returns(s, idx) == Present([k \in 1..(idx - 1) |-> Percent(s[k + 1].close - s[k].close, s[k].close)])

Variance(vs) ==
    Len(vs) * Sum([k \in DOMAIN vs |-> vs[k] * vs[k]]) - Sum(vs) * Sum(vs)

\* Fault: the decline from the highest close of the session, not of the session so far.
DeclineFromTop(s, idx) ==
    LET peak == Max({s[k].close : k \in DOMAIN s}) IN IF peak > 0 THEN (100 * (peak - s[idx].close)) \div peak ELSE 0

Decline(s, idx) ==
    LET peak == Max({s[k].close : k \in 1..idx}) IN IF peak > 0 THEN (100 * (peak - s[idx].close)) \div peak ELSE 0

\* What is lost with a chance of 5 percent: 1.645 deviations, in squares.
AtRisk(variance) == (27 * variance) \div 10

SessionRow(s, idx) ==
    LET returns == Returns(s, idx)
        known == Len(returns) >= MinReturns
        variance == IF known THEN Variance(returns) ELSE None
        Lasting(count) == IF known THEN variance * count ELSE None
        remaining == Max({0, BarsPerSession - idx})
    IN  [elapsed |-> Min({100, (100 * idx) \div BarsPerSession}),
         move |-> Percent(s[idx].close - s[1].open, s[1].open),
         current |-> Decline(s, idx),
         worst |-> Max({Decline(s, k) : k \in 1..idx}),
         realized |-> Lasting(BarsPerSession),
         nextMove |-> Lasting(HorizonBars),
         nextAtRisk |-> IF known THEN AtRisk(Lasting(HorizonBars)) ELSE None,
         restMove |-> Lasting(remaining),
         restAtRisk |-> IF known THEN AtRisk(Lasting(remaining)) ELSE None]

\* The rows of the sessions that have enough bars, by day and by bar of the day.
Rows(b) ==
    LET days == {d \in {b[k].day : k \in DOMAIN b} : Len(SessionOf(b, d)) >= MinCandles}
    IN  [at \in UNION {{d} \X DOMAIN SessionOf(b, d) : d \in days} |-> SessionRow(SessionOf(b, at[1]), at[2])]

Loaded == SubSeq(bars, Max({1, Len(bars) - Lookback + 1}), Len(bars))

\* A session has its bars, and the next begins where a session closed.
NextBar ==
    /\ Len(bars) < MaxBars
    /\ \E close \in Closes :
          LET today == IF bars = <<>> THEN 1 ELSE Last(bars).day
              open == IF bars = <<>> THEN close ELSE Last(bars).close
          IN  \E d \in {today, today + 1} :
                 /\ d = today => Len(SessionOf(bars, today)) <= BarsPerSession
                 /\ bars' = Append(bars, [day |-> d, open |-> open, close |-> close])
    /\ UNCHANGED <<firstDay, leap, day, minute>>

-----------------------------------------------------------------------------
(* The calendar.                                                           *)
\* The last day of a month, of a year that begins with day 1.
LastDay(month) ==
    <<0, 31, 59, 90, 120, 151, 181, 212, 243, 273, 304, 334, 365>>[month + 1]
      + IF leap /\ month > 1 THEN 1 ELSE 0

DateOf(month, of) == LastDay(month - 1) + of

Weekday(d) == (firstDay + d - 1) % 7

MonthOf(d) == Min({m \in 1..12 : d <= LastDay(m)})

\* monthly_expiry_date(): back from the last day of the month.
MonthlyExpiry(month) == LastDay(month) - ((Weekday(LastDay(month)) - ExpiryWeekday) % 7)

\* EARNINGS_WINDOWS and _in_earnings_season()
EarningsSeason(d) == \E m \in {1, 4, 7, 10} : d \in DateOf(m, 10)..DateOf(m + 1, 15)

TimeRanges ==
    [dayOfWeek |-> <<0, 6>>, month |-> <<1, 12>>, quarter |-> <<1, 4>>, marketOpen |-> <<0, 600>>,
     sinceOpen |-> <<0, 600>>, untilClose |-> <<0, 600>>]

TimeFeatures(d) ==
    LET expiry == MonthlyExpiry(MonthOf(d))
        upcoming == {h \in Holidays : h >= d}
    IN  [dayOfWeek |-> Weekday(d), month |-> MonthOf(d), quarter |-> (MonthOf(d) - 1) \div 3 + 1,
         weeklyExpiry |-> Weekday(d) = ExpiryWeekday,
         monthlyExpiry |-> d = expiry,
         expiryWeek |-> d \in (expiry - Weekday(expiry))..expiry,
         holidayDistance |-> IF upcoming = {} THEN None ELSE Min(upcoming) - d,
         budgetWindow |-> d \in (DateOf(2, 1) - BudgetDays)..(DateOf(2, 1) + BudgetDays),
         earningsSeason |-> EarningsSeason(d)]

\* compute_clock_features(): the session is from 9:15 to 15:30.
ClockFeatures(d, at) ==
    LET isOpen == Weekday(d) < 5 /\ at \in 555..930
    IN  [marketOpen |-> 375, isOpen |-> isOpen,
         sinceOpen |-> IF isOpen THEN at - 555 ELSE 0, untilClose |-> IF isOpen THEN 930 - at ELSE 0]

NextDay ==
    /\ day < LastDay(12)
    /\ day' = day + 1
    /\ UNCHANGED <<bars, firstDay, leap, minute>>

-----------------------------------------------------------------------------
(* A row of a session says the same whatever sessions were before, and     *)
(* whatever bars follow; rows that are new are after all there were, so    *)
(* that a watermark skips none.  A session that is cut by the lookback is  *)
(* not the one it was.                                                     *)
SessionsApart ==
    LET rows == Rows(Loaded)
        all == Rows(bars)
        before == IF bars = <<>> THEN <<>> ELSE Rows(Front(bars))
        Cut(d) == Len(SessionOf(Loaded, d)) < Len(SessionOf(bars, d))
        After(x, y) == x[1] > y[1] \/ (x[1] = y[1] /\ x[2] > y[2])
    IN  /\ \A at \in DOMAIN rows : ~Cut(at[1]) => rows[at] = all[at]
        /\ \A at \in DOMAIN before : all[at] = before[at]
        /\ \A at \in DOMAIN all \ DOMAIN before : \A b \in DOMAIN before : After(at, b)

(* As a session goes on its share elapses, its worst decline only deepens, *)
(* and what may still come of it shrinks to nothing at its end.            *)
SessionsRunOut ==
    LET rows == Rows(bars)
    IN  \A at \in DOMAIN rows :
          LET row == rows[at]
              next == <<at[1], at[2] + 1>>
          IN  /\ \A n \in DOMAIN SessionRanges : row[n] # None => Quality(SessionRanges[n], <<row[n]>>) = 100
              /\ row.current <= row.worst
              /\ next \in DOMAIN rows => row.elapsed <= rows[next].elapsed /\ row.worst <= rows[next].worst
              /\ row.elapsed = 100 /\ row.restMove # None => row.restMove = 0 /\ row.restAtRisk = 0
              /\ BarsPerSession - at[2] <= HorizonBars => row.restMove <= row.nextMove
              /\ row.nextMove # None => row.nextMove <= row.nextAtRisk \/ row.nextMove = 0

Dated(f, clock, month) ==
    /\ \A n \in DOMAIN TimeRanges : Quality(TimeRanges[n], <<(f @@ clock)[n]>>) = 100
    /\ day = Min(month) => Cardinality({d \in month : TimeFeatures(d).monthlyExpiry}) = 1
    /\ f.monthlyExpiry => f.weeklyExpiry /\ f.expiryWeek
    /\ f.monthlyExpiry => \A d \in {e \in month : e > day} : ~TimeFeatures(d).weeklyExpiry
    /\ f.expiryWeek => \E d \in day..(day + 6 - Weekday(day)) : d \in month /\ TimeFeatures(d).monthlyExpiry
    /\ f.holidayDistance # None /\ f.holidayDistance > 0 =>
         TimeFeatures(day + 1).holidayDistance = f.holidayDistance - 1
    /\ clock.isOpen => f.dayOfWeek < 5 /\ clock.sinceOpen + clock.untilClose = clock.marketOpen

(* A month has one monthly expiry, the last of its weekly ones, in a week  *)
(* that ends with it; holidays come nearer by the day; and the minutes     *)
(* since the open and until the close make up a session.                   *)
CalendarTrue ==
    LET month == MonthOf(day)
    IN  Dated(TimeFeatures(day), ClockFeatures(day, minute), DateOf(month, 1)..LastDay(month))
=============================================================================
